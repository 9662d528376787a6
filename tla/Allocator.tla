----------------------------- MODULE Allocator -----------------------------
(***************************************************************************)
(* What the users of kmalloc and kfree rely on: every successful           *)
(* allocation hands out a run of blocks nobody else holds, and giving one  *)
(* back releases that run and nothing else.  Heap.tla is shown to          *)
(* implement this specification.                                           *)
(***************************************************************************)
EXTENDS Integers

CONSTANT Blocks        \* the block numbers that can be handed out

VARIABLE owned         \* the set of runs of blocks handed out

\* A run is a nonempty set of consecutive block numbers.
IsRun(r) ==
    /\ r # {}
    /\ \A x, y \in r : \A z \in Blocks : x =< z /\ z =< y => z \in r

Init == owned = {}

Acquire(r) ==
    /\ IsRun(r)
    /\ \A o \in owned : o \cap r = {}
    /\ owned' = owned \cup {r}

Release(r) ==
    /\ r \in owned
    /\ owned' = owned \ {r}

Next == \E r \in SUBSET Blocks : Acquire(r) \/ Release(r)

Spec == Init /\ [][Next]_owned
=============================================================================
