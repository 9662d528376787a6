-------------------------------- MODULE Heap --------------------------------
(***************************************************************************)
(* The kernel heap: kmalloc, kzalloc and kfree of kheap.c over the table   *)
(* of HeapTable.tla, called in any order.                                  *)
(***************************************************************************)
EXTENDS HeapTable

VARIABLES
    entries,        \* the bytes of the table and around it
    live            \* the allocations that callers hold: pointer and blocks

vars == <<entries, live>>

-----------------------------------------------------------------------------

\* kheap_init: heap_create clears the table.  The memory below it holds the
\* boot sector, whose signature byte 0x55 has the HAS_NEXT bit clear; the
\* rest of it, and the memory above, is whatever the firmware left there.
Init ==
    /\ \E memory \in [Cells \ Blocks -> Junk] :
            /\ \E c \in Cells : c < 0 /\ "NEXT" \notin memory[c]
            /\ entries = [c \in Cells |-> IF c \in Blocks THEN {} ELSE memory[c]]
    /\ live = {}

\* kmalloc and kzalloc when the scan finds a run
Malloc(size) ==
    LET n == BlocksFor(size)
        start == heap_get_start_block(entries, n)
    IN  /\ start >= 0
        /\ entries' = heap_mark_blocks_taken(entries, start, n)
        /\ live' = live \cup {[ptr |-> heap_block_to_address(start), blocks |-> n]}

\* kmalloc when the scan returns -ENOMEM: the caller gets a null pointer
MallocFails(size) ==
    /\ heap_get_start_block(entries, BlocksFor(size)) < 0
    /\ UNCHANGED vars

\* kfree of a pointer that kmalloc returned
Free(a) ==
    /\ a \in live
    /\ entries' = heap_mark_blocks_free(entries, heap_address_to_block(a.ptr))
    /\ live' = live \ {a}

\* kfree(0): process_free and process_terminate_allocations do this for the
\* unused entries of a process's allocation table
FreeNull ==
    /\ entries' = heap_mark_blocks_free(entries, heap_address_to_block(NULL))
    /\ UNCHANGED live

Next ==
    \/ \E size \in Sizes : Malloc(size)
    \/ \E size \in Sizes : MallocFails(size)
    \/ \E a \in live : Free(a)
    \/ FreeNull

Spec == Init /\ [][Next]_vars

-----------------------------------------------------------------------------

\* Type invariant of the table and of the callers' allocations.
TypeOK ==
    /\ entries \in [Cells -> SUBSET Flags]
    /\ live \subseteq Allocation

\* No two allocations that kmalloc has handed out and nobody has freed share
\* a block of memory, whatever order they were made and freed in: two live
\* pointers never alias.  This covers the blocks past the heap's end too.
Exclusive ==
    \A a, b \in live : a # b => BlocksOf(a) \cap BlocksOf(b) = {}

\* The table and the callers agree: a live allocation's bytes are the ones
\* heap_mark_blocks_taken wrote, and a block no allocation covers is free.
\* So nothing leaks inside the allocator, and kfree can find the length of
\* what it frees by following HAS_NEXT.
TableMatchesLive ==
    /\ \A a \in live : \A c \in BlocksOf(a) \cap Blocks :
            entries[c] = TakenEntry(c - heap_address_to_block(a.ptr), a.blocks)
    /\ \A c \in Blocks : (\A a \in live : c \notin BlocksOf(a)) => entries[c] = {}

\* kfree changes the bytes of the allocation it is given and no others:
\* following HAS_NEXT never runs on into a neighbour, and kfree(0), which
\* indexes the memory below the table, never reaches the table.
FreeReleasesExactly ==
    [][\A c \in Blocks :
         live' \subseteq live /\ entries'[c] # entries[c]
            => \E a \in live \ live' : c \in BlocksOf(a)]_vars

\* kmalloc hands out memory past the heap's end, as heap_get_start_block lets
\* it, only when no run of blocks in the heap would have held the request:
\* every one of them meets an allocation that some caller still holds.  So
\* no sequence of calls makes the heap look full before it is.
OverrunOnlyWhenFull ==
    [][\A a \in live' \ live :
         ~(BlocksOf(a) \subseteq Blocks) =>
            \A b \in Blocks : b + a.blocks =< Total =>
                \E held \in live : BlocksOf(held) \cap (b..(b + a.blocks - 1)) # {}]_vars

\* The runs of blocks the table itself records: each FIRST byte and what
\* HAS_NEXT chains to it.
Recorded == {Chain(entries, b) : b \in {c \in Blocks : "FIRST" \in entries[c]}}

Promise == INSTANCE Allocator WITH owned <- Recorded

\* The table implements the abstract allocator: every call of kmalloc or
\* kfree adds one run of blocks that overlaps no other, or removes one run
\* whole, or leaves every run as it is.
ImplementsAllocator == Promise!Spec

=============================================================================
