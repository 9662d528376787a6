------------------------------ MODULE KeyQueue ------------------------------
(***************************************************************************)
(* What a program expects of getkey: the characters typed while it has the *)
(* keyboard arrive once each and in order, and getkey answers 0 only when  *)
(* none is waiting.  Only Capacity characters can wait: after one more the *)
(* process has lost the keyboard's order for good.  Keyboard.tla is shown  *)
(* to implement this.                                                      *)
(***************************************************************************)
EXTENDS Sequences, Integers

CONSTANTS Procs, Chars, Capacity

VARIABLES
    queue,      \* for each process, the characters typed and not yet read
    focus,      \* the process that has the keyboard
    got,        \* the answer of the last getkey: the process and the character
    overrun     \* the processes for which more was typed than can wait

Init ==
    /\ queue = [p \in Procs |-> <<>>]
    /\ focus \in Procs
    /\ got \in [process : Procs, char : {0}]
    /\ overrun = {}

Type(c) ==
    /\ focus \notin overrun
    /\ Len(queue[focus]) < Capacity
    /\ queue' = [queue EXCEPT ![focus] = Append(@, c)]
    /\ UNCHANGED <<focus, got, overrun>>

\* A character that cannot wait
TypeOver ==
    /\ focus \in overrun \/ Len(queue[focus]) = Capacity
    /\ overrun' = overrun \cup {focus}
    /\ queue' = [queue EXCEPT ![focus] = <<>>]
    /\ UNCHANGED <<focus, got>>

Take(p) ==
    /\ queue[p] # <<>>
    /\ got' = [process |-> p, char |-> Head(queue[p])]
    /\ queue' = [queue EXCEPT ![p] = Tail(@)]
    /\ UNCHANGED <<focus, overrun>>

TakeNothing(p) ==
    /\ p \notin overrun
    /\ queue[p] = <<>>
    /\ got' = [process |-> p, char |-> 0]
    /\ UNCHANGED <<queue, focus, overrun>>

\* After a loss a process may get anything.
TakeAny(p) ==
    /\ p \in overrun
    /\ got' \in [process : {p}, char : Chars \cup {0}]
    /\ UNCHANGED <<queue, focus, overrun>>

\* A new process starts with the keyboard and nothing typed.
Start(p) ==
    /\ queue' = [queue EXCEPT ![p] = <<>>]
    /\ focus' = p
    /\ overrun' = overrun \ {p}
    /\ UNCHANGED got

GiveKeyboard(p) ==
    /\ focus' = p
    /\ UNCHANGED <<queue, got, overrun>>

Next ==
    \/ \E c \in Chars : Type(c)
    \/ TypeOver
    \/ \E p \in Procs :
        Take(p) \/ TakeNothing(p) \/ TakeAny(p) \/ Start(p) \/ GiveKeyboard(p)

Spec == Init /\ [][Next]_<<queue, focus, got, overrun>>
=============================================================================
