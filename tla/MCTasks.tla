------------------------------ MODULE MCTasks ------------------------------
(***************************************************************************)
(* Workloads for Tasks.tla.                                                *)
(***************************************************************************)
EXTENDS Tasks

\* Two processes at a time that come and go in any order; and the two
\* programs of kernel_main, which stay, with a third that comes and goes
MCWorkloads ==
    {[alive |-> 2, residents |-> {}], [alive |-> 3, residents |-> {1, 2}]}

\* Three processes that come and go in any order
MCThree == {[alive |-> 3, residents |-> {}]}
=============================================================================
