-------------------------------- MODULE Tasks --------------------------------
(***************************************************************************)
(* Tasks and processes: the task list and the switch of task.c, the        *)
(* process table of process.c, the clock and the exceptions of idt.c and   *)
(* the system calls of isr80h/process.c that start and end processes.      *)
(*                                                                         *)
(* Interrupts are enabled only while a user program runs (registers.flags  *)
(* is 0x202 and every gate clears IF), so each handler is one atomic step. *)
(* A struct task lives at an address of the heap; freeing it leaves its    *)
(* content in place until kzalloc hands the memory out again.  A struct    *)
(* process is never freed.                                                 *)
(***************************************************************************)
EXTENDS Integers, FiniteSetsExt

CONSTANTS
    MaxProcesses,   \* PEACHOS_MAX_PROCESSES
    MaxLoads,       \* bound: the processes ever created
    Addresses,      \* the heap addresses a struct task can have
    Workloads,      \* how the machine may be used: how many processes live at
                    \* a time, and those whose program never exits or faults
    Contexts        \* the number of register contexts told apart

NULL == 0

Slots == 0..(MaxProcesses - 1)
Procs == 1..MaxLoads
Regs  == 0..(Contexts - 1)

ASSUME TasksAssumption ==
    /\ MaxProcesses \in Nat /\ MaxProcesses >= 2
    /\ MaxLoads \in Nat /\ MaxLoads >= 2
    /\ Addresses \subseteq Nat \ {NULL} /\ IsFiniteSet(Addresses)
    /\ \A w \in Workloads : w.alive \in Nat /\ w.residents \subseteq Procs
    /\ Contexts \in Nat \ {0}

VARIABLES
    sched,              \* task.c: task_head, task_tail, current_task, the tasks
    allocated,          \* the addresses that hold a task nobody has freed
    processes,          \* process.c: the process table
    current_process,    \* process.c: the process that gets the keyboard
    procs,              \* the struct processes: slot and task
    loads,              \* how many struct processes exist
    panicked,           \* panic() has been called
    workload,           \* the workload of this behaviour, chosen at its start
    cpu,                \* the registers of the running user program
    seen                \* for each process, the registers it last had

vars == <<sched, allocated, processes, current_process, procs, loads,
          panicked, workload, cpu, seen>>

Task == [process : Procs \cup {NULL}, next : Addresses \cup {NULL},
         prev : Addresses \cup {NULL}, registers : Regs]

-----------------------------------------------------------------------------
(* task.c: the list, as functions of its state l                           *)

\* What kzalloc leaves in a block
Zeroed == [process |-> NULL, next |-> NULL, prev |-> NULL, registers |-> 0]

\* task_new, with the struct at address a: task_init, then append at the tail
task_new(l, p, a) ==
    LET tasks == [l.tasks EXCEPT ![a] = [Zeroed EXCEPT !.process = p]]
    IN  IF l.head = NULL
        THEN [tasks |-> tasks, head |-> a, tail |-> a, current |-> a]
        ELSE [l EXCEPT !.tasks = [tasks EXCEPT ![l.tail].next = a,
                                               ![a].prev = l.tail],
                       !.tail = a]

task_get_next(l) ==
    IF l.tasks[l.current].next = NULL THEN l.head ELSE l.tasks[l.current].next

\* Mutant: the predecessor is not linked to the successor.
NotUnlinked(l, t) == l.tasks

\* The tasks after t's predecessor is linked to its successor; the
\* successor's prev is left as it is (the TODO of the source).
Unlinked(l, t) ==
    LET before == l.tasks[t].prev
    IN  IF before = NULL THEN l.tasks
                         ELSE [l.tasks EXCEPT ![before].next = l.tasks[t].next]

task_list_remove(l, t) ==
    LET tasks    == Unlinked(l, t)
        relinked == [l EXCEPT
                        !.tasks = tasks,
                        !.head  = IF t = l.head THEN tasks[t].next ELSE l.head,
                        !.tail  = IF t = l.tail THEN tasks[t].prev ELSE l.tail]
    IN  IF t = l.current
        THEN [relinked EXCEPT !.current = task_get_next(relinked)]
        ELSE relinked

task_switch(l, t) == [l EXCEPT !.current = t]

\* Mutant: the registers of the interrupted task are not stored.
task_current_save_nothing(l) == l

\* task_current_save_state: interrupt_handler and isr80h_handler store the
\* frame in the current task before they call the handler
task_current_save_state(l) == [l EXCEPT !.tasks[l.current].registers = cpu]

\* task_return to task t of l: the CPU gets the registers stored in t
task_return(l, t) == cpu' = l.tasks[t].registers

\* Mutant: the end of the list is taken for an empty list.
NextWithoutWrap(l) == IF l.current = NULL THEN NULL ELSE l.tasks[l.current].next

\* task_get_next as task_next calls it.  Neither checks for a null
\* current_task; the model counts reading it as a panic.
NextTask(l) == IF l.current = NULL THEN NULL ELSE task_get_next(l)

task_next(l) ==
    IF NextTask(l) = NULL
    THEN /\ panicked' = TRUE
         /\ sched' = l
         /\ UNCHANGED cpu
    ELSE /\ sched' = task_switch(l, NextTask(l))
         /\ task_return(l, NextTask(l))
         /\ UNCHANGED panicked

-----------------------------------------------------------------------------
(* process.c                                                               *)

FreeSlots == {s \in Slots : processes[s] = NULL}

\* Mutant: the index after the free one.
process_get_free_slot_off_by_one == Min(FreeSlots) + 1

process_get_free_slot == Min(FreeSlots)

\* Mutant: the keyboard stays with the process that ends.
KeepForeground(table) == current_process

\* The first process of a table, which process_switch_to_any chooses
FirstProcess(table) == table[Min({s \in Slots : table[s] # NULL})]

-----------------------------------------------------------------------------

\* task_current()->process; NULL stands for no process to run
Running == IF sched.current = NULL THEN NULL ELSE sched.tasks[sched.current].process

\* kernel_main has loaded blank.elf twice and task_run_first_ever_task has
\* entered the first task; the second process has the keyboard.
Init ==
    /\ \E a, b \in Addresses :
        /\ a # b
        /\ sched = [tasks |-> [x \in Addresses |->
                                 CASE x = a -> [Zeroed EXCEPT !.process = 1, !.next = b]
                                   [] x = b -> [Zeroed EXCEPT !.process = 2, !.prev = a]
                                   [] OTHER -> Zeroed],
                    head |-> a, tail |-> b, current |-> a]
        /\ allocated = {a, b}
        /\ procs = [p \in Procs |-> CASE p = 1 -> [id |-> 0, task |-> a]
                                      [] p = 2 -> [id |-> 1, task |-> b]
                                      [] OTHER -> [id |-> 0, task |-> NULL]]
    /\ processes = [s \in Slots |-> IF s < 2 THEN s + 1 ELSE NULL]
    /\ current_process = 2
    /\ loads = 2
    /\ panicked = FALSE
    /\ workload \in Workloads
    /\ cpu = 0
    /\ seen = [p \in Procs |-> 0]

\* The user program runs and its registers change.
UserStep ==
    /\ ~panicked
    /\ Running # NULL
    /\ cpu' = (cpu + 1) % Contexts
    /\ seen' = [seen EXCEPT ![Running] = cpu']
    /\ UNCHANGED <<sched, allocated, processes, current_process, procs, loads,
                   panicked, workload>>

\* Mutant: the clock returns to the interrupted task.
ClockWithoutSwitch ==
    /\ ~panicked
    /\ sched' = task_current_save_state(sched)
    /\ UNCHANGED <<allocated, processes, current_process, procs, loads,
                   panicked, workload, cpu, seen>>

\* idt_clock: the task after the current one, which may be the current one
\* itself, gets the CPU.
Clock ==
    /\ ~panicked
    /\ task_next(task_current_save_state(sched))
    /\ UNCHANGED <<allocated, processes, current_process, procs, loads, workload, seen>>

\* Mutant: process->id is never set.
NewProcessWithoutId(a) == [id |-> 0, task |-> a]

\* The struct process with its task at address a
NewProcess(a) == [id |-> process_get_free_slot, task |-> a]

\* process_load_for_slot up to task_new: a struct process for the free slot
\* and a task at address a, as far as the workload has one
Created(a) ==
    /\ ~panicked
    /\ Running # NULL
    /\ FreeSlots # {}
    /\ Cardinality(Slots \ FreeSlots) < workload.alive
    /\ loads < MaxLoads
    /\ a \notin allocated
    /\ loads' = loads + 1
    /\ procs' = [procs EXCEPT ![loads + 1] = NewProcess(a)]
    /\ UNCHANGED <<panicked, workload, seen>>

\* process_load_switch, when everything in it succeeds
LoadSwitch(a) ==
    /\ Created(a)
    /\ allocated' = allocated \cup {a}
    /\ processes' = [processes EXCEPT ![process_get_free_slot] = loads + 1]
    /\ current_process' = loads + 1

\* isr80h_command6 and isr80h_command7: the new process replaces its parent
\* on the CPU.
Load(a) ==
    /\ LoadSwitch(a)
    /\ LET l == task_new(task_current_save_state(sched), loads + 1, a)
       IN  /\ sched' = task_switch(l, a)
           /\ task_return(l, a)

\* isr80h_command7 when process_inject_arguments fails: an error goes back to
\* the parent, but the new process is loaded and has the keyboard.
LoadArgumentsFail(a) ==
    /\ LoadSwitch(a)
    /\ sched' = task_new(task_current_save_state(sched), loads + 1, a)
    /\ UNCHANGED cpu

\* process_map_memory fails: the task is freed again, the struct process and
\* what it points to are not.
LoadMapFails(a) ==
    /\ Created(a)
    /\ sched' = task_list_remove(
                    task_new(task_current_save_state(sched), loads + 1, a), a)
    /\ UNCHANGED <<allocated, processes, current_process, cpu>>

\* The table is full (-EISTKN) or process_load_data fails: back to the
\* caller.  Any interrupt or system call that does not switch does the same.
LoadFails ==
    /\ ~panicked
    /\ Running # NULL
    /\ sched' = task_current_save_state(sched)
    /\ UNCHANGED <<allocated, processes, current_process, procs, loads,
                   panicked, workload, cpu, seen>>

\* isr80h_command9_exit and idt_handle_exception: process_terminate of the
\* running process (task_free, then process_unlink), then task_next.
Terminate ==
    /\ ~panicked
    /\ Running # NULL
    /\ Running \notin workload.residents
    /\ LET t     == procs[Running].task
           l     == task_list_remove(task_current_save_state(sched), t)
           table == [processes EXCEPT ![procs[Running].id] = NULL]
           gone  == \A s \in Slots : table[s] = NULL
           lost  == current_process = Running
       IN  /\ allocated' = allocated \ {t}
           /\ processes' = table
           /\ IF lost /\ gone
              THEN /\ panicked' = TRUE
                   /\ sched' = l
                   /\ UNCHANGED <<current_process, cpu>>
              ELSE /\ current_process' = IF lost THEN FirstProcess(table)
                                                 ELSE current_process
                   /\ task_next(l)
    /\ UNCHANGED <<procs, loads, workload, seen>>

\* kzalloc on behalf of a process hands out memory that held a freed task.
ReuseMemory(a) ==
    /\ ~panicked
    /\ a \notin allocated
    /\ sched' = [sched EXCEPT !.tasks[a] = Zeroed]
    /\ UNCHANGED <<allocated, processes, current_process, procs, loads,
                   panicked, workload, cpu, seen>>

\* panic() prints and loops for ever with interrupts off.
PanicLoop ==
    /\ panicked
    /\ UNCHANGED vars

Next ==
    \/ UserStep
    \/ Clock
    \/ \E a \in Addresses : Load(a)
    \/ \E a \in Addresses : LoadArgumentsFail(a)
    \/ \E a \in Addresses : LoadMapFails(a)
    \/ LoadFails
    \/ Terminate
    \/ \E a \in Addresses : ReuseMemory(a)
    \/ PanicLoop

\* The timer is periodic and every user program runs with interrupts on.
Spec == Init /\ [][Next]_vars /\ WF_vars(Clock)

-----------------------------------------------------------------------------

\* Type invariant of the scheduler and of the process table.
TypeOK ==
    /\ sched \in [tasks : [Addresses -> Task], head : Addresses \cup {NULL},
                  tail : Addresses \cup {NULL}, current : Addresses \cup {NULL}]
    /\ allocated \subseteq Addresses
    /\ processes \in [Slots -> Procs \cup {NULL}]
    /\ current_process \in Procs
    /\ procs \in [Procs -> [id : Slots, task : Addresses \cup {NULL}]]
    /\ loads \in 2..MaxLoads
    /\ panicked \in BOOLEAN
    /\ workload \in Workloads
    /\ cpu \in Regs
    /\ seen \in [Procs -> Regs]

\* The tasks that following next from the head visits in at most n steps
VisitedIn(n) ==
    LET visited[i \in 0..n] ==
            IF i = 0
            THEN {sched.head}
            ELSE visited[i - 1] \cup {sched.tasks[t].next : t \in visited[i - 1] \ {NULL}}
    IN  visited[n] \ {NULL}

\* The list that task_get_next walks holds every task that has not been
\* freed and no task that has: removing tasks in any order loses none and
\* leaves no pointer to freed memory on the walk.
ListIsTheLiveTasks ==
    ~panicked => VisitedIn(Cardinality(Addresses)) = allocated

\* The CPU never executes a task that has been freed, the task it executes
\* belongs to a process of the table, and so does the keyboard: whichever
\* process ends, running or not, neither is left with it.
CurrentIsLive ==
    ~panicked => /\ sched.current \in allocated
                 /\ Running # NULL
                 /\ processes[procs[Running].id] = Running
                 /\ \E s \in Slots : processes[s] = current_process

\* Process table, struct processes and tasks name each other: one task per
\* process, and a slot is free exactly if no live task runs for it.
TableConsistent ==
    /\ \A s \in Slots : processes[s] # NULL =>
            LET p == processes[s]
            IN  /\ procs[p].id = s
                /\ procs[p].task \in allocated
                /\ sched.tasks[procs[p].task].process = p
    /\ \A t \in allocated : \E s \in Slots : processes[s] = sched.tasks[t].process

\* A process always continues with the registers it had when it was last
\* interrupted, whatever ran in between.
ContextIntact ==
    ~panicked => cpu = seen[Running]

\* The kernel panics only when the last process is gone.
PanicOnlyWhenEmpty ==
    panicked => \A s \in Slots : processes[s] = NULL

\* Every process of the table gets the CPU again and again until it ends.
EveryProcessRuns ==
    \A p \in Procs :
        (\E s \in Slots : processes[s] = p) ~> (Running = p \/ \A s \in Slots : processes[s] # p)

\* What task.h says of struct task ("The next task in the linked list"):
\* a task's next is a task of the list, or null at its end.
NextIsInTheList ==
    \A t \in allocated : sched.tasks[t].next \in allocated \cup {NULL}
=============================================================================
