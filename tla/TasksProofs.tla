----------------------------- MODULE TasksProofs -----------------------------
(***************************************************************************)
(* Proofs about Tasks.tla, for every number of slots, processes, addresses *)
(* and register contexts.  The list code is right only for the workloads   *)
(* FewTasks describes: task_list_remove leaves stale prev pointers behind, *)
(* and with three processes that end in any order they reach the list (the *)
(* run tasks_three).                                                       *)
(***************************************************************************)
EXTENDS Tasks, FiniteSetTheorems, LoopTheorems

\* At most two processes at a time; or three, of which the two programs that
\* kernel_main loads never end.
FewTasks ==
    \A w \in Workloads : w.alive =< 2 \/ (w.alive =< 3 /\ {1, 2} \subseteq w.residents)

List == [tasks : [Addresses -> Task], head : Addresses \cup {NULL},
         tail : Addresses \cup {NULL}, current : Addresses \cup {NULL}]

-----------------------------------------------------------------------------
(* The inductive invariant                                                 *)

\* A list of one task.  Its next may be itself: removing a head whose stale
\* prev is the address of the task behind it makes that task its own next.
One(l, h) ==
    /\ l.head = h /\ l.tail = h /\ l.current = h
    /\ l.tasks[h].next \in {NULL, h}

\* A list of two tasks.  Nothing is known of the head's prev.
Two(l, h, t) ==
    /\ h # t
    /\ l.head = h /\ l.tail = t /\ l.current \in {h, t}
    /\ l.tasks[h].next = t /\ l.tasks[t].next = NULL
    /\ l.tasks[t].prev = h

\* A list of three tasks, of which only the last will be removed.
Three(l, h, t, z) ==
    /\ h # t /\ t # z /\ h # z
    /\ l.head = h /\ l.tail = z /\ l.current \in {h, t, z}
    /\ l.tasks[h].next = t /\ l.tasks[t].next = z /\ l.tasks[z].next = NULL
    /\ l.tasks[t].prev = h /\ l.tasks[z].prev = t

\* The tasks h and t run programs that never end.
Settled(l, h, t) ==
    {l.tasks[h].process, l.tasks[t].process} \subseteq workload.residents

\* The shape of the list of the tasks A.
Shape(l, A) ==
    \/ \E h \in Addresses : A = {h} /\ One(l, h) /\ workload.alive =< 2
    \/ \E h, t \in Addresses : /\ A = {h, t} /\ Two(l, h, t)
                               /\ workload.alive =< 2 \/ Settled(l, h, t)
    \/ \E h, t, z \in Addresses : A = {h, t, z} /\ Three(l, h, t, z) /\ Settled(l, h, t)

\* The tasks A, the table tab and the first n struct processes ps name each
\* other.
Tied(tasks, A, tab, ps, n) ==
    /\ \A s \in Slots : tab[s] # NULL =>
            /\ tab[s] \in 1..n
            /\ ps[tab[s]].id = s
            /\ ps[tab[s]].task \in A
            /\ tasks[ps[tab[s]].task].process = tab[s]
    /\ \A t \in A :
            /\ tasks[t].process \in 1..n
            /\ ps[tasks[t].process].task = t
            /\ tab[ps[tasks[t].process].id] = tasks[t].process

\* Each task of A holds the registers its process last had.
Stored(tasks, A, last) == \A t \in A : tasks[t].registers = last[tasks[t].process]

\* Struct processes that do not exist yet have had no registers.
Unborn(n, last) == \A p \in Procs : p > n => last[p] = 0

IInv ==
    /\ TypeOK
    /\ Tied(sched.tasks, allocated, processes, procs, loads)
    /\ Unborn(loads, seen)
    /\ PanicOnlyWhenEmpty
    /\ ~panicked => /\ Shape(sched, allocated)
                    /\ Stored(sched.tasks, allocated \ {sched.current}, seen)
                    /\ cpu = seen[Running]
                    /\ \E s \in Slots : processes[s] = current_process

-----------------------------------------------------------------------------
(* What the operations of task.c do to a list                              *)

LEMMA ListFields ==
    ASSUME NEW l \in List, NEW x \in Addresses
    PROVE  /\ l.tasks \in [Addresses -> Task] /\ l.tasks[x] \in Task
           /\ l.tasks[x].process \in Procs \cup {NULL}
           /\ l.tasks[x].next \in Addresses \cup {NULL}
           /\ l.tasks[x].prev \in Addresses \cup {NULL}
           /\ l.tasks[x].registers \in Regs
  BY DEF List, Task

LEMMA NotNull == NULL \notin Addresses
  BY TasksAssumption

\* task_current_save_state changes the registers of the current task.
LEMMA SaveFacts ==
    ASSUME NEW l \in List, l.current \in Addresses, cpu \in Regs,
           NEW m, m = task_current_save_state(l)
    PROVE  /\ m \in List
           /\ m.head = l.head /\ m.tail = l.tail /\ m.current = l.current
           /\ \A x \in Addresses : /\ m.tasks[x].process = l.tasks[x].process
                                   /\ m.tasks[x].next = l.tasks[x].next
                                   /\ m.tasks[x].prev = l.tasks[x].prev
           /\ m.tasks[l.current].registers = cpu
           /\ \A x \in Addresses \ {l.current} : m.tasks[x] = l.tasks[x]
  <1> DEFINE c == l.current
             k == [l.tasks[c] EXCEPT !.registers = cpu]
             ts == [l.tasks EXCEPT ![c] = k]
  <1>1. m = [l EXCEPT !.tasks = ts]
    BY DEF task_current_save_state
  <1>2. l.tasks \in [Addresses -> Task] /\ l.tasks[c] \in Task
    BY DEF List
  <1>3. /\ k \in Task /\ k.registers = cpu
        /\ k.process = l.tasks[c].process /\ k.next = l.tasks[c].next /\ k.prev = l.tasks[c].prev
    BY <1>2 DEF Task
  <1> HIDE DEF k
  <1>4. ts \in [Addresses -> Task] /\ ts[c] = k /\ \A x \in Addresses \ {c} : ts[x] = l.tasks[x]
    BY <1>2, <1>3
  <1> HIDE DEF ts
  <1>5. /\ m \in List /\ m.tasks = ts
        /\ m.head = l.head /\ m.tail = l.tail /\ m.current = l.current
    BY <1>1, <1>4 DEF List
  <1> QED
    BY <1>3, <1>4, <1>5

\* task_new appends a task at the tail of a list that is not empty.
LEMMA AppendFacts ==
    ASSUME NEW l \in List, l.head # NULL, l.tail \in Addresses,
           NEW a \in Addresses, a # l.tail, NEW p \in Procs,
           NEW m, m = task_new(l, p, a)
    PROVE  /\ m \in List
           /\ m.head = l.head /\ m.tail = a /\ m.current = l.current
           /\ m.tasks[a] = [process |-> p, next |-> NULL, prev |-> l.tail, registers |-> 0]
           /\ m.tasks[l.tail].next = a
           /\ m.tasks[l.tail].process = l.tasks[l.tail].process
           /\ m.tasks[l.tail].prev = l.tasks[l.tail].prev
           /\ m.tasks[l.tail].registers = l.tasks[l.tail].registers
           /\ \A x \in Addresses \ {a, l.tail} : m.tasks[x] = l.tasks[x]
  <1> DEFINE b == l.tail
             new == [process |-> p, next |-> NULL, prev |-> NULL, registers |-> 0]
             T0 == [l.tasks EXCEPT ![a] = new]
             last == [l.tasks[b] EXCEPT !.next = a]
             linked == [new EXCEPT !.prev = b]
             T1 == [T0 EXCEPT ![b] = last]
             T2 == [T1 EXCEPT ![a] = linked]
  <1>0. l.tasks \in [Addresses -> Task] /\ l.tasks[b] \in Task /\ 0 \in Regs
    BY TasksAssumption DEF List, Regs
  <1>1. new \in Task /\ [Zeroed EXCEPT !.process = p] = new
    BY <1>0 DEF Task, Zeroed
  <1>2. linked = [process |-> p, next |-> NULL, prev |-> b, registers |-> 0]
    OBVIOUS
  <1>3. linked \in Task
    BY <1>0, <1>2 DEF Task
  <1>4. /\ last \in Task /\ last.next = a /\ last.process = l.tasks[b].process
        /\ last.prev = l.tasks[b].prev /\ last.registers = l.tasks[b].registers
    BY <1>0 DEF Task
  <1> HIDE DEF new, linked
  <1>5. T0 \in [Addresses -> Task] /\ T0[b] = l.tasks[b] /\ T0[a] = new
    BY <1>0, <1>1
  <1>6. m = [l EXCEPT !.tasks = T2, !.tail = a]
    <2>1. m = [l EXCEPT !.tasks = [T0 EXCEPT ![b].next = a, ![a].prev = b], !.tail = a]
      BY <1>1 DEF task_new
    <2>2. [T0 EXCEPT ![b].next = a] = T1
      BY <1>5
    <2>3. [T1 EXCEPT ![a].prev = b] = T2
      BY <1>5 DEF linked
    <2> QED
      BY <2>1, <2>2, <2>3
  <1> HIDE DEF last
  <1>7. /\ T2 \in [Addresses -> Task] /\ T2[a] = linked /\ T2[b] = last
        /\ \A x \in Addresses \ {a, b} : T2[x] = l.tasks[x]
    BY <1>0, <1>3, <1>4, <1>5
  <1> HIDE DEF T2
  <1>8. m \in List /\ m.tasks = T2 /\ m.head = l.head /\ m.tail = a /\ m.current = l.current
    BY <1>6, <1>7 DEF List
  <1> QED
    BY <1>2, <1>4, <1>7, <1>8

\* task_list_remove links the predecessor to the successor and moves head,
\* tail and current off the task; no other field changes.
LEMMA RemoveFacts ==
    ASSUME NEW l \in List, NEW t \in Addresses, l.current \in Addresses,
           NEW m, m = task_list_remove(l, t)
    PROVE  /\ m \in List
           /\ \A x \in Addresses : /\ m.tasks[x].process = l.tasks[x].process
                                   /\ m.tasks[x].prev = l.tasks[x].prev
                                   /\ m.tasks[x].registers = l.tasks[x].registers
                                   /\ m.tasks[x].next = IF x = l.tasks[t].prev
                                                        THEN l.tasks[t].next
                                                        ELSE l.tasks[x].next
           /\ m.head = IF t = l.head THEN m.tasks[t].next ELSE l.head
           /\ m.tail = IF t = l.tail THEN m.tasks[t].prev ELSE l.tail
           /\ m.current = IF t = l.current
                          THEN IF m.tasks[t].next = NULL THEN m.head ELSE m.tasks[t].next
                          ELSE l.current
  <1> DEFINE b == l.tasks[t].prev
             nx == l.tasks[t].next
             ts == Unlinked(l, t)
             hd == IF t = l.head THEN ts[t].next ELSE l.head
             tl == IF t = l.tail THEN ts[t].prev ELSE l.tail
             r == [l EXCEPT !.tasks = ts, !.head = hd, !.tail = tl]
  <1>0. /\ l.tasks \in [Addresses -> Task]
        /\ b \in Addresses \cup {NULL} /\ nx \in Addresses \cup {NULL}
    BY ListFields
  <1>1. /\ ts \in [Addresses -> Task]
        /\ \A x \in Addresses : /\ ts[x].process = l.tasks[x].process
                                /\ ts[x].prev = l.tasks[x].prev
                                /\ ts[x].registers = l.tasks[x].registers
                                /\ ts[x].next = IF x = b THEN nx ELSE l.tasks[x].next
    <2>1. CASE b = NULL
      BY <1>0, <2>1, NotNull DEF Unlinked
    <2>2. CASE b \in Addresses
      <3> DEFINE k == [l.tasks[b] EXCEPT !.next = nx]
      <3>1. ts = [l.tasks EXCEPT ![b] = k]
        BY <2>2, NotNull DEF Unlinked
      <3>2. /\ k \in Task /\ k.next = nx /\ k.process = l.tasks[b].process
            /\ k.prev = l.tasks[b].prev /\ k.registers = l.tasks[b].registers
        BY <1>0, <2>2 DEF Task
      <3> HIDE DEF k
      <3>3. ts \in [Addresses -> Task] /\ ts[b] = k /\ \A x \in Addresses \ {b} : ts[x] = l.tasks[x]
        BY <1>0, <2>2, <3>1, <3>2
      <3> QED
        BY <3>2, <3>3
    <2> QED
      BY <1>0, <2>1, <2>2
  <1> HIDE DEF ts
  <1>2. ts[t].next \in Addresses \cup {NULL} /\ ts[t].prev \in Addresses \cup {NULL}
    BY <1>1 DEF Task
  <1>3. hd \in Addresses \cup {NULL} /\ tl \in Addresses \cup {NULL}
    BY <1>2 DEF List
  <1> HIDE DEF hd, tl
  <1>4. /\ r \in List /\ r.tasks = ts /\ r.head = hd /\ r.tail = tl /\ r.current = l.current
    BY <1>1, <1>3 DEF List
  <1>5. m = IF t = l.current THEN [r EXCEPT !.current = task_get_next(r)] ELSE r
    BY DEF task_list_remove, hd, tl, ts
  <1> HIDE DEF r
  <1>6. t = l.current => /\ task_get_next(r) = IF ts[t].next = NULL THEN hd ELSE ts[t].next
                         /\ task_get_next(r) \in Addresses \cup {NULL}
    BY <1>2, <1>3, <1>4 DEF task_get_next
  <1>7. /\ m \in List /\ m.tasks = ts /\ m.head = hd /\ m.tail = tl
        /\ m.current = IF t = l.current
                       THEN IF ts[t].next = NULL THEN hd ELSE ts[t].next
                       ELSE l.current
    <2> HIDE DEF task_get_next
    <2>1. CASE t = l.current
      BY <1>4, <1>5, <1>6, <2>1 DEF List
    <2>2. CASE t # l.current
      BY <1>4, <1>5, <2>2
    <2> QED
      BY <2>1, <2>2
  <1> QED
    BY <1>1, <1>7 DEF hd, tl

-----------------------------------------------------------------------------
(* The shape of the list                                                   *)

\* What every shape has in common.
LEMMA ShapeFacts ==
    ASSUME NEW l, NEW A, Shape(l, A)
    PROVE  /\ l.head \in A /\ l.tail \in A /\ l.current \in A
           /\ A \subseteq Addresses
           /\ l.head # NULL
           /\ \A x \in A : l.tasks[x].next \in A \cup {NULL}
           /\ NextTask(l) \in A
  BY NotNull DEF Shape, One, Two, Three, NextTask, task_get_next

\* The shape does not depend on registers.
LEMMA ShapeSame ==
    ASSUME NEW l, NEW m, NEW A, Shape(l, A),
           m.head = l.head, m.tail = l.tail, m.current = l.current,
           \A x \in A : /\ m.tasks[x].process = l.tasks[x].process
                        /\ m.tasks[x].next = l.tasks[x].next
                        /\ m.tasks[x].prev = l.tasks[x].prev
    PROVE  Shape(m, A)
  <1>1. ASSUME NEW h \in Addresses, A = {h}, One(l, h), workload.alive =< 2
        PROVE  Shape(m, A)
    <2>1. One(m, h)
      BY <1>1 DEF One
    <2> QED
      BY <1>1, <2>1 DEF Shape
  <1>2. ASSUME NEW h \in Addresses, NEW t \in Addresses, A = {h, t}, Two(l, h, t),
               workload.alive =< 2 \/ Settled(l, h, t)
        PROVE  Shape(m, A)
    <2>1. Two(m, h, t)
      BY <1>2 DEF Two
    <2>2. workload.alive =< 2 \/ Settled(m, h, t)
      BY <1>2 DEF Settled
    <2> QED
      BY <1>2, <2>1, <2>2 DEF Shape
  <1>3. ASSUME NEW h \in Addresses, NEW t \in Addresses, NEW z \in Addresses,
               A = {h, t, z}, Three(l, h, t, z), Settled(l, h, t)
        PROVE  Shape(m, A)
    <2>1. Three(m, h, t, z)
      BY <1>3 DEF Three
    <2>2. Settled(m, h, t)
      BY <1>3 DEF Settled
    <2> QED
      BY <1>3, <2>1, <2>2 DEF Shape
  <1> QED
    BY <1>1, <1>2, <1>3 DEF Shape

\* task_switch to a task of the list keeps the shape.
LEMMA ShapeSwitch ==
    ASSUME NEW l \in List, NEW A, Shape(l, A), NEW t \in A, NEW m, m = task_switch(l, t)
    PROVE  /\ Shape(m, A) /\ m \in List
           /\ m.tasks = l.tasks /\ m.current = t
  <1>0. t \in Addresses
    BY ShapeFacts
  <1>1. /\ m \in List /\ m.tasks = l.tasks /\ m.current = t
        /\ m.head = l.head /\ m.tail = l.tail
    BY <1>0 DEF task_switch, List
  <1>2. ASSUME NEW h \in Addresses, A = {h}, One(l, h), workload.alive =< 2
        PROVE  Shape(m, A)
    BY <1>1, <1>2 DEF Shape, One
  <1>3. ASSUME NEW h \in Addresses, NEW u \in Addresses, A = {h, u}, Two(l, h, u),
               workload.alive =< 2 \/ Settled(l, h, u)
        PROVE  Shape(m, A)
    <2>1. Two(m, h, u)
      BY <1>1, <1>3 DEF Two
    <2>2. workload.alive =< 2 \/ Settled(m, h, u)
      BY <1>1, <1>3 DEF Settled
    <2> QED
      BY <1>3, <2>1, <2>2 DEF Shape
  <1>4. ASSUME NEW h \in Addresses, NEW u \in Addresses, NEW z \in Addresses,
               A = {h, u, z}, Three(l, h, u, z), Settled(l, h, u)
        PROVE  Shape(m, A)
    <2>1. Three(m, h, u, z)
      BY <1>1, <1>4 DEF Three
    <2>2. Settled(m, h, u)
      BY <1>1, <1>4 DEF Settled
    <2> QED
      BY <1>4, <2>1, <2>2 DEF Shape
  <1> QED
    BY <1>1, <1>2, <1>3, <1>4 DEF Shape

\* A list that may grow: one task, or two that never end.
Growing(l, A) ==
    \/ \E h \in Addresses : A = {h} /\ One(l, h) /\ workload.alive =< 2
    \/ \E h, t \in Addresses : A = {h, t} /\ Two(l, h, t) /\ Settled(l, h, t)

\* Appending a task extends the shape.
LEMMA ShapeAppend ==
    ASSUME NEW l \in List, NEW A, Growing(l, A), NEW a \in Addresses, a \notin A,
           NEW p \in Procs, NEW m, m = task_new(l, p, a)
    PROVE  Shape(m, A \cup {a})
  <1>1. ASSUME NEW h \in Addresses, A = {h}, One(l, h), workload.alive =< 2
        PROVE  Shape(m, A \cup {a})
    <2>1. l.head # NULL /\ l.tail = h /\ a # h
      BY <1>1, NotNull DEF One
    <2>2. /\ m.head = l.head /\ m.tail = a /\ m.current = l.current
          /\ m.tasks[a] = [process |-> p, next |-> NULL, prev |-> h, registers |-> 0]
          /\ m.tasks[h].next = a
      BY <2>1, AppendFacts
    <2>3. Two(m, h, a)
      BY <1>1, <2>1, <2>2 DEF One, Two
    <2>4. A \cup {a} = {h, a}
      BY <1>1
    <2> QED
      BY <1>1, <2>3, <2>4 DEF Shape
  <1>2. ASSUME NEW h \in Addresses, NEW t \in Addresses, A = {h, t}, Two(l, h, t), Settled(l, h, t)
        PROVE  Shape(m, A \cup {a})
    <2>1. l.head # NULL /\ l.tail = t /\ a # t /\ a # h /\ h # t
      BY <1>2, NotNull DEF Two
    <2>2. /\ m.head = l.head /\ m.tail = a /\ m.current = l.current
          /\ m.tasks[a] = [process |-> p, next |-> NULL, prev |-> t, registers |-> 0]
          /\ m.tasks[t].next = a /\ m.tasks[t].prev = l.tasks[t].prev
          /\ m.tasks[t].process = l.tasks[t].process
          /\ \A x \in Addresses \ {a, t} : m.tasks[x] = l.tasks[x]
      BY <2>1, AppendFacts
    <2>3. m.tasks[h] = l.tasks[h]
      BY <2>1, <2>2
    <2>4. Three(m, h, t, a)
      BY <1>2, <2>1, <2>2, <2>3 DEF Two, Three
    <2>5. Settled(m, h, t)
      BY <1>2, <2>2, <2>3 DEF Settled
    <2>6. A \cup {a} = {h, t, a}
      BY <1>2
    <2> QED
      BY <2>4, <2>5, <2>6 DEF Shape
  <1> QED
    BY <1>1, <1>2 DEF Growing

\* Appending a task and removing it again restores the shape.
LEMMA ShapeUndo ==
    ASSUME NEW l \in List, NEW A, Growing(l, A), NEW a \in Addresses, a \notin A,
           NEW p \in Procs, NEW k, k = task_new(l, p, a),
           NEW m, m = task_list_remove(k, a)
    PROVE  /\ Shape(m, A) /\ m \in List /\ m.current = l.current
           /\ \A x \in A : /\ m.tasks[x].process = l.tasks[x].process
                           /\ m.tasks[x].registers = l.tasks[x].registers
  <1>0. /\ l.head # NULL /\ l.tail \in A /\ l.head \in A /\ l.current \in A
        /\ A \subseteq Addresses
    BY NotNull DEF Growing, One, Two
  <1>1. /\ k \in List /\ k.head = l.head /\ k.tail = a /\ k.current = l.current
        /\ k.tasks[a] = [process |-> p, next |-> NULL, prev |-> l.tail, registers |-> 0]
        /\ k.tasks[l.tail].next = a
        /\ k.tasks[l.tail].process = l.tasks[l.tail].process
        /\ k.tasks[l.tail].prev = l.tasks[l.tail].prev
        /\ k.tasks[l.tail].registers = l.tasks[l.tail].registers
        /\ \A x \in Addresses \ {a, l.tail} : k.tasks[x] = l.tasks[x]
    BY <1>0, AppendFacts
  <1>2. k.tasks[a].next = NULL /\ k.tasks[a].prev = l.tail
    BY <1>1
  <1>3. k.current \in Addresses
    BY <1>0, <1>1
  <1>4. /\ m \in List
        /\ \A x \in Addresses : /\ m.tasks[x].process = k.tasks[x].process
                                /\ m.tasks[x].prev = k.tasks[x].prev
                                /\ m.tasks[x].registers = k.tasks[x].registers
                                /\ m.tasks[x].next = IF x = k.tasks[a].prev
                                                     THEN k.tasks[a].next
                                                     ELSE k.tasks[x].next
        /\ m.head = IF a = k.head THEN m.tasks[a].next ELSE k.head
        /\ m.tail = IF a = k.tail THEN m.tasks[a].prev ELSE k.tail
        /\ m.current = IF a = k.current
                       THEN IF m.tasks[a].next = NULL THEN m.head ELSE m.tasks[a].next
                       ELSE k.current
    BY <1>1, <1>3, RemoveFacts
  <1>5. m.head = l.head /\ m.tail = l.tail /\ m.current = l.current
    BY <1>0, <1>1, <1>2, <1>4
  <1>6. \A x \in A : /\ m.tasks[x].process = l.tasks[x].process
                     /\ m.tasks[x].registers = l.tasks[x].registers
                     /\ m.tasks[x].prev = l.tasks[x].prev
                     /\ m.tasks[x].next = IF x = l.tail THEN NULL ELSE l.tasks[x].next
    BY <1>0, <1>1, <1>2, <1>4
  <1>7. ASSUME NEW h \in Addresses, A = {h}, One(l, h), workload.alive =< 2
        PROVE  Shape(m, A)
    BY <1>5, <1>6, <1>7 DEF Shape, One
  <1>8. ASSUME NEW h \in Addresses, NEW t \in Addresses, A = {h, t}, Two(l, h, t), Settled(l, h, t)
        PROVE  Shape(m, A)
    <2>1. Two(m, h, t)
      BY <1>5, <1>6, <1>8 DEF Two
    <2>2. Settled(m, h, t)
      BY <1>6, <1>8 DEF Settled
    <2> QED
      BY <1>8, <2>1, <2>2 DEF Shape
  <1> QED
    BY <1>4, <1>5, <1>6, <1>7, <1>8 DEF Growing

\* Removing the current task, not one that never ends, leaves the shape of
\* the others, whatever stale prev pointers there are.
LEMMA ShapeRemove ==
    ASSUME NEW l \in List, NEW A, Shape(l, A), NEW t \in A, l.current = t, A # {t},
           l.tasks[t].process \notin workload.residents,
           NEW m, m = task_list_remove(l, t)
    PROVE  Shape(m, A \ {t})
  <1>0. t \in Addresses /\ l.current \in Addresses
    BY ShapeFacts
  <1>1. /\ \A x \in Addresses : /\ m.tasks[x].process = l.tasks[x].process
                                /\ m.tasks[x].prev = l.tasks[x].prev
                                /\ m.tasks[x].next = IF x = l.tasks[t].prev
                                                     THEN l.tasks[t].next
                                                     ELSE l.tasks[x].next
        /\ m.head = IF t = l.head THEN m.tasks[t].next ELSE l.head
        /\ m.tail = IF t = l.tail THEN m.tasks[t].prev ELSE l.tail
        /\ m.current = IF m.tasks[t].next = NULL THEN m.head ELSE m.tasks[t].next
    BY <1>0, RemoveFacts
  <1>2. ASSUME NEW h \in Addresses, NEW u \in Addresses, A = {h, u}, Two(l, h, u),
               workload.alive =< 2 \/ Settled(l, h, u)
        PROVE  Shape(m, A \ {t})
    <2>0. workload.alive =< 2 /\ h # u
      BY <1>2 DEF Settled, Two
    <2>1. CASE t = h
      <3>1. m.tasks[t].next = u
        BY <1>0, <1>1, <1>2, <2>1 DEF Two
      <3>2. m.head = u /\ m.tail = u /\ m.current = u
        BY <1>1, <1>2, <2>0, <2>1, <3>1, NotNull DEF Two
      <3>3. m.tasks[u].next \in {NULL, u}
        BY <1>1, <1>2, <2>1 DEF Two
      <3>4. One(m, u) /\ A \ {t} = {u}
        BY <1>2, <2>0, <2>1, <3>2, <3>3 DEF One
      <3> QED
        BY <2>0, <3>4 DEF Shape
    <2>2. CASE t = u
      <3>1. m.tasks[t].next = NULL /\ m.tasks[h].next = NULL /\ m.tasks[t].prev = h
        BY <1>0, <1>1, <1>2, <2>2 DEF Two
      <3>2. m.head = h /\ m.tail = h /\ m.current = h
        BY <1>1, <1>2, <2>0, <2>2, <3>1 DEF Two
      <3>3. One(m, h) /\ A \ {t} = {h}
        BY <1>2, <2>0, <2>2, <3>1, <3>2 DEF One
      <3> QED
        BY <2>0, <3>3 DEF Shape
    <2> QED
      BY <1>2, <2>1, <2>2
  <1>3. ASSUME NEW h \in Addresses, NEW u \in Addresses, NEW z \in Addresses,
               A = {h, u, z}, Three(l, h, u, z), Settled(l, h, u)
        PROVE  Shape(m, A \ {t})
    <2>0. t = z /\ h # z /\ u # z /\ h # u
      BY <1>3 DEF Settled, Three
    <2>1. m.tasks[t].next = NULL /\ m.tasks[t].prev = u /\ m.tasks[u].next = NULL
      BY <1>0, <1>1, <1>3, <2>0 DEF Three
    <2>2. m.tasks[h].next = u /\ m.tasks[u].prev = l.tasks[u].prev
      BY <1>1, <1>3, <2>0 DEF Three
    <2>3. m.head = h /\ m.tail = u /\ m.current = h
      BY <1>1, <1>3, <2>0, <2>1 DEF Three
    <2>4. Two(m, h, u)
      BY <1>3, <2>0, <2>1, <2>2, <2>3 DEF Two, Three
    <2>5. Settled(m, h, u)
      BY <1>1, <1>3 DEF Settled
    <2>6. A \ {t} = {h, u}
      BY <1>3, <2>0
    <2> QED
      BY <2>4, <2>5, <2>6 DEF Shape
  <1> QED
    BY <1>2, <1>3 DEF Shape, One

-----------------------------------------------------------------------------
(* The process table                                                       *)

Table == [Slots -> Procs \cup {NULL}]
Structs == [Procs -> [id : Slots, task : Addresses \cup {NULL}]]

LEMMA TiedSame ==
    ASSUME NEW tasks, NEW k, NEW A, NEW tab, NEW ps, NEW n, Tied(tasks, A, tab, ps, n),
           \A x \in A : k[x].process = tasks[x].process
    PROVE  Tied(k, A, tab, ps, n)
  BY DEF Tied

\* A new process in a free slot.
LEMMA TiedAdd ==
    ASSUME NEW tasks, NEW k, NEW A, NEW tab \in Table, NEW ps \in Structs, NEW n \in Nat,
           Tied(tasks, A, tab, ps, n), n + 1 \in Procs,
           NEW s \in Slots, tab[s] = NULL, NEW a \in Addresses, a \notin A,
           \A x \in A : k[x].process = tasks[x].process,
           k[a].process = n + 1
    PROVE  Tied(k, A \cup {a}, [tab EXCEPT ![s] = n + 1],
                [ps EXCEPT ![n + 1] = [id |-> s, task |-> a]], n + 1)
  <1> DEFINE tb == [tab EXCEPT ![s] = n + 1]
             new == [id |-> s, task |-> a]
             q == [ps EXCEPT ![n + 1] = new]
  <1>1. tb[s] = n + 1 /\ \A u \in Slots \ {s} : tb[u] = tab[u]
    BY DEF Table
  <1>2. q[n + 1] = new /\ \A p \in Procs \ {n + 1} : q[p] = ps[p]
    BY DEF Structs
  <1>3. new.id = s /\ new.task = a
    OBVIOUS
  <1>4. 1..n \subseteq Procs \ {n + 1} /\ n + 1 # NULL /\ n + 1 \in 1..(n + 1)
    BY TasksAssumption DEF Procs, NULL
  <1> HIDE DEF tb, new, q
  <1>5. ASSUME NEW u \in Slots, tb[u] # NULL
        PROVE  /\ tb[u] \in 1..(n + 1) /\ q[tb[u]].id = u
               /\ q[tb[u]].task \in A \cup {a} /\ k[q[tb[u]].task].process = tb[u]
    <2>1. CASE u = s
      BY <1>1, <1>2, <1>3, <1>4, <2>1
    <2>2. CASE u # s
      <3>1. /\ tab[u] \in 1..n /\ ps[tab[u]].id = u
            /\ ps[tab[u]].task \in A /\ tasks[ps[tab[u]].task].process = tab[u]
        BY <1>1, <1>5, <2>2 DEF Tied
      <3>2. q[tab[u]] = ps[tab[u]]
        BY <1>2, <1>4, <3>1
      <3> QED
        BY <1>1, <2>2, <3>1, <3>2
    <2> QED
      BY <2>1, <2>2
  <1>6. ASSUME NEW t \in A \cup {a}
        PROVE  /\ k[t].process \in 1..(n + 1) /\ q[k[t].process].task = t
               /\ tb[q[k[t].process].id] = k[t].process
    <2>1. CASE t = a
      BY <1>1, <1>2, <1>3, <1>4, <2>1
    <2>2. CASE t \in A
      <3>1. /\ tasks[t].process \in 1..n /\ ps[tasks[t].process].task = t
            /\ tab[ps[tasks[t].process].id] = tasks[t].process
        BY <2>2 DEF Tied
      <3>2. q[tasks[t].process] = ps[tasks[t].process]
        BY <1>2, <1>4, <3>1
      <3>3. ps[tasks[t].process].id \in Slots
        BY <1>4, <3>1 DEF Structs
      <3>4. tasks[t].process # NULL
        BY <3>1 DEF NULL
      <3>5. ps[tasks[t].process].id # s
        BY <3>1, <3>4
      <3> QED
        BY <1>1, <2>2, <3>1, <3>2, <3>3, <3>5
    <2> QED
      BY <2>1, <2>2
  <1> QED
    BY <1>5, <1>6 DEF Tied, tb, q, new

\* A struct process that nothing names.
LEMMA TiedStray ==
    ASSUME NEW tasks, NEW A, NEW tab \in Table, NEW ps \in Structs, NEW n \in Nat,
           Tied(tasks, A, tab, ps, n), NEW c
    PROVE  Tied(tasks, A, tab, [ps EXCEPT ![n + 1] = c], n + 1)
  <1> DEFINE q == [ps EXCEPT ![n + 1] = c]
  <1>1. \A p \in Procs \ {n + 1} : q[p] = ps[p]
    BY DEF Structs
  <1>2. \A p \in 1..n : p \in 1..(n + 1) /\ p # n + 1
    OBVIOUS
  <1>3. \A u \in Slots : tab[u] # NULL => tab[u] \in Procs
    BY DEF Table
  <1> HIDE DEF q
  <1>4. ASSUME NEW u \in Slots, tab[u] # NULL
        PROVE  /\ tab[u] \in 1..(n + 1) /\ q[tab[u]].id = u
               /\ q[tab[u]].task \in A /\ tasks[q[tab[u]].task].process = tab[u]
    <2>1. /\ tab[u] \in 1..n /\ ps[tab[u]].id = u
          /\ ps[tab[u]].task \in A /\ tasks[ps[tab[u]].task].process = tab[u]
      BY <1>4 DEF Tied
    <2>2. q[tab[u]] = ps[tab[u]]
      BY <1>1, <1>2, <1>3, <1>4, <2>1
    <2> QED
      BY <1>2, <2>1, <2>2
  <1>5. ASSUME NEW t \in A
        PROVE  /\ tasks[t].process \in 1..(n + 1) /\ q[tasks[t].process].task = t
               /\ tab[q[tasks[t].process].id] = tasks[t].process
    <2>1. /\ tasks[t].process \in 1..n /\ ps[tasks[t].process].task = t
          /\ tab[ps[tasks[t].process].id] = tasks[t].process
      BY DEF Tied
    <2>2. CASE tasks[t].process \in Procs
      BY <1>1, <1>2, <2>1, <2>2
    <2>3. CASE tasks[t].process \notin Procs
      <3>1. q[tasks[t].process] = ps[tasks[t].process]
        BY <1>2, <2>1, <2>3 DEF q, Structs
      <3> QED
        BY <1>2, <2>1, <3>1
    <2> QED
      BY <2>2, <2>3
  <1> QED
    BY <1>4, <1>5 DEF Tied, q

\* A process leaves the table with its task.
LEMMA TiedRemove ==
    ASSUME NEW tasks, NEW k, NEW A, NEW tab \in Table, NEW ps \in Structs, NEW n \in Nat,
           n =< MaxLoads, Tied(tasks, A, tab, ps, n), NEW t \in A,
           \A x \in A : k[x].process = tasks[x].process
    PROVE  Tied(k, A \ {t}, [tab EXCEPT ![ps[tasks[t].process].id] = NULL], ps, n)
  <1> DEFINE p == tasks[t].process
             s == ps[p].id
             tb == [tab EXCEPT ![s] = NULL]
  <1>0. p \in 1..n /\ ps[p].task = t /\ tab[s] = p
    BY DEF Tied
  <1>1. p \in Procs /\ s \in Slots
    BY <1>0, TasksAssumption DEF Procs, Structs
  <1>2. tb[s] = NULL /\ \A u \in Slots \ {s} : tb[u] = tab[u]
    BY <1>1 DEF Table
  <1> HIDE DEF tb
  <1>3. ASSUME NEW u \in Slots, tb[u] # NULL
        PROVE  /\ tb[u] \in 1..n /\ ps[tb[u]].id = u
               /\ ps[tb[u]].task \in A \ {t} /\ k[ps[tb[u]].task].process = tb[u]
    <2>1. u # s /\ tb[u] = tab[u]
      BY <1>2, <1>3
    <2>2. /\ tab[u] \in 1..n /\ ps[tab[u]].id = u
          /\ ps[tab[u]].task \in A /\ tasks[ps[tab[u]].task].process = tab[u]
      BY <1>3, <2>1 DEF Tied
    <2>3. ps[tab[u]].task # t
      BY <2>1, <2>2
    <2> QED
      BY <2>1, <2>2, <2>3
  <1>4. ASSUME NEW x \in A \ {t}
        PROVE  /\ k[x].process \in 1..n /\ ps[k[x].process].task = x
               /\ tb[ps[k[x].process].id] = k[x].process
    <2>1. /\ tasks[x].process \in 1..n /\ ps[tasks[x].process].task = x
          /\ tab[ps[tasks[x].process].id] = tasks[x].process
      BY DEF Tied
    <2>2. ps[tasks[x].process].id \in Slots
      BY <2>1, TasksAssumption DEF Procs, Structs
    <2>3. tasks[x].process # p
      BY <1>0, <2>1
    <2>4. ps[tasks[x].process].id # s
      BY <1>0, <2>1, <2>3
    <2> QED
      BY <1>2, <2>1, <2>2, <2>4
  <1> QED
    BY <1>3, <1>4 DEF Tied, tb

\* Two tasks occupy two slots, three tasks three.
LEMMA SlotsOfTasks ==
    ASSUME NEW tasks, NEW A, NEW tab \in Table, NEW ps \in Structs, NEW n \in Nat,
           n =< MaxLoads, Tied(tasks, A, tab, ps, n), NEW t \in A
    PROVE  /\ ps[tasks[t].process].id \in Slots
           /\ tab[ps[tasks[t].process].id] # NULL
           /\ \A u \in A : ps[tasks[u].process].id = ps[tasks[t].process].id => u = t
  <1>1. ASSUME NEW u \in A
        PROVE  /\ tasks[u].process \in Procs /\ tasks[u].process # NULL
               /\ ps[tasks[u].process].task = u
               /\ tab[ps[tasks[u].process].id] = tasks[u].process
    <2>1. /\ tasks[u].process \in 1..n /\ ps[tasks[u].process].task = u
          /\ tab[ps[tasks[u].process].id] = tasks[u].process
      BY DEF Tied
    <2>2. tasks[u].process \in Procs /\ tasks[u].process # NULL
      BY <2>1, TasksAssumption DEF Procs, NULL
    <2> QED
      BY <2>1, <2>2
  <1>2. ps[tasks[t].process].id \in Slots
    BY <1>1 DEF Structs
  <1>3. ASSUME NEW u \in A, ps[tasks[u].process].id = ps[tasks[t].process].id
        PROVE  u = t
    <2>1. tasks[u].process = tasks[t].process
      BY <1>1, <1>3
    <2> QED
      BY <1>1, <2>1
  <1> QED
    BY <1>1, <1>2, <1>3

\* A list may grow when the workload has a further process.
LEMMA MayGrow ==
    ASSUME FewTasks, NEW l, NEW A, Shape(l, A), workload \in Workloads,
           processes \in Table, NEW ps \in Structs, NEW n \in Nat, n =< MaxLoads,
           Tied(l.tasks, A, processes, ps, n),
           Cardinality(Slots \ FreeSlots) < workload.alive
    PROVE  Growing(l, A)
  <1> DEFINE Id(t) == ps[l.tasks[t].process].id
             Taken == Slots \ FreeSlots
  <1>0. workload.alive \in Nat /\ workload.alive =< 3
    BY TasksAssumption DEF FewTasks
  <1>1. IsFiniteSet(Slots)
    <2>1. 0 \in Int /\ MaxProcesses - 1 \in Int
      BY TasksAssumption
    <2> QED
      BY <2>1, FS_Interval DEF Slots
  <1>2. ASSUME NEW S, S \subseteq Taken
        PROVE  IsFiniteSet(S) /\ Cardinality(S) =< Cardinality(Taken) /\ Cardinality(Taken) \in Nat
    <2>1. IsFiniteSet(Taken)
      BY <1>1, FS_Subset
    <2> QED
      BY <1>2, <2>1, FS_Subset, FS_CardinalityType
  <1> DEFINE tasks == l.tasks
  <1> HIDE DEF tasks
  <1>a. Tied(tasks, A, processes, ps, n)
    BY DEF tasks
  <1>b. PICK tab \in Table : tab = processes
    OBVIOUS
  <1>c. ASSUME NEW t \in A
        PROVE  /\ ps[tasks[t].process].id \in Slots
               /\ tab[ps[tasks[t].process].id] # NULL
               /\ \A u \in A : ps[tasks[u].process].id = ps[tasks[t].process].id => u = t
    BY <1>a, <1>b, SlotsOfTasks
  <1>3. \A t \in A : Id(t) \in Taken
    BY <1>b, <1>c DEF FreeSlots, tasks
  <1>4. \A t, u \in A : Id(u) = Id(t) => u = t
    BY <1>c DEF tasks
  <1> HIDE DEF Id, Taken
  <1>5. ASSUME NEW x \in Taken, NEW y \in Taken, x # y
        PROVE  Cardinality(Taken) >= 2 /\ Cardinality({x, y}) = 2 /\ IsFiniteSet({x, y})
    <2>1. IsFiniteSet({x}) /\ Cardinality({x}) = 1
      BY FS_Singleton
    <2>2. {x, y} = {x} \cup {y} /\ y \notin {x} /\ {x, y} \subseteq Taken
      BY <1>5
    <2>3. IsFiniteSet({x} \cup {y}) /\ Cardinality({x} \cup {y}) = Cardinality({x}) + 1
      BY <2>1, <2>2, FS_AddElement, Zenon
    <2> QED
      BY <1>2, <2>1, <2>2, <2>3
  <1>6. ASSUME NEW x \in Taken, NEW y \in Taken, NEW z \in Taken, x # y, y # z, x # z
        PROVE  Cardinality(Taken) >= 3
    <2>1. IsFiniteSet({x, y}) /\ Cardinality({x, y}) = 2
      BY <1>5, <1>6
    <2>2. {x, y, z} = {x, y} \cup {z} /\ z \notin {x, y} /\ {x, y, z} \subseteq Taken
      BY <1>6
    <2>3. Cardinality({x, y} \cup {z}) = Cardinality({x, y}) + 1
      BY <2>1, <2>2, FS_AddElement, Zenon
    <2> QED
      BY <1>2, <2>1, <2>2, <2>3
  <1>7. Cardinality(Taken) \in Nat /\ Cardinality(Taken) < workload.alive
    BY <1>2 DEF Taken
  <1>8. ASSUME NEW h \in Addresses, NEW t \in Addresses, A = {h, t}, Two(l, h, t),
               workload.alive =< 2 \/ Settled(l, h, t)
        PROVE  Growing(l, A)
    <2>1. Id(h) \in Taken /\ Id(t) \in Taken /\ Id(h) # Id(t)
      BY <1>3, <1>4, <1>8 DEF Two
    <2>2. Cardinality(Taken) >= 2
      BY <1>5, <2>1
    <2>3. Settled(l, h, t)
      BY <1>0, <1>7, <1>8, <2>2
    <2> QED
      BY <1>8, <2>3 DEF Growing
  <1>9. ASSUME NEW h \in Addresses, NEW t \in Addresses, NEW z \in Addresses,
               A = {h, t, z}, Three(l, h, t, z)
        PROVE  FALSE
    <2>1. Id(h) \in Taken /\ Id(t) \in Taken /\ Id(z) \in Taken
      BY <1>3, <1>9
    <2>2. Id(h) # Id(t) /\ Id(t) # Id(z) /\ Id(h) # Id(z)
      BY <1>4, <1>9 DEF Three
    <2>3. Cardinality(Taken) >= 3
      BY <1>6, <2>1, <2>2
    <2> QED
      BY <1>0, <1>7, <2>3
  <1> QED
    BY <1>8, <1>9 DEF Shape, Growing

-----------------------------------------------------------------------------
(* Steps                                                                   *)

\* A handler begins: the current task has its registers, too.
LEMMA Saved ==
    ASSUME IInv, ~panicked, NEW m, m = task_current_save_state(sched)
    PROVE  /\ m \in List /\ m.current = sched.current
           /\ Shape(m, allocated)
           /\ Stored(m.tasks, allocated, seen)
           /\ Tied(m.tasks, allocated, processes, procs, loads)
           /\ sched.current \in allocated /\ allocated \subseteq Addresses
           /\ Running = m.tasks[m.current].process
           /\ \A x \in Addresses : m.tasks[x].process = sched.tasks[x].process
  <1>0. sched \in List /\ cpu \in Regs
    BY DEF IInv, TypeOK, List
  <1>1. Shape(sched, allocated) /\ cpu = seen[Running]
    BY DEF IInv
  <1>2. sched.current \in allocated /\ allocated \subseteq Addresses
    BY <1>1, ShapeFacts
  <1>3. sched.current \in Addresses /\ sched.current # NULL
    BY <1>2, NotNull
  <1>4. /\ m \in List
        /\ m.head = sched.head /\ m.tail = sched.tail /\ m.current = sched.current
        /\ \A x \in Addresses : /\ m.tasks[x].process = sched.tasks[x].process
                                /\ m.tasks[x].next = sched.tasks[x].next
                                /\ m.tasks[x].prev = sched.tasks[x].prev
        /\ m.tasks[sched.current].registers = cpu
        /\ \A x \in Addresses \ {sched.current} : m.tasks[x] = sched.tasks[x]
    BY <1>0, <1>3, SaveFacts
  <1>5. Shape(m, allocated)
    BY <1>1, <1>2, <1>4, ShapeSame
  <1>6. Running = m.tasks[m.current].process
    BY <1>3, <1>4 DEF Running
  <1>7. Stored(m.tasks, allocated, seen)
    <2> SUFFICES ASSUME NEW t \in allocated
                 PROVE  m.tasks[t].registers = seen[m.tasks[t].process]
      BY DEF Stored
    <2>1. CASE t = sched.current
      BY <1>1, <1>4, <1>6, <2>1
    <2>2. CASE t # sched.current
      BY <1>2, <1>4, <2>2 DEF IInv, Stored
    <2> QED
      BY <2>1, <2>2
  <1>8. Tied(m.tasks, allocated, processes, procs, loads)
    BY <1>2, <1>4, TiedSame DEF IInv
  <1> QED
    BY <1>2, <1>4, <1>5, <1>6, <1>7, <1>8

\* A handler ends with task_return to the task t.
LEMMA Resumed ==
    ASSUME NEW m \in List, NEW B, Shape(m, B), Stored(m.tasks, B, seen), NEW t \in B,
           sched' = task_switch(m, t), cpu' = m.tasks[t].registers, allocated' = B,
           workload' = workload, seen' = seen
    PROVE  /\ sched' \in List /\ cpu' \in Regs /\ sched'.tasks = m.tasks
           /\ Shape(sched, allocated)'
           /\ Stored(sched.tasks, allocated \ {sched.current}, seen)'
           /\ cpu' = seen'[Running']
  <1>1. PICK k : k = task_switch(m, t)
    OBVIOUS
  <1>2. Shape(k, B) /\ k \in List /\ k.tasks = m.tasks /\ k.current = t
    BY <1>1, ShapeSwitch
  <1>3. t \in Addresses /\ t # NULL
    BY ShapeFacts, NotNull
  <1>4. sched' = k
    BY <1>1
  <1>5. cpu' \in Regs
    BY <1>3, ListFields
  <1>6. Shape(sched, allocated)'
    BY <1>2, <1>4 DEF Shape, One, Two, Three, Settled
  <1>7. Stored(sched.tasks, allocated \ {sched.current}, seen)'
    BY <1>2, <1>4 DEF Stored
  <1>8. Running' = m.tasks[t].process
    BY <1>2, <1>3, <1>4 DEF Running
  <1> QED
    BY <1>2, <1>4, <1>5, <1>6, <1>7, <1>8 DEF Stored

\* A handler returns to the task it interrupted.
LEMMA Returned ==
    ASSUME NEW m \in List, NEW B, Shape(m, B), Stored(m.tasks, B \ {m.current}, seen),
           m.tasks[m.current].process = Running, cpu = seen[Running],
           sched' = m, cpu' = cpu, allocated' = B, workload' = workload, seen' = seen
    PROVE  /\ Shape(sched, allocated)'
           /\ Stored(sched.tasks, allocated \ {sched.current}, seen)'
           /\ cpu' = seen'[Running']
  <1>1. m.current # NULL
    BY ShapeFacts, NotNull
  <1>2. Running' = Running
    BY <1>1 DEF Running
  <1>3. Shape(sched, allocated)'
    BY DEF Shape, One, Two, Three, Settled
  <1>4. Stored(sched.tasks, allocated \ {sched.current}, seen)'
    BY DEF Stored
  <1> QED
    BY <1>2, <1>3, <1>4

LEMMA ClockInv ==
    ASSUME IInv, Clock
    PROVE  IInv'
  <1>1. PICK m : m = task_current_save_state(sched)
    OBVIOUS
  <1>2. ~panicked
    BY DEF Clock
  <1>3. /\ m \in List /\ Shape(m, allocated) /\ Stored(m.tasks, allocated, seen)
        /\ Tied(m.tasks, allocated, processes, procs, loads)
    BY <1>1, <1>2, Saved
  <1>4. PICK t : t = NextTask(m)
    OBVIOUS
  <1>5. t \in allocated /\ t # NULL
    BY <1>3, <1>4, ShapeFacts, NotNull
  <1>6. /\ sched' = task_switch(m, t) /\ cpu' = m.tasks[t].registers
        /\ UNCHANGED <<allocated, processes, current_process, procs, loads, workload, seen, panicked>>
    BY <1>1, <1>4, <1>5 DEF Clock, task_next, task_return
  <1>7. /\ sched' \in List /\ cpu' \in Regs /\ sched'.tasks = m.tasks
        /\ Shape(sched, allocated)'
        /\ Stored(sched.tasks, allocated \ {sched.current}, seen)'
        /\ cpu' = seen'[Running']
    BY <1>3, <1>5, <1>6, Resumed
  <1>8. TypeOK'
    BY <1>6, <1>7 DEF IInv, TypeOK, List
  <1>9. Tied(sched.tasks, allocated, processes, procs, loads)'
    BY <1>3, <1>6, <1>7 DEF Tied
  <1>10. Unborn(loads, seen)' /\ PanicOnlyWhenEmpty' /\ \E s \in Slots : processes'[s] = current_process'
    BY <1>2, <1>6 DEF IInv, Unborn, PanicOnlyWhenEmpty
  <1> QED
    BY <1>7, <1>8, <1>9, <1>10 DEF IInv

LEMMA UserStepInv ==
    ASSUME IInv, UserStep
    PROVE  IInv'
  <1>0. /\ ~panicked /\ Running # NULL /\ cpu' = (cpu + 1) % Contexts
        /\ UNCHANGED <<sched, allocated, processes, current_process, procs, loads, workload, panicked>>
    BY DEF UserStep
  <1>1. PICK p : p = Running
    OBVIOUS
  <1>2. PICK c : c = sched.current
    OBVIOUS
  <1>3. Shape(sched, allocated)
    BY <1>0 DEF IInv
  <1>4. c \in allocated /\ c # NULL /\ p = sched.tasks[c].process
    BY <1>1, <1>2, <1>3, ShapeFacts, NotNull DEF Running
  <1>5. p \in 1..loads /\ procs[p].task = c
    BY <1>4 DEF IInv, Tied
  <1>6. p \in Procs
    BY <1>5, TasksAssumption DEF IInv, TypeOK, Procs
  <1>7. seen \in [Procs -> Regs]
    BY DEF IInv, TypeOK
  <1>8. seen' = [seen EXCEPT ![p] = cpu']
    BY <1>1 DEF UserStep
  <1>9. cpu' \in Regs
    BY <1>0, TasksAssumption DEF IInv, TypeOK, Regs
  <1>10. seen' \in [Procs -> Regs] /\ seen'[p] = cpu' /\ \A q \in Procs \ {p} : seen'[q] = seen[q]
    BY <1>6, <1>7, <1>8, <1>9
  <1>11. TypeOK'
    BY <1>0, <1>9, <1>10 DEF IInv, TypeOK
  <1>12. Tied(sched.tasks, allocated, processes, procs, loads)'
    BY <1>0 DEF IInv, Tied
  <1>13. Unborn(loads, seen)'
    <2> SUFFICES ASSUME NEW q \in Procs, q > loads PROVE seen'[q] = 0
      BY <1>0 DEF Unborn
    <2>1. q # p
      BY <1>5 DEF Procs, IInv, TypeOK
    <2> QED
      BY <1>10, <2>1 DEF IInv, Unborn
  <1>14. Shape(sched, allocated)'
    BY <1>0, <1>3 DEF Shape, One, Two, Three, Settled
  <1>15. Stored(sched.tasks, allocated \ {sched.current}, seen)'
    <2> SUFFICES ASSUME NEW t \in allocated, t # c
                 PROVE  sched.tasks[t].registers = seen'[sched.tasks[t].process]
      BY <1>0, <1>2 DEF Stored
    <2>1. sched.tasks[t].process \in 1..loads /\ procs[sched.tasks[t].process].task = t
      BY DEF IInv, Tied
    <2>2. sched.tasks[t].process \in Procs /\ sched.tasks[t].process # p
      BY <1>5, <2>1, TasksAssumption DEF IInv, TypeOK, Procs
    <2> QED
      BY <1>0, <1>2, <1>10, <2>2 DEF IInv, Stored
  <1>16. Running' = p
    BY <1>0, <1>1 DEF Running
  <1>17. PanicOnlyWhenEmpty' /\ \E s \in Slots : processes'[s] = current_process'
    BY <1>0 DEF IInv, PanicOnlyWhenEmpty
  <1> QED
    BY <1>10, <1>11, <1>12, <1>13, <1>14, <1>15, <1>16, <1>17 DEF IInv

\* A struct process and its task exist, process_map_memory is still to come.
LEMMA Appended ==
    ASSUME FewTasks, IInv, NEW a \in Addresses, Created(a),
           NEW m, m = task_current_save_state(sched),
           NEW k, k = task_new(m, loads + 1, a), NEW s, s = process_get_free_slot
    PROVE  /\ m \in List /\ Growing(m, allocated)
           /\ k \in List /\ k.current = sched.current
           /\ Shape(k, allocated \cup {a})
           /\ Stored(k.tasks, allocated \cup {a}, seen)
           /\ \A x \in allocated : k.tasks[x].process = sched.tasks[x].process
           /\ k.tasks[a].process = loads + 1
           /\ s \in Slots /\ processes[s] = NULL
           /\ loads \in Nat /\ loads + 1 \in Procs /\ loads + 1 \in 2..MaxLoads
           /\ procs' = [procs EXCEPT ![loads + 1] = [id |-> s, task |-> a]]
           /\ procs' \in Structs
           /\ Unborn(loads + 1, seen)
  <1>0. /\ ~panicked /\ a \notin allocated /\ loads < MaxLoads /\ FreeSlots # {}
        /\ Cardinality(Slots \ FreeSlots) < workload.alive
        /\ procs' = [procs EXCEPT ![loads + 1] = NewProcess(a)]
    BY DEF Created
  <1>1. loads \in Nat /\ loads + 1 \in Procs /\ loads + 1 \in 2..MaxLoads /\ loads =< MaxLoads
    BY <1>0, TasksAssumption DEF IInv, TypeOK, Procs
  <1>2. processes \in Table /\ procs \in Structs /\ workload \in Workloads
    BY DEF IInv, TypeOK, Table, Structs
  <1>3. s \in Slots /\ processes[s] = NULL
    <2>1. FreeSlots \subseteq Nat
      BY DEF FreeSlots, Slots
    <2>2. s \in FreeSlots
      BY <1>0, <2>1, MinIsLeast DEF process_get_free_slot
    <2> QED
      BY <2>2 DEF FreeSlots
  <1>4. procs' = [procs EXCEPT ![loads + 1] = [id |-> s, task |-> a]]
    BY <1>0 DEF NewProcess
  <1>5. procs' \in Structs
    BY <1>2, <1>3, <1>4 DEF Structs
  <1>6. /\ m \in List /\ m.current = sched.current
        /\ Shape(m, allocated) /\ Stored(m.tasks, allocated, seen)
        /\ Tied(m.tasks, allocated, processes, procs, loads)
        /\ allocated \subseteq Addresses
        /\ \A x \in Addresses : m.tasks[x].process = sched.tasks[x].process
    BY <1>0, Saved
  <1>7. Growing(m, allocated)
    BY <1>0, <1>1, <1>2, <1>6, MayGrow
  <1>8. m.head # NULL /\ m.tail \in allocated /\ m.tail \in Addresses /\ a # m.tail
    BY <1>0, <1>6, ShapeFacts
  <1>9. /\ k \in List /\ k.current = m.current
        /\ k.tasks[a] = [process |-> loads + 1, next |-> NULL, prev |-> m.tail, registers |-> 0]
        /\ k.tasks[m.tail].process = m.tasks[m.tail].process
        /\ k.tasks[m.tail].registers = m.tasks[m.tail].registers
        /\ \A x \in Addresses \ {a, m.tail} : k.tasks[x] = m.tasks[x]
    BY <1>1, <1>6, <1>8, AppendFacts
  <1>10. k.tasks[a].process = loads + 1 /\ k.tasks[a].registers = 0
    BY <1>9
  <1>11. \A x \in allocated : /\ k.tasks[x].process = m.tasks[x].process
                              /\ k.tasks[x].registers = m.tasks[x].registers
    BY <1>0, <1>6, <1>9
  <1>12. Shape(k, allocated \cup {a})
    BY <1>0, <1>1, <1>6, <1>7, ShapeAppend
  <1>13. Stored(k.tasks, allocated \cup {a}, seen)
    <2>1. seen[loads + 1] = 0
      BY <1>1 DEF IInv, Unborn
    <2> QED
      BY <1>6, <1>10, <1>11, <2>1 DEF Stored
  <1>14. Unborn(loads + 1, seen)
    BY <1>1 DEF IInv, Unborn, Procs
  <1> QED
    BY <1>1, <1>3, <1>4, <1>5, <1>6, <1>7, <1>9, <1>10, <1>11, <1>12, <1>13, <1>14

\* process_load_switch has put the process into the table.
LEMMA LoadSwitched ==
    ASSUME FewTasks, IInv, NEW a \in Addresses, LoadSwitch(a),
           NEW k, k = task_new(task_current_save_state(sched), loads + 1, a)
    PROVE  /\ Tied(k.tasks, allocated', processes', procs', loads')
           /\ \A x \in allocated : k.tasks[x].process = sched.tasks[x].process
           /\ allocated' = allocated \cup {a} /\ allocated' \subseteq Addresses
           /\ processes' \in Table /\ procs' \in Structs
           /\ current_process' \in Procs /\ loads' \in 2..MaxLoads
           /\ panicked' = panicked /\ workload' = workload /\ seen' = seen /\ ~panicked
           /\ Unborn(loads', seen')
           /\ \E s \in Slots : processes'[s] = current_process'
  <1>1. PICK m : m = task_current_save_state(sched)
    OBVIOUS
  <1>2. PICK s : s = process_get_free_slot
    OBVIOUS
  <1>3. /\ Created(a) /\ ~panicked /\ a \notin allocated
        /\ allocated' = allocated \cup {a} /\ loads' = loads + 1
        /\ processes' = [processes EXCEPT ![s] = loads + 1] /\ current_process' = loads + 1
        /\ panicked' = panicked /\ workload' = workload /\ seen' = seen
    BY <1>2 DEF LoadSwitch, Created
  <1>4. /\ \A x \in allocated : k.tasks[x].process = sched.tasks[x].process
        /\ k.tasks[a].process = loads + 1
        /\ s \in Slots /\ processes[s] = NULL
        /\ loads \in Nat /\ loads + 1 \in Procs /\ loads + 1 \in 2..MaxLoads
        /\ procs' = [procs EXCEPT ![loads + 1] = [id |-> s, task |-> a]]
        /\ procs' \in Structs
        /\ Unborn(loads + 1, seen)
    BY <1>1, <1>2, <1>3, Appended
  <1>5. /\ processes \in Table /\ procs \in Structs /\ allocated \subseteq Addresses
        /\ Tied(sched.tasks, allocated, processes, procs, loads)
    BY DEF IInv, TypeOK, Table, Structs
  <1>6. processes' \in Table /\ processes'[s] = loads + 1
    BY <1>3, <1>4, <1>5 DEF Table
  <1>7. PICK n \in Nat : n = loads
    BY <1>4
  <1>8. PICK old : old = sched.tasks
    OBVIOUS
  <1>9. PICK new : new = k.tasks
    OBVIOUS
  <1>10. Tied(new, allocated \cup {a}, [processes EXCEPT ![s] = n + 1],
              [procs EXCEPT ![n + 1] = [id |-> s, task |-> a]], n + 1)
    BY <1>3, <1>4, <1>5, <1>7, <1>8, <1>9, TiedAdd
  <1>11. Tied(k.tasks, allocated', processes', procs', loads')
    BY <1>3, <1>4, <1>7, <1>9, <1>10
  <1> QED
    BY <1>3, <1>4, <1>5, <1>6, <1>11

LEMMA LoadInv ==
    ASSUME FewTasks, IInv, NEW a \in Addresses, Load(a)
    PROVE  IInv'
  <1>1. PICK k : k = task_new(task_current_save_state(sched), loads + 1, a)
    OBVIOUS
  <1>2. LoadSwitch(a) /\ Created(a) /\ sched' = task_switch(k, a) /\ cpu' = k.tasks[a].registers
    BY <1>1 DEF Load, LoadSwitch, task_return
  <1>3. /\ Tied(k.tasks, allocated', processes', procs', loads')
        /\ allocated' = allocated \cup {a} /\ allocated' \subseteq Addresses
        /\ processes' \in Table /\ procs' \in Structs
        /\ current_process' \in Procs /\ loads' \in 2..MaxLoads
        /\ panicked' = panicked /\ workload' = workload /\ seen' = seen /\ ~panicked
        /\ Unborn(loads', seen')
        /\ \E s \in Slots : processes'[s] = current_process'
    BY <1>1, <1>2, LoadSwitched
  <1>4. k \in List /\ Shape(k, allocated \cup {a}) /\ Stored(k.tasks, allocated \cup {a}, seen)
    BY <1>1, <1>2, Appended
  <1>5. /\ sched' \in List /\ cpu' \in Regs /\ sched'.tasks = k.tasks
        /\ Shape(sched, allocated)'
        /\ Stored(sched.tasks, allocated \ {sched.current}, seen)'
        /\ cpu' = seen'[Running']
    <2>1. PICK B : B = allocated \cup {a}
      OBVIOUS
    <2>2. a \in B /\ allocated' = B /\ Shape(k, B) /\ Stored(k.tasks, B, seen)
      BY <1>3, <1>4, <2>1
    <2> QED
      BY <1>2, <1>3, <1>4, <2>2, Resumed
  <1>6. TypeOK'
    BY <1>3, <1>5 DEF IInv, TypeOK, List, Table, Structs
  <1>7. Tied(sched.tasks, allocated, processes, procs, loads)'
    BY <1>3, <1>5 DEF Tied
  <1>8. Unborn(loads, seen)' /\ PanicOnlyWhenEmpty'
    BY <1>3 DEF Unborn, PanicOnlyWhenEmpty
  <1> QED
    BY <1>3, <1>5, <1>6, <1>7, <1>8 DEF IInv

LEMMA LoadArgumentsFailInv ==
    ASSUME FewTasks, IInv, NEW a \in Addresses, LoadArgumentsFail(a)
    PROVE  IInv'
  <1>1. PICK k : k = task_new(task_current_save_state(sched), loads + 1, a)
    OBVIOUS
  <1>2. LoadSwitch(a) /\ Created(a) /\ sched' = k /\ cpu' = cpu
    BY <1>1 DEF LoadArgumentsFail, LoadSwitch
  <1>3. /\ Tied(k.tasks, allocated', processes', procs', loads')
        /\ allocated' = allocated \cup {a} /\ allocated' \subseteq Addresses
        /\ processes' \in Table /\ procs' \in Structs
        /\ current_process' \in Procs /\ loads' \in 2..MaxLoads
        /\ panicked' = panicked /\ workload' = workload /\ seen' = seen /\ ~panicked
        /\ Unborn(loads', seen')
        /\ \E s \in Slots : processes'[s] = current_process'
    BY <1>1, <1>2, LoadSwitched
  <1>4. /\ k \in List /\ Shape(k, allocated \cup {a}) /\ Stored(k.tasks, allocated \cup {a}, seen)
        /\ k.current = sched.current
        /\ \A x \in allocated : k.tasks[x].process = sched.tasks[x].process
    <2>1. k \in List /\ Shape(k, allocated \cup {a}) /\ Stored(k.tasks, allocated \cup {a}, seen)
      BY <1>1, <1>2, Appended
    <2>2. k.current = sched.current
      BY <1>1, <1>2, Appended
    <2>3. \A x \in allocated : k.tasks[x].process = sched.tasks[x].process
      BY <1>1, <1>2, LoadSwitched
    <2> QED
      BY <2>1, <2>2, <2>3
  <1>5. sched.current \in allocated /\ Running = sched.tasks[sched.current].process /\ cpu = seen[Running]
    BY <1>3, ShapeFacts, NotNull DEF IInv, Running
  <1>6. /\ Shape(sched, allocated)'
        /\ Stored(sched.tasks, allocated \ {sched.current}, seen)'
        /\ cpu' = seen'[Running']
    <2>1. PICK B : B = allocated \cup {a}
      OBVIOUS
    <2>2. allocated' = B /\ Shape(k, B) /\ Stored(k.tasks, B \ {k.current}, seen)
      BY <1>3, <1>4, <2>1 DEF Stored
    <2>3. k.tasks[k.current].process = Running
      BY <1>4, <1>5
    <2> QED
      BY <1>2, <1>3, <1>4, <1>5, <2>2, <2>3, Returned
  <1>7. TypeOK'
    BY <1>2, <1>3, <1>4 DEF IInv, TypeOK, List, Table, Structs
  <1>8. Tied(sched.tasks, allocated, processes, procs, loads)'
    BY <1>2, <1>3 DEF Tied
  <1>9. Unborn(loads, seen)' /\ PanicOnlyWhenEmpty'
    BY <1>3 DEF Unborn, PanicOnlyWhenEmpty
  <1> QED
    BY <1>3, <1>6, <1>7, <1>8, <1>9 DEF IInv

LEMMA LoadMapFailsInv ==
    ASSUME FewTasks, IInv, NEW a \in Addresses, LoadMapFails(a)
    PROVE  IInv'
  <1>1. PICK m : m = task_current_save_state(sched)
    OBVIOUS
  <1>2. PICK k : k = task_new(m, loads + 1, a)
    OBVIOUS
  <1>3. PICK r : r = task_list_remove(k, a)
    OBVIOUS
  <1>4. PICK s : s = process_get_free_slot
    OBVIOUS
  <1>5. /\ Created(a) /\ ~panicked /\ a \notin allocated /\ sched' = r /\ loads' = loads + 1
        /\ UNCHANGED <<allocated, processes, current_process, cpu, panicked, workload, seen>>
    BY <1>1, <1>2, <1>3 DEF LoadMapFails, Created
  <1>6. /\ m \in List /\ Growing(m, allocated)
        /\ loads \in Nat /\ loads + 1 \in Procs /\ loads + 1 \in 2..MaxLoads
        /\ procs' = [procs EXCEPT ![loads + 1] = [id |-> s, task |-> a]]
        /\ procs' \in Structs
        /\ Unborn(loads + 1, seen)
    BY <1>1, <1>2, <1>4, <1>5, Appended
  <1>7. /\ Shape(r, allocated) /\ r \in List /\ r.current = m.current
        /\ \A x \in allocated : /\ r.tasks[x].process = m.tasks[x].process
                                /\ r.tasks[x].registers = m.tasks[x].registers
    BY <1>2, <1>3, <1>5, <1>6, ShapeUndo
  <1>8. /\ Stored(m.tasks, allocated, seen) /\ m.current = sched.current
        /\ sched.current \in allocated
        /\ Tied(m.tasks, allocated, processes, procs, loads)
        /\ Running = m.tasks[m.current].process
    BY <1>1, <1>5, Saved
  <1>9. cpu = seen[Running] /\ processes \in Table /\ procs \in Structs
    BY <1>5 DEF IInv, TypeOK, Table, Structs
  <1>10. r.tasks[r.current].process = Running /\ Stored(r.tasks, allocated \ {r.current}, seen)
    BY <1>7, <1>8 DEF Stored
  <1>11. /\ Shape(sched, allocated)'
         /\ Stored(sched.tasks, allocated \ {sched.current}, seen)'
         /\ cpu' = seen'[Running']
    <2>1. PICK B : B = allocated
      OBVIOUS
    <2>2. allocated' = B /\ Shape(r, B) /\ Stored(r.tasks, B \ {r.current}, seen)
      BY <1>5, <1>7, <1>10, <2>1
    <2> QED
      BY <1>5, <1>7, <1>9, <1>10, <2>2, Returned
  <1>12. Tied(r.tasks, allocated, processes, procs, loads)
    BY <1>7, <1>8, TiedSame
  <1>13. PICK n \in Nat : n = loads
    BY <1>6
  <1>14. PICK ts : ts = r.tasks
    OBVIOUS
  <1>15. PICK c : c = [id |-> s, task |-> a]
    OBVIOUS
  <1>16. Tied(ts, allocated, processes, [procs EXCEPT ![n + 1] = c], n + 1)
    BY <1>9, <1>12, <1>13, <1>14, TiedStray
  <1>17. Tied(sched.tasks, allocated, processes, procs, loads)'
    BY <1>5, <1>6, <1>13, <1>14, <1>15, <1>16 DEF Tied
  <1>18. TypeOK'
    BY <1>5, <1>6, <1>7 DEF IInv, TypeOK, List, Structs
  <1>19. Unborn(loads, seen)' /\ PanicOnlyWhenEmpty'
    BY <1>5, <1>6 DEF Unborn, PanicOnlyWhenEmpty
  <1>20. \E u \in Slots : processes'[u] = current_process'
    BY <1>5 DEF IInv
  <1> QED
    BY <1>11, <1>17, <1>18, <1>19, <1>20 DEF IInv

LEMMA LoadFailsInv ==
    ASSUME IInv, LoadFails
    PROVE  IInv'
  <1>1. PICK m : m = task_current_save_state(sched)
    OBVIOUS
  <1>2. /\ ~panicked /\ sched' = m
        /\ UNCHANGED <<allocated, processes, current_process, procs, loads, panicked, workload, cpu, seen>>
    BY <1>1 DEF LoadFails
  <1>3. /\ m \in List /\ Shape(m, allocated) /\ Stored(m.tasks, allocated, seen)
        /\ Tied(m.tasks, allocated, processes, procs, loads)
        /\ Running = m.tasks[m.current].process
    BY <1>1, <1>2, Saved
  <1>4. cpu = seen[Running] /\ Stored(m.tasks, allocated \ {m.current}, seen)
    BY <1>2, <1>3 DEF IInv, Stored
  <1>5. /\ Shape(sched, allocated)'
        /\ Stored(sched.tasks, allocated \ {sched.current}, seen)'
        /\ cpu' = seen'[Running']
    <2>1. PICK B : B = allocated
      OBVIOUS
    <2> QED
      BY <1>2, <1>3, <1>4, <2>1, Returned
  <1>6. TypeOK'
    BY <1>2, <1>3 DEF IInv, TypeOK, List
  <1>7. Tied(sched.tasks, allocated, processes, procs, loads)'
    BY <1>2, <1>3 DEF Tied
  <1>8. Unborn(loads, seen)' /\ PanicOnlyWhenEmpty' /\ \E s \in Slots : processes'[s] = current_process'
    BY <1>2 DEF IInv, Unborn, PanicOnlyWhenEmpty
  <1> QED
    BY <1>5, <1>6, <1>7, <1>8 DEF IInv

LEMMA ReuseMemoryInv ==
    ASSUME IInv, NEW a \in Addresses, ReuseMemory(a)
    PROVE  IInv'
  <1>1. PICK m : m = [sched EXCEPT !.tasks[a] = Zeroed]
    OBVIOUS
  <1>2. /\ ~panicked /\ sched' = m /\ a \notin allocated
        /\ UNCHANGED <<allocated, processes, current_process, procs, loads, panicked, workload, cpu, seen>>
    BY <1>1 DEF ReuseMemory
  <1>3. sched \in List /\ Zeroed \in Task
    BY TasksAssumption DEF IInv, TypeOK, List, Zeroed, Task, Regs
  <1>4. /\ m \in List /\ m.head = sched.head /\ m.tail = sched.tail /\ m.current = sched.current
        /\ \A x \in Addresses \ {a} : m.tasks[x] = sched.tasks[x]
    <2> DEFINE ts == [sched.tasks EXCEPT ![a] = Zeroed]
    <2>1. m = [sched EXCEPT !.tasks = ts]
      BY <1>1
    <2>2. ts \in [Addresses -> Task] /\ \A x \in Addresses \ {a} : ts[x] = sched.tasks[x]
      BY <1>3 DEF List
    <2> HIDE DEF ts
    <2> QED
      BY <1>3, <2>1, <2>2 DEF List
  <1>5. Shape(sched, allocated) /\ cpu = seen[Running]
    BY <1>2 DEF IInv
  <1>6. sched.current \in allocated /\ allocated \subseteq Addresses \ {a}
    BY <1>2, <1>5, ShapeFacts
  <1>7. Shape(m, allocated)
    BY <1>4, <1>5, <1>6, ShapeSame
  <1>8. /\ m.tasks[m.current].process = Running
        /\ Stored(m.tasks, allocated \ {m.current}, seen)
        /\ Tied(m.tasks, allocated, processes, procs, loads)
    <2>1. Running = sched.tasks[sched.current].process
      BY <1>6, NotNull DEF Running
    <2>2. Tied(m.tasks, allocated, processes, procs, loads)
      BY <1>4, <1>6, TiedSame DEF IInv
    <2> QED
      BY <1>2, <1>4, <1>6, <2>1, <2>2 DEF IInv, Stored
  <1>9. /\ Shape(sched, allocated)'
        /\ Stored(sched.tasks, allocated \ {sched.current}, seen)'
        /\ cpu' = seen'[Running']
    <2>1. PICK B : B = allocated
      OBVIOUS
    <2> QED
      BY <1>2, <1>4, <1>5, <1>7, <1>8, <2>1, Returned
  <1>10. TypeOK'
    BY <1>2, <1>4 DEF IInv, TypeOK, List
  <1>11. Tied(sched.tasks, allocated, processes, procs, loads)'
    BY <1>2, <1>8 DEF Tied
  <1>12. Unborn(loads, seen)' /\ PanicOnlyWhenEmpty' /\ \E s \in Slots : processes'[s] = current_process'
    BY <1>2 DEF IInv, Unborn, PanicOnlyWhenEmpty
  <1> QED
    BY <1>9, <1>10, <1>11, <1>12 DEF IInv

LEMMA TerminateInv ==
    ASSUME IInv, Terminate
    PROVE  IInv'
  <1>1. PICK m : m = task_current_save_state(sched)
    OBVIOUS
  <1>2. PICK p : p = Running
    OBVIOUS
  <1>3. PICK t : t = procs[p].task
    OBVIOUS
  <1>4. PICK l : l = task_list_remove(m, t)
    OBVIOUS
  <1>5. PICK table : table = [processes EXCEPT ![procs[p].id] = NULL]
    OBVIOUS
  <1>6. PICK B : B = allocated \ {t}
    OBVIOUS
  <1>7. /\ ~panicked /\ p \notin workload.residents
        /\ allocated' = B /\ processes' = table
        /\ UNCHANGED <<procs, loads, workload, seen>>
    BY <1>2, <1>3, <1>5, <1>6 DEF Terminate
  <1>8. IF current_process = p /\ \A s \in Slots : table[s] = NULL
        THEN panicked' = TRUE /\ sched' = l /\ UNCHANGED <<current_process, cpu>>
        ELSE /\ current_process' = IF current_process = p THEN FirstProcess(table)
                                                          ELSE current_process
             /\ task_next(l)
    BY <1>1, <1>2, <1>3, <1>4, <1>5 DEF Terminate
  <1>9. /\ m \in List /\ m.current = sched.current
        /\ Shape(m, allocated) /\ Stored(m.tasks, allocated, seen)
        /\ Tied(m.tasks, allocated, processes, procs, loads)
        /\ sched.current \in allocated /\ allocated \subseteq Addresses
        /\ p = m.tasks[m.current].process
    BY <1>1, <1>2, <1>7, Saved
  <1>10. t = m.current /\ t \in allocated /\ t \in Addresses /\ processes[procs[p].id] = p /\ p \in 1..loads
    BY <1>3, <1>9 DEF Tied
  <1>11. /\ l \in List
         /\ \A x \in Addresses : /\ l.tasks[x].process = m.tasks[x].process
                                 /\ l.tasks[x].registers = m.tasks[x].registers
    BY <1>4, <1>9, <1>10, RemoveFacts
  <1>12. processes \in Table /\ procs \in Structs /\ loads \in Nat /\ loads =< MaxLoads /\ current_process \in Procs
    BY TasksAssumption DEF IInv, TypeOK, Table, Structs
  <1>13. p \in Procs /\ p # NULL /\ procs[p].id \in Slots /\ current_process # NULL
    BY <1>10, <1>12, TasksAssumption DEF Procs, NULL, Structs
  <1>14. table \in Table /\ table[procs[p].id] = NULL
         /\ \A s \in Slots \ {procs[p].id} : table[s] = processes[s]
    BY <1>5, <1>12, <1>13 DEF Table
  <1>15. Tied(l.tasks, B, table, procs, loads)
    <2>1. PICK n \in Nat : n = loads
      BY <1>12
    <2>2. PICK tasks : tasks = m.tasks
      OBVIOUS
    <2>3. PICK k : k = l.tasks
      OBVIOUS
    <2>4. \A x \in allocated : k[x].process = tasks[x].process
      BY <1>9, <1>11, <2>2, <2>3
    <2>5. Tied(tasks, allocated, processes, procs, n) /\ n =< MaxLoads
      BY <1>9, <1>12, <2>1, <2>2
    <2>6. Tied(k, allocated \ {t}, [processes EXCEPT ![procs[tasks[t].process].id] = NULL], procs, n)
      BY <1>10, <1>12, <2>4, <2>5, TiedRemove
    <2> QED
      BY <1>5, <1>6, <1>9, <1>10, <2>1, <2>2, <2>3, <2>6
  <1>16. PICK s0 \in Slots : processes[s0] = current_process
    BY <1>7 DEF IInv
  <1>17. Unborn(loads, seen)'
    BY <1>7 DEF IInv, Unborn
  <1>18. CASE allocated = {t}
    <2>1. B = {}
      BY <1>6, <1>18
    <2>2. \A s \in Slots : table[s] = NULL
      BY <1>15, <2>1 DEF Tied
    <2>3. current_process = p
      BY <1>9, <1>10, <1>13, <1>16, <1>18 DEF Tied
    <2>4. panicked' = TRUE /\ sched' = l /\ UNCHANGED <<current_process, cpu>>
      BY <1>8, <2>2, <2>3
    <2>5. TypeOK'
      <3>1. panicked' \in BOOLEAN
        BY <2>4, Zenon
      <3>2. B \subseteq Addresses
        BY <1>6, <1>9
      <3> QED
        BY <1>7, <1>11, <1>14, <2>4, <3>1, <3>2 DEF IInv, TypeOK, List, Table
    <2>6. Tied(sched.tasks, allocated, processes, procs, loads)'
      BY <1>7, <1>15, <2>4 DEF Tied
    <2>7. PanicOnlyWhenEmpty'
      BY <1>7, <2>2 DEF PanicOnlyWhenEmpty
    <2>8. panicked'
      BY <2>4
    <2> QED
      BY <1>17, <2>5, <2>6, <2>7, <2>8 DEF IInv
  <1>19. CASE allocated # {t}
    <2>1. Shape(l, B)
      BY <1>4, <1>6, <1>7, <1>9, <1>10, <1>19, ShapeRemove
    <2>2. PICK x \in B : x = NextTask(l)
      BY <2>1, ShapeFacts
    <2>3. x \in Addresses /\ x # NULL /\ B \subseteq Addresses
      BY <1>6, <1>9, <2>2, NotNull
    <2>4. PICK s1 \in Slots : table[s1] # NULL
      <3>1. /\ l.tasks[x].process \in 1..loads
            /\ table[procs[l.tasks[x].process].id] = l.tasks[x].process
        BY <1>15, <2>2 DEF Tied
      <3>2. l.tasks[x].process \in Procs /\ l.tasks[x].process # NULL
        BY <1>12, <3>1, TasksAssumption DEF Procs, NULL
      <3>3. procs[l.tasks[x].process].id \in Slots
        BY <1>12, <3>2 DEF Structs
      <3> QED
        BY <3>1, <3>2, <3>3
    <2>5. /\ current_process' = IF current_process = p THEN FirstProcess(table)
                                                       ELSE current_process
          /\ sched' = task_switch(l, x) /\ cpu' = l.tasks[x].registers /\ panicked' = panicked
      BY <1>8, <2>2, <2>3, <2>4 DEF task_next, task_return
    <2>6. Stored(l.tasks, B, seen)
      BY <1>6, <1>9, <1>11 DEF Stored
    <2>7. /\ sched' \in List /\ cpu' \in Regs /\ sched'.tasks = l.tasks
          /\ Shape(sched, allocated)'
          /\ Stored(sched.tasks, allocated \ {sched.current}, seen)'
          /\ cpu' = seen'[Running']
      BY <1>7, <1>11, <2>1, <2>2, <2>5, <2>6, Resumed
    <2>8. current_process' \in Procs /\ \E s \in Slots : table[s] = current_process'
      <3>1. CASE current_process = p
        <4> DEFINE S == {s \in Slots : table[s] # NULL}
        <4>1. S \subseteq Nat /\ S # {}
          BY <2>4 DEF Slots
        <4>2. Min(S) \in S
          BY <4>1, MinIsLeast
        <4>3. current_process' = table[Min(S)]
          BY <2>5, <3>1 DEF FirstProcess
        <4>4. \A s \in S : s \in Slots /\ table[s] \in Procs
          BY <1>14 DEF Table
        <4> HIDE DEF S
        <4> QED
          BY <4>2, <4>3, <4>4
      <3>2. CASE current_process # p
        <4>1. s0 # procs[p].id
          BY <1>10, <1>16, <3>2
        <4> QED
          BY <1>12, <1>14, <1>16, <2>5, <3>2, <4>1
      <3> QED
        BY <3>1, <3>2
    <2>9. TypeOK'
      BY <1>7, <1>14, <2>3, <2>5, <2>7, <2>8 DEF IInv, TypeOK, List, Table
    <2>10. Tied(sched.tasks, allocated, processes, procs, loads)'
      BY <1>7, <1>15, <2>7 DEF Tied
    <2>11. PanicOnlyWhenEmpty'
      BY <1>7, <2>5 DEF PanicOnlyWhenEmpty
    <2> QED
      BY <1>7, <1>17, <2>7, <2>8, <2>9, <2>10, <2>11 DEF IInv
  <1> QED
    BY <1>18, <1>19

LEMMA InitInv ==
    ASSUME FewTasks, Init
    PROVE  IInv
  <1>0. PICK a \in Addresses, b \in Addresses :
        /\ a # b
        /\ sched = [tasks |-> [x \in Addresses |->
                                 CASE x = a -> [Zeroed EXCEPT !.process = 1, !.next = b]
                                   [] x = b -> [Zeroed EXCEPT !.process = 2, !.prev = a]
                                   [] OTHER -> Zeroed],
                    head |-> a, tail |-> b, current |-> a]
        /\ allocated = {a, b}
        /\ procs = [p \in Procs |-> CASE p = 1 -> [id |-> 0, task |-> a]
                                      [] p = 2 -> [id |-> 1, task |-> b]
                                      [] OTHER -> [id |-> 0, task |-> NULL]]
    BY DEF Init
  <1>1. /\ processes = [s \in Slots |-> IF s < 2 THEN s + 1 ELSE NULL]
        /\ current_process = 2 /\ loads = 2 /\ panicked = FALSE
        /\ workload \in Workloads /\ cpu = 0 /\ seen = [p \in Procs |-> 0]
    BY DEF Init
  <1>2. 1 \in Procs /\ 2 \in Procs /\ 0 \in Regs /\ 0 \in Slots /\ 1 \in Slots
    BY TasksAssumption DEF Procs, Regs, Slots
  <1> DEFINE ta == [process |-> 1, next |-> b, prev |-> NULL, registers |-> 0]
             tb == [process |-> 2, next |-> NULL, prev |-> a, registers |-> 0]
             ts == sched.tasks
  <1>3. /\ [Zeroed EXCEPT !.process = 1, !.next = b] = ta
        /\ [Zeroed EXCEPT !.process = 2, !.prev = a] = tb
    <2> DEFINE z1 == [process |-> 1, next |-> NULL, prev |-> NULL, registers |-> 0]
               z2 == [process |-> 2, next |-> NULL, prev |-> NULL, registers |-> 0]
    <2>1. [Zeroed EXCEPT !.process = 1] = z1 /\ [Zeroed EXCEPT !.process = 2] = z2
      BY DEF Zeroed
    <2>2. [z1 EXCEPT !.next = b] = ta
      OBVIOUS
    <2>3. [z2 EXCEPT !.prev = a] = tb
      OBVIOUS
    <2> HIDE DEF z1, z2, ta, tb
    <2>4. [Zeroed EXCEPT !.process = 1, !.next = b] = ta
      BY <2>1, <2>2
    <2>5. [Zeroed EXCEPT !.process = 2, !.prev = a] = tb
      BY <2>1, <2>3
    <2> QED
      BY <2>4, <2>5
  <1>4. ta \in Task /\ tb \in Task /\ Zeroed \in Task
    BY <1>2 DEF Task, Zeroed
  <1>5. /\ sched.head = a /\ sched.tail = b /\ sched.current = a
        /\ ts = [x \in Addresses |-> CASE x = a -> ta [] x = b -> tb [] OTHER -> Zeroed]
    BY <1>0, <1>3
  <1>6. ta.process = 1 /\ ta.next = b /\ ta.registers = 0
    OBVIOUS
  <1>7. tb.process = 2 /\ tb.next = NULL /\ tb.prev = a /\ tb.registers = 0
    OBVIOUS
  <1> HIDE DEF ta, tb
  <1>8. ts[a] = ta /\ ts[b] = tb /\ ts \in [Addresses -> Task]
    BY <1>0, <1>4, <1>5
  <1>9. sched \in List
    <2>1. sched = [tasks |-> ts, head |-> a, tail |-> b, current |-> a]
      BY <1>0
    <2> HIDE DEF ts
    <2> QED
      BY <1>8, <2>1 DEF List
  <1> HIDE DEF ts
  <1>10. /\ procs[1].id = 0 /\ procs[1].task = a /\ procs[2].id = 1 /\ procs[2].task = b
         /\ procs \in [Procs -> [id : Slots, task : Addresses \cup {NULL}]]
    BY <1>0, <1>2
  <1>11. /\ processes[0] = 1 /\ processes[1] = 2
         /\ \A s \in Slots \ {0, 1} : processes[s] = NULL
    BY <1>1, <1>2 DEF Slots
  <1>12. processes \in [Slots -> Procs \cup {NULL}]
    BY <1>1, <1>2 DEF Slots
  <1>13. TypeOK
    <2>1. panicked \in BOOLEAN
      BY <1>1, Zenon
    <2>2. loads \in 2..MaxLoads
      BY <1>1, TasksAssumption
    <2> QED
      BY <1>0, <1>1, <1>2, <1>9, <1>10, <1>12, <2>1, <2>2 DEF TypeOK, List
  <1>14. Tied(sched.tasks, allocated, processes, procs, loads)
    <2>1. /\ ts[procs[1].task].process = 1 /\ ts[procs[2].task].process = 2
          /\ procs[1].task \in allocated /\ procs[2].task \in allocated
      BY <1>0, <1>6, <1>7, <1>8, <1>10
    <2>2. 1 \in 1..loads /\ 2 \in 1..loads
      BY <1>1
    <2>3. \A s \in Slots : processes[s] # NULL => s = 0 \/ s = 1
      BY <1>11
    <2>4. \A t \in allocated : t = a \/ t = b
      BY <1>0
    <2>5. ts[a].process = 1 /\ ts[b].process = 2
      BY <1>6, <1>7, <1>8
    <2>6. \A s \in Slots : processes[s] # NULL =>
            /\ processes[s] \in 1..loads
            /\ procs[processes[s]].id = s
            /\ procs[processes[s]].task \in allocated
            /\ ts[procs[processes[s]].task].process = processes[s]
      BY <1>10, <1>11, <2>1, <2>2, <2>3
    <2>7. \A t \in allocated :
            /\ ts[t].process \in 1..loads
            /\ procs[ts[t].process].task = t
            /\ processes[procs[ts[t].process].id] = ts[t].process
      BY <1>10, <1>11, <2>2, <2>4, <2>5
    <2> QED
      BY <2>6, <2>7 DEF Tied, ts
  <1>15. Unborn(loads, seen) /\ PanicOnlyWhenEmpty /\ \E s \in Slots : processes[s] = current_process
    BY <1>1, <1>2, <1>11 DEF Unborn, PanicOnlyWhenEmpty
  <1>16. Shape(sched, allocated)
    <2>1. Two(sched, a, b)
      BY <1>0, <1>5, <1>6, <1>7, <1>8 DEF Two, ts
    <2>2. workload.alive =< 2 \/ {1, 2} \subseteq workload.residents
      BY <1>1 DEF FewTasks
    <2>3. workload.alive =< 2 \/ Settled(sched, a, b)
      BY <1>6, <1>7, <1>8, <2>2 DEF Settled, ts
    <2> QED
      BY <1>0, <2>1, <2>3 DEF Shape
  <1>17. Stored(sched.tasks, allocated \ {sched.current}, seen)
    <2>1. \A t \in allocated \ {sched.current} : t = b
      BY <1>0, <1>5
    <2>2. ts[b].registers = 0 /\ ts[b].process = 2 /\ seen[2] = 0
      BY <1>1, <1>2, <1>7, <1>8
    <2> QED
      BY <2>1, <2>2 DEF Stored, ts
  <1>18. cpu = seen[Running]
    BY <1>1, <1>2, <1>5, <1>6, <1>8, NotNull DEF Running, ts
  <1> QED
    BY <1>13, <1>14, <1>15, <1>16, <1>17, <1>18 DEF IInv

LEMMA NextInv ==
    ASSUME FewTasks, IInv, [Next]_vars
    PROVE  IInv'
  <1>1. CASE Next
    <2>1. CASE PanicLoop
      BY <2>1 DEF PanicLoop, vars, IInv, TypeOK, Tied, Unborn, PanicOnlyWhenEmpty
    <2> QED
      BY <1>1, <2>1, UserStepInv, ClockInv, LoadInv, LoadArgumentsFailInv, LoadMapFailsInv,
         LoadFailsInv, TerminateInv, ReuseMemoryInv DEF Next
  <1>2. CASE UNCHANGED vars
    <2>1. /\ TypeOK'
          /\ Tied(sched.tasks, allocated, processes, procs, loads)'
          /\ Unborn(loads, seen)' /\ PanicOnlyWhenEmpty'
      BY <1>2 DEF vars, IInv, TypeOK, Tied, Unborn, PanicOnlyWhenEmpty
    <2>2. ASSUME ~panicked
          PROVE  /\ Shape(sched, allocated)'
                 /\ Stored(sched.tasks, allocated \ {sched.current}, seen)'
                 /\ cpu' = seen'[Running']
                 /\ \E s \in Slots : processes'[s] = current_process'
      BY <1>2, <2>2 DEF vars, IInv, Shape, One, Two, Three, Settled, Stored, Running
    <2> QED
      BY <1>2, <2>1, <2>2 DEF vars, IInv
  <1> QED
    BY <1>1, <1>2

-----------------------------------------------------------------------------
(* The walk along next                                                     *)

\* What the recursive function of VisitedIn computes, round by round.
LEMMA WalkRounds ==
    ASSUME sched \in List, sched.head \in Addresses, NEW n \in Nat
    PROVE  \E v : /\ VisitedIn(n) = v[n] \ {NULL}
                  /\ v[0] = {sched.head}
                  /\ \A i \in 1..n :
                        v[i] = v[i - 1] \cup {sched.tasks[t].next : t \in v[i - 1] \ {NULL}}
  <1> DEFINE T == SUBSET (Addresses \cup {NULL})
             base == {sched.head}
             E(x) == x \cup {sched.tasks[t].next : t \in x \ {NULL}}
             step == [i \in 1..n |-> [x \in T |-> E(x)]]
             Loop(f) == f = [i \in 0..n |-> IF i = 0 THEN base ELSE E(f[i - 1])]
             v == CHOOSE f : Loop(f)
  <1>1. base \in T
    OBVIOUS
  <1>2. ASSUME NEW x \in T PROVE E(x) \in T
    BY ListFields
  <1>3. step \in [1..n -> [T -> T]]
    <2> HIDE DEF E, T
    <2> QED
      BY <1>2
  <1>4. PICK f \in [0..n -> T] : IsLoop(f, n, base, step)
    <2> HIDE DEF step, base, T
    <2> QED
      BY <1>1, <1>3, LoopDefined, Zenon
  <1> HIDE DEF E, base, T
  <1>5. Loop(f)
    <2>1. ASSUME NEW i \in 0..n
          PROVE  f[i] = IF i = 0 THEN base ELSE E(f[i - 1])
      <3>1. f[i] = IF i = 0 THEN base ELSE step[i][f[i - 1]]
        BY <1>4 DEF IsLoop
      <3>2. i # 0 => i \in 1..n /\ f[i - 1] \in T
        BY <1>4
      <3> QED
        BY <3>1, <3>2
    <2> QED
      BY <1>4, <2>1
  <1>6. Loop(v)
    <2> HIDE DEF Loop
    <2> QED
      BY <1>5, Zenon
  <1>7. VisitedIn(n) = v[n] \ {NULL}
    BY Zenon DEF VisitedIn, E, base
  <1> HIDE DEF v
  <1>8. v[0] = base /\ \A i \in 1..n : v[i] = E(v[i - 1])
    BY <1>6
  <1> QED
    BY <1>7, <1>8 DEF E, base

\* Following next from the head visits the tasks of the list.
LEMMA WalkIsList ==
    ASSUME IInv
    PROVE  ListIsTheLiveTasks
  <1> SUFFICES ASSUME ~panicked PROVE VisitedIn(Cardinality(Addresses)) = allocated
    BY DEF ListIsTheLiveTasks
  <1>1. Shape(sched, allocated) /\ sched \in List
    BY DEF IInv, TypeOK, List
  <1>2. /\ sched.head \in allocated /\ allocated \subseteq Addresses
        /\ \A x \in allocated : sched.tasks[x].next \in allocated \cup {NULL}
    BY <1>1, ShapeFacts
  <1>3. PICK n \in Nat : n = Cardinality(Addresses)
    BY TasksAssumption, FS_CardinalityType
  <1>4. PICK v : /\ VisitedIn(n) = v[n] \ {NULL}
                 /\ v[0] = {sched.head}
                 /\ \A i \in 1..n :
                       v[i] = v[i - 1] \cup {sched.tasks[t].next : t \in v[i - 1] \ {NULL}}
    BY <1>1, <1>2, WalkRounds
  <1>5. v[n] \ {NULL} \subseteq allocated
    <2> DEFINE T == SUBSET (allocated \cup {NULL})
    <2>1. v[0] \in T
      BY <1>2, <1>4
    <2>2. ASSUME NEW i \in 1..n, v[i - 1] \in T PROVE v[i] \in T
      BY <1>2, <1>4, <2>2
    <2> HIDE DEF T
    <2>3. \A i \in 0..n : v[i] \in T
      BY <2>1, <2>2, LoopInvariant, Zenon
    <2> QED
      BY <2>3 DEF T
  \* A task reached after k steps stays visited.
  <1>6. ASSUME NEW x, NEW k \in 0..n, x \in v[k]
        PROVE  x \in v[n]
    <2> DEFINE S == {j \in 0..n : j >= k => x \in v[j]}
    <2>1. 0 \in S
      BY <1>6
    <2>2. ASSUME NEW j \in 0..(n - 1), j \in S PROVE j + 1 \in S
      <3>1. j + 1 \in 1..n /\ (j + 1) - 1 = j
        OBVIOUS
      <3>2. v[j] \subseteq v[j + 1]
        BY <1>4, <3>1
      <3> QED
        BY <1>6, <2>2, <3>1, <3>2
    <2> HIDE DEF S
    <2>3. 0..n \subseteq S
      BY <2>1, <2>2, SetInduction, Zenon
    <2> QED
      BY <2>3 DEF S
  <1>7. ASSUME NEW S, S \subseteq Addresses
        PROVE  Cardinality(S) =< n /\ IsFiniteSet(S)
    BY <1>3, <1>7, TasksAssumption, FS_Subset
  <1>8. n >= 1
    <2>1. Cardinality({sched.head}) = 1 /\ {sched.head} \subseteq Addresses
      BY <1>2, FS_Singleton
    <2> QED
      BY <1>7, <2>1
  <1>9. ASSUME NEW h \in Addresses, NEW t \in Addresses, h # t,
               sched.head = h, sched.tasks[h].next = t
        PROVE  t \in v[1]
    <2>1. 1 \in 1..n /\ 1 - 1 = 0
      BY <1>8
    <2>2. v[1] = v[0] \cup {sched.tasks[u].next : u \in v[0] \ {NULL}}
      BY <1>4, <2>1
    <2>3. h \in v[0] \ {NULL}
      BY <1>4, <1>9, NotNull
    <2> QED
      BY <1>9, <2>2, <2>3
  <1>10. sched.head \in v[n]
    BY <1>4, <1>6
  <1>11. ASSUME NEW h \in Addresses, NEW t \in Addresses, allocated = {h, t}, Two(sched, h, t)
         PROVE  allocated \subseteq v[n]
    <2>1. t \in v[1] /\ 1 \in 0..n
      BY <1>8, <1>9, <1>11 DEF Two
    <2> QED
      BY <1>6, <1>10, <1>11, <2>1 DEF Two
  <1>12. ASSUME NEW h \in Addresses, NEW t \in Addresses, NEW z \in Addresses,
                allocated = {h, t, z}, Three(sched, h, t, z)
         PROVE  allocated \subseteq v[n]
    <2>1. t \in v[1] /\ 1 \in 0..n
      BY <1>8, <1>9, <1>12 DEF Three
    <2>2. n >= 2
      <3>1. IsFiniteSet({h}) /\ Cardinality({h}) = 1 /\ t \notin {h}
        BY <1>12, FS_Singleton DEF Three
      <3>2. Cardinality({h} \cup {t}) = Cardinality({h}) + 1
        BY <3>1, FS_AddElement, Zenon
      <3>3. {h} \cup {t} \subseteq Addresses
        OBVIOUS
      <3>4. Cardinality({h} \cup {t}) =< n
        BY <1>7, <3>3
      <3> QED
        BY <3>1, <3>2, <3>4
    <2>3. 2 \in 1..n /\ 2 - 1 = 1 /\ 2 \in 0..n
      BY <2>2
    <2>4. v[2] = v[1] \cup {sched.tasks[u].next : u \in v[1] \ {NULL}}
      BY <1>4, <2>3
    <2>5. z \in v[2]
      BY <1>12, <2>1, <2>4, NotNull DEF Three
    <2> QED
      BY <1>6, <1>10, <1>12, <2>1, <2>3, <2>5 DEF Three
  <1>13. allocated \subseteq v[n]
    BY <1>1, <1>10, <1>11, <1>12 DEF Shape, One
  <1> QED
    BY <1>2, <1>3, <1>4, <1>5, <1>13, NotNull

-----------------------------------------------------------------------------
(* Theorems                                                                *)

\* The inductive invariant holds of every behaviour with few tasks.
THEOREM Invariance ==
    ASSUME FewTasks
    PROVE  Spec => []IInv
  <1>1. Init => IInv
    BY InitInv
  <1>2. IInv /\ [Next]_vars => IInv'
    BY NextInv
  <1> QED
    BY <1>1, <1>2, PTL DEF Spec

\* The scheduler's and the process table's variables keep their types.
THEOREM TypeCorrect ==
    ASSUME FewTasks
    PROVE  Spec => []TypeOK
  <1>1. IInv => TypeOK
    BY DEF IInv
  <1> QED
    BY <1>1, Invariance, PTL

\* The walk of task_get_next visits the live tasks and no freed memory, in
\* whatever order tasks are created, fail to be created and end.
THEOREM ListCorrect ==
    ASSUME FewTasks
    PROVE  Spec => []ListIsTheLiveTasks
  <1>1. IInv => ListIsTheLiveTasks
    BY WalkIsList
  <1> QED
    BY <1>1, Invariance, PTL

\* No task's next points to freed memory: what task.h says of it.
THEOREM NextInList ==
    ASSUME FewTasks
    PROVE  Spec => []NextIsInTheList
  <1>1. IInv => NextIsInTheList
    <2> SUFFICES ASSUME IInv, NEW t \in allocated
                 PROVE  sched.tasks[t].next \in allocated \cup {NULL}
      BY DEF NextIsInTheList
    <2>1. CASE ~panicked
      BY <2>1, ShapeFacts DEF IInv
    <2>2. CASE panicked
      <3>1. /\ processes[procs[sched.tasks[t].process].id] = sched.tasks[t].process
            /\ sched.tasks[t].process \in 1..loads
        BY DEF IInv, Tied
      <3>2. sched.tasks[t].process \in Procs /\ sched.tasks[t].process # NULL
        BY <3>1, TasksAssumption DEF IInv, TypeOK, Procs, NULL
      <3>3. procs[sched.tasks[t].process].id \in Slots
        BY <3>2 DEF IInv, TypeOK
      <3> QED
        BY <2>2, <3>1, <3>2, <3>3 DEF IInv, PanicOnlyWhenEmpty
    <2> QED
      BY <2>1, <2>2
  <1> QED
    BY <1>1, Invariance, PTL

\* The CPU never executes a freed task, and the CPU and the keyboard belong
\* to processes of the table.
THEOREM CurrentLive ==
    ASSUME FewTasks
    PROVE  Spec => []CurrentIsLive
  <1>1. IInv => CurrentIsLive
    <2> SUFFICES ASSUME IInv, ~panicked
                 PROVE  /\ sched.current \in allocated
                        /\ Running # NULL
                        /\ processes[procs[Running].id] = Running
                        /\ \E s \in Slots : processes[s] = current_process
      BY DEF CurrentIsLive
    <2>1. sched.current \in allocated /\ sched.current # NULL
      BY ShapeFacts, NotNull DEF IInv
    <2>2. Running = sched.tasks[sched.current].process
      BY <2>1 DEF Running
    <2>3. Running \in 1..loads /\ processes[procs[Running].id] = Running
      BY <2>1, <2>2 DEF IInv, Tied
    <2>4. Running # NULL
      BY <2>3 DEF NULL
    <2> QED
      BY <2>1, <2>3, <2>4 DEF IInv
  <1> QED
    BY <1>1, Invariance, PTL

\* Process table, struct processes and tasks name each other.
THEOREM TableIsConsistent ==
    ASSUME FewTasks
    PROVE  Spec => []TableConsistent
  <1>1. IInv => TableConsistent
    <2> SUFFICES ASSUME IInv PROVE TableConsistent
      OBVIOUS
    <2>1. ASSUME NEW t \in allocated
          PROVE  \E s \in Slots : processes[s] = sched.tasks[t].process
      <3>1. /\ processes[procs[sched.tasks[t].process].id] = sched.tasks[t].process
            /\ sched.tasks[t].process \in 1..loads
        BY DEF IInv, Tied
      <3>2. sched.tasks[t].process \in Procs
        BY <3>1, TasksAssumption DEF IInv, TypeOK, Procs
      <3>3. procs[sched.tasks[t].process].id \in Slots
        BY <3>2 DEF IInv, TypeOK
      <3> QED
        BY <3>1, <3>3
    <2> QED
      BY <2>1 DEF TableConsistent, IInv, Tied
  <1> QED
    BY <1>1, Invariance, PTL

\* A process continues with the registers it had when it was interrupted.
THEOREM ContextKept ==
    ASSUME FewTasks
    PROVE  Spec => []ContextIntact
  <1>1. IInv => ContextIntact
    BY DEF IInv, ContextIntact
  <1> QED
    BY <1>1, Invariance, PTL

\* The kernel panics only when the last process has ended.
THEOREM NoEarlyPanic ==
    ASSUME FewTasks
    PROVE  Spec => []PanicOnlyWhenEmpty
  <1>1. IInv => PanicOnlyWhenEmpty
    BY DEF IInv
  <1> QED
    BY <1>1, Invariance, PTL
=============================================================================
