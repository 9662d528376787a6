----------------------------- MODULE HeapProofs -----------------------------
(***************************************************************************)
(* Proofs about Heap.tla and about the scan that MCHeap.tla transcribes,   *)
(* for a heap of any size, any block size and any set of request sizes.    *)
(***************************************************************************)
EXTENDS MCHeap, HeapTableProofs

\* Every request is for at least one block.  kmalloc(0) and sizes above
\* 2^32 - BlockSize, which wrap, ask for none and mark nothing.
NonzeroSizes == \A s \in Sizes : BlocksFor(s) > 0

\* The inductive invariant: the table records what the callers hold.
\* Exclusive alone is not inductive: that a new allocation overlaps no old
\* one needs the table to show what is held.
IInv == Records(entries, live)

LEMMA InvParts == IInv => TypeOK /\ TableMatchesLive /\ Exclusive
  BY DEF IInv, Records, Marked, Disjoint, TypeOK, TableMatchesLive, Exclusive

-----------------------------------------------------------------------------
(* The invariant is inductive                                              *)

LEMMA InitInv == Init => IInv
  <1> SUFFICES ASSUME Init PROVE IInv
    OBVIOUS
  <1>1. PICK memory \in [Cells \ Blocks -> Junk] :
            /\ \E c \in Cells : c < 0 /\ "NEXT" \notin memory[c]
            /\ entries = [c \in Cells |-> IF c \in Blocks THEN {} ELSE memory[c]]
    BY DEF Init
  <1>2. Records(entries, {})
    BY <1>1, FreshTable
  <1> QED
    BY <1>2 DEF Init, IInv

\* kmalloc preserves the invariant and adds one allocation that was not there.
LEMMA MallocInv ==
    ASSUME IInv, NonzeroSizes, NEW size \in Sizes, Malloc(size)
    PROVE  IInv' /\ \E new \in Allocation : new \notin live /\ live' = live \cup {new}
  <1> DEFINE n == BlocksFor(size)
             start == heap_get_start_block(entries, n)
             new == [ptr |-> heap_block_to_address(start), blocks |-> n]
  <1>1. n \in 1..Slack
    BY HeapAssumption DEF NonzeroSizes
  <1>2. /\ start >= 0
        /\ entries' = heap_mark_blocks_taken(entries, start, n)
        /\ live' = live \cup {new}
    BY DEF Malloc
  <1> HIDE DEF n
  <1>3. /\ Records(heap_mark_blocks_taken(entries, start, n), live \cup {new})
        /\ new \in Allocation
        /\ \A a \in live : a.ptr # new.ptr
    BY <1>1, <1>2, TakenRecords DEF IInv
  <1> QED
    BY <1>2, <1>3 DEF IInv

LEMMA FreeInv ==
    ASSUME IInv, NEW a \in live, Free(a)
    PROVE  IInv'
  BY FreedRecords DEF IInv, Free

LEMMA FreeNullInv ==
    ASSUME IInv, FreeNull
    PROVE  IInv' /\ \A c \in Blocks : entries'[c] = entries[c]
  BY NullFreedRecords DEF IInv, FreeNull

LEMMA NextInv ==
    ASSUME IInv, NonzeroSizes, [Next]_vars
    PROVE  IInv'
  <1>1. ASSUME NEW size \in Sizes, Malloc(size) PROVE IInv'
    BY <1>1, MallocInv
  <1>2. ASSUME NEW a \in live, Free(a) PROVE IInv'
    BY <1>2, FreeInv
  <1>3. CASE FreeNull
    BY <1>3, FreeNullInv
  <1>4. CASE UNCHANGED vars
    BY <1>4 DEF vars, IInv
  <1> QED
    BY <1>1, <1>2, <1>3, <1>4 DEF Next, MallocFails

-----------------------------------------------------------------------------
(* The table records the live allocations                                  *)

\* The part of each live allocation that the table covers
Held == {BlocksOf(a) \cap Blocks : a \in live}

LEMMA RecordedIsHeld ==
    ASSUME IInv
    PROVE  Recorded = Held
  <1>1. ASSUME NEW a \in live
        PROVE  /\ heap_address_to_block(a.ptr) \in BlocksOf(a) \cap Blocks
               /\ "FIRST" \in entries[heap_address_to_block(a.ptr)]
    <2>1. a \in Allocation /\ a.blocks >= 1
      BY DEF IInv, Records
    <2>2. heap_address_to_block(a.ptr) \in BlocksOf(a) \cap Blocks
      BY <2>1, AllocationFacts, CellsFacts
    <2>3. heap_address_to_block(a.ptr) - heap_address_to_block(a.ptr) = 0
      BY <2>2, CellsFacts
    <2>4. entries[heap_address_to_block(a.ptr)] = TakenEntry(0, a.blocks)
      BY <2>2, <2>3 DEF IInv, Records, Marked
    <2> QED
      BY <2>2, <2>4 DEF TakenEntry
  <1>2. ASSUME NEW c \in Blocks, "FIRST" \in entries[c]
        PROVE  \E a \in live : c = heap_address_to_block(a.ptr)
    <2>1. PICK a \in live : c \in BlocksOf(a)
      BY <1>2 DEF IInv, Records, Marked
    <2>2. entries[c] = TakenEntry(c - heap_address_to_block(a.ptr), a.blocks)
      BY <2>1 DEF IInv, Records, Marked
    <2>3. c - heap_address_to_block(a.ptr) = 0
      BY <1>2, <2>2 DEF TakenEntry
    <2>4. heap_address_to_block(a.ptr) \in Int
      BY <1>1, CellsFacts
    <2> QED
      BY <2>3, <2>4, CellsFacts
  <1>3. \A a \in live : Chain(entries, heap_address_to_block(a.ptr)) = BlocksOf(a) \cap Blocks
    BY ChainIsAllocation DEF IInv
  <1>4. Held \subseteq Recorded
    BY <1>1, <1>3, Zenon DEF Held, Recorded
  <1>5. Recorded \subseteq Held
    <2>1. SUFFICES ASSUME NEW c \in Blocks, "FIRST" \in entries[c]
                   PROVE  Chain(entries, c) \in Held
      BY Zenon DEF Recorded
    <2>2. PICK a \in live : c = heap_address_to_block(a.ptr)
      BY <1>2, <2>1
    <2> QED
      BY <1>3, <2>2, Zenon DEF Held
  <1> QED
    BY <1>4, <1>5

\* The part of an allocation that the table covers is a run of blocks.
LEMMA HeldIsRun ==
    ASSUME NEW a \in Allocation, a.blocks >= 1
    PROVE  Promise!IsRun(BlocksOf(a) \cap Blocks)
  <1>1. heap_address_to_block(a.ptr) \in BlocksOf(a) \cap Blocks
    BY AllocationFacts, CellsFacts
  <1>2. ASSUME NEW x \in BlocksOf(a) \cap Blocks, NEW y \in BlocksOf(a) \cap Blocks,
               NEW z \in Blocks, x =< z, z =< y
        PROVE  z \in BlocksOf(a) \cap Blocks
    <2> DEFINE first == heap_address_to_block(a.ptr)
    <2>1. first \in Int /\ a.blocks \in Nat /\ BlocksOf(a) = first..(first + a.blocks - 1)
      BY AllocationFacts, CellsFacts
    <2> HIDE DEF first
    <2> QED
      BY <1>2, <2>1, CellsFacts
  <1> QED
    BY <1>1, <1>2 DEF Promise!IsRun

\* A step of the heap is a step of the abstract allocator, or changes no run.
LEMMA StepRefines ==
    ASSUME IInv, IInv', Recorded = Held, Recorded' = Held', NonzeroSizes, [Next]_vars
    PROVE  [Promise!Next]_Recorded
  <1>1. ASSUME NEW size \in Sizes, Malloc(size)
        PROVE  Promise!Next
    <2>1. PICK new \in Allocation : new \notin live /\ live' = live \cup {new}
      BY <1>1, MallocInv
    <2> DEFINE r == BlocksOf(new) \cap Blocks
    <2>2. Held' = Held \cup {r}
      BY <2>1, Zenon DEF Held, BlocksOf, heap_address_to_block
    <2>3. new.blocks >= 1
      BY <2>1 DEF IInv, Records
    <2>4. Promise!IsRun(r)
      BY <2>3, HeldIsRun
    <2>5. \A a \in live : BlocksOf(a) \cap BlocksOf(new) = {}
      BY <2>1 DEF IInv, Records, Disjoint
    <2>6. \A o \in Held : o \cap r = {}
      BY <2>5 DEF Held
    <2>7. Promise!Acquire(r)
      BY <2>2, <2>4, <2>6 DEF Promise!Acquire
    <2> QED
      BY <2>7 DEF Promise!Next
  <1>2. ASSUME NEW a \in live, Free(a)
        PROVE  Promise!Next
    <2> DEFINE r == BlocksOf(a) \cap Blocks
    <2>1. live' = live \ {a}
      BY <1>2 DEF Free
    <2>2. a \in Allocation /\ a.blocks >= 1
      BY DEF IInv, Records
    <2>3. r # {}
      BY <2>2, HeldIsRun DEF Promise!IsRun
    <2>4. ASSUME NEW b \in live, b # a
          PROVE  BlocksOf(b) \cap Blocks # r
      BY <2>3, <2>4 DEF IInv, Records, Disjoint
    <2>5. Held' = {BlocksOf(b) \cap Blocks : b \in live \ {a}}
      BY <2>1, Zenon DEF Held, BlocksOf, heap_address_to_block
    <2>6. Held' = Held \ {r}
      BY <2>4, <2>5 DEF Held
    <2>7. r \in Held
      BY DEF Held
    <2>8. Promise!Release(r)
      BY <2>6, <2>7 DEF Promise!Release
    <2> QED
      BY <2>8 DEF Promise!Next
  <1>3. ASSUME live' = live
        PROVE  Recorded' = Recorded
    BY <1>3 DEF Held
  <1> QED
    BY <1>1, <1>2, <1>3 DEF Next, MallocFails, FreeNull, vars

-----------------------------------------------------------------------------
(* The loop of heap_get_start_block finds what its definition names        *)

\* The locals of the loop
Locals == [bc : Nat, bs : Int, done : BOOLEAN]

\* After i rounds that have not left the loop, bc counts the free run that
\* ends before block i and bs is where it begins; no run long enough has ended.
Counting(s, i, n) ==
    /\ s.done = FALSE
    /\ s.bc \in 0..i
    /\ s.bs = IF s.bc = 0 THEN -1 ELSE i - s.bc
    /\ \A j \in (i - s.bc)..(i - 1) : IsFree(entries, j)
    /\ i - s.bc > 0 => ~IsFree(entries, i - s.bc - 1)
    /\ n > 0 => s.bc < n
    /\ n > 0 => \A b \in Fits(entries, n) : b + n > i

\* The loop has been left at the first run that is long enough.
Found(s, n) ==
    /\ s.done = TRUE
    /\ n > 0
    /\ s.bs \in Fits(entries, n)
    /\ \A b \in Fits(entries, n) : s.bs =< b

LEMMA FitsFacts ==
    ASSUME NEW n \in Nat, NEW b \in Fits(entries, n)
    PROVE  b \in Nat /\ b + n =< Total /\ \A j \in b..(b + n - 1) : IsFree(entries, j)
  <1>1. b \in Blocks /\ b + n =< Total /\ \A j \in b..(b + n - 1) : IsFree(entries, j)
    BY DEF Fits
  <1>2. b \in Nat
    BY <1>1, CellsFacts
  <1> QED
    BY <1>1, <1>2

\* One round keeps this.
LEMMA ScanRound ==
    ASSUME NEW s, NEW n \in Nat, NEW i \in Blocks, Counting(s, i, n) \/ Found(s, n),
           NEW t, t = ScanStep(s, i, n)
    PROVE  Counting(t, i + 1, n) \/ Found(t, n)
  <1>0. i \in Nat /\ i < Total /\ Total \in Nat /\ Blocks = 0..(Total - 1)
    BY CellsFacts
  <1>1. CASE Found(s, n)
    <2>1. t = s
      BY <1>1 DEF ScanStep, Found
    <2> QED
      BY <1>1, <2>1
  <1>2. CASE Counting(s, i, n) /\ ~IsFree(entries, i)
    <2>1. t = [bc |-> 0, bs |-> -1, done |-> FALSE]
      BY <1>2 DEF ScanStep, Counting
    <2>2. t.bc = 0 /\ t.bs = -1 /\ t.done = FALSE
      BY <2>1
    <2>3. n > 0 => \A b \in Fits(entries, n) : b + n > i + 1
      <3> SUFFICES ASSUME n > 0, NEW b \in Fits(entries, n), ~(b + n > i + 1) PROVE FALSE
        OBVIOUS
      <3>0. b \in Nat /\ \A j \in b..(b + n - 1) : IsFree(entries, j)
        BY FitsFacts
      <3>1. b + n > i
        BY <1>2 DEF Counting
      <3>2. i \in b..(b + n - 1)
        BY <1>0, <3>0, <3>1
      <3> QED
        BY <1>2, <3>0, <3>2
    <2>4. (i + 1) - t.bc = i + 1 /\ (i + 1) - t.bc - 1 = i
      BY <1>0, <2>2
    <2>5. \A j \in ((i + 1) - t.bc)..((i + 1) - 1) : IsFree(entries, j)
      BY <1>0, <2>4
    <2>6. Counting(t, i + 1, n)
      BY <1>0, <1>2, <2>2, <2>3, <2>4, <2>5 DEF Counting
    <2> QED
      BY <2>6
  <1>3. CASE Counting(s, i, n) /\ IsFree(entries, i)
    <2>1. t = [bc |-> s.bc + 1, bs |-> IF s.bs = -1 THEN i ELSE s.bs, done |-> s.bc + 1 = n]
      BY <1>3 DEF ScanStep, Counting
    <2>2. t.bc = s.bc + 1 /\ t.bs = (IF s.bs = -1 THEN i ELSE s.bs) /\ t.done = (s.bc + 1 = n)
      BY <2>1
    <2>3. s.bc \in 0..i /\ (n > 0 => s.bc < n)
      BY <1>3 DEF Counting
    <2>4. t.bs = (i + 1) - t.bc /\ t.bc \in 0..(i + 1) /\ t.bc # 0
      BY <1>0, <1>3, <2>2, <2>3 DEF Counting
    <2>5. \A j \in ((i + 1) - t.bc)..((i + 1) - 1) : IsFree(entries, j)
      BY <1>0, <1>3, <2>2, <2>3 DEF Counting
    <2>6. CASE s.bc + 1 = n
      <3>0. t.done = TRUE
        BY <2>2, <2>6, Zenon
      <3>1. n > 0 /\ t.bc = n
        BY <2>2, <2>3, <2>6
      <3>2. t.bs \in Fits(entries, n)
        <4>1. t.bs \in Blocks /\ t.bs + n =< Total
          BY <1>0, <2>3, <2>4, <3>1
        <4>2. \A j \in t.bs..(t.bs + n - 1) : IsFree(entries, j)
          BY <1>0, <2>3, <2>4, <2>5, <3>1
        <4> QED
          BY <4>1, <4>2 DEF Fits
      <3>3. \A b \in Fits(entries, n) : t.bs =< b
        <4> TAKE b \in Fits(entries, n)
        <4>1. b \in Nat
          BY FitsFacts
        <4>2. b + n > i
          BY <1>3, <3>1 DEF Counting
        <4> QED
          BY <1>0, <2>4, <3>1, <4>1, <4>2
      <3> QED
        BY <3>0, <3>1, <3>2, <3>3 DEF Found
    <2>7. CASE s.bc + 1 # n
      <3>1. t.done = FALSE
        BY <2>2, <2>7
      <3>2. n > 0 => t.bc < n
        BY <2>2, <2>3, <2>7
      <3>3. n > 0 => \A b \in Fits(entries, n) : b + n > i + 1
        <4> SUFFICES ASSUME n > 0, NEW b \in Fits(entries, n), ~(b + n > i + 1) PROVE FALSE
          OBVIOUS
        <4>1. b \in Nat /\ \A j \in b..(b + n - 1) : IsFree(entries, j)
          BY FitsFacts
        <4>0. b + n > i
          BY <1>3 DEF Counting
        <4>2. b + n = i + 1
          BY <1>0, <4>0, <4>1
        <4>3. i - s.bc - 1 \in b..(b + n - 1) /\ i - s.bc > 0
          BY <1>0, <2>2, <2>3, <3>2, <4>1, <4>2
        <4> QED
          BY <1>3, <4>1, <4>3 DEF Counting
      <3>4. (i + 1) - t.bc = i - s.bc
        BY <1>0, <2>2, <2>3
      <3>5. (i + 1) - t.bc > 0 => ~IsFree(entries, (i + 1) - t.bc - 1)
        BY <1>3, <3>4 DEF Counting
      <3>6. Counting(t, i + 1, n)
        BY <2>4, <2>5, <3>1, <3>2, <3>3, <3>5 DEF Counting
      <3> QED
        BY <3>6
    <2> QED
      BY <2>6, <2>7
  <1> QED
    BY <1>1, <1>2, <1>3

\* When the loop ends, bs is the answer.
LEMMA ScanEnd ==
    ASSUME NEW s, NEW n \in Nat, Counting(s, Total, n) \/ Found(s, n)
    PROVE  s.bs = heap_get_start_block(entries, n)
  <1>0. Total \in Nat /\ Total > 0 /\ Blocks = 0..(Total - 1)
    BY CellsFacts
  <1>1. CASE Found(s, n)
    <2>1. Fits(entries, n) \subseteq Nat /\ Fits(entries, n) # {} /\ s.bs \in Fits(entries, n)
      BY <1>1, FitsFacts DEF Found
    <2>2. /\ Min(Fits(entries, n)) \in Fits(entries, n)
          /\ \A b \in Fits(entries, n) : Min(Fits(entries, n)) =< b
      BY <2>1, MinIsLeast
    <2>3. s.bs =< Min(Fits(entries, n)) /\ Min(Fits(entries, n)) =< s.bs
      BY <1>1, <2>1, <2>2 DEF Found
    <2>4. s.bs = Min(Fits(entries, n))
      BY <2>1, <2>2, <2>3
    <2> QED
      BY <1>1, <2>1, <2>4 DEF Found, heap_get_start_block
  <1>2. CASE Counting(s, Total, n)
    <2>1. ~(n > 0 /\ Fits(entries, n) # {})
      <3> SUFFICES ASSUME n > 0, NEW b \in Fits(entries, n) PROVE FALSE
        OBVIOUS
      <3>0. b + n > Total
        BY <1>2 DEF Counting
      <3>1. b + n =< Total /\ b \in Nat
        BY FitsFacts
      <3> QED
        BY <1>0, <3>0, <3>1
    <2>2. s.bc \in 0..Total
      BY <1>2 DEF Counting
    <2>3. CASE s.bc = 0
      <3>1. ~IsFree(entries, Total - 1) /\ s.bs = -1
        BY <1>0, <1>2, <2>3 DEF Counting
      <3>2. Trailing(entries) = {}
        <4> SUFFICES ASSUME NEW b \in Trailing(entries) PROVE FALSE
          OBVIOUS
        <4>1. Total - 1 \in b..(Total - 1)
          BY <1>0 DEF Trailing
        <4> QED
          BY <3>1, <4>1 DEF Trailing
      <3> QED
        BY <2>1, <3>1, <3>2 DEF heap_get_start_block, ENOMEM
    <2>4. CASE s.bc # 0
      <3> DEFINE x == Total - s.bc
      <3>1. s.bs = x /\ x \in Blocks /\ x \in Nat
        BY <1>0, <1>2, <2>2, <2>4 DEF Counting
      <3>2. x \in Trailing(entries)
        BY <1>2, <3>1 DEF Counting, Trailing
      <3>3. \A b \in Trailing(entries) : x =< b
        <4> SUFFICES ASSUME NEW b \in Trailing(entries), b < x PROVE FALSE
          BY <1>0, <3>1 DEF Trailing
        <4>1. b \in Nat /\ \A j \in b..(Total - 1) : IsFree(entries, j)
          BY <1>0 DEF Trailing
        <4>2. x - 1 \in b..(Total - 1) /\ x > 0
          BY <1>0, <2>2, <2>4, <4>1
        <4> QED
          BY <1>2, <4>1, <4>2 DEF Counting
      <3> HIDE DEF x
      <3>4. Trailing(entries) \subseteq Nat /\ Trailing(entries) # {}
        <4>1. Trailing(entries) \subseteq Blocks
          BY DEF Trailing
        <4> QED
          BY <1>0, <3>2, <4>1
      <3>5. /\ Min(Trailing(entries)) \in Trailing(entries)
            /\ \A b \in Trailing(entries) : Min(Trailing(entries)) =< b
        BY <3>4, MinIsLeast
      <3>6. x =< Min(Trailing(entries)) /\ Min(Trailing(entries)) =< x
        BY <3>2, <3>3, <3>5
      <3>7. x = Min(Trailing(entries))
        BY <3>1, <3>4, <3>5, <3>6
      <3> QED
        BY <2>1, <3>1, <3>4, <3>7 DEF heap_get_start_block
    <2> QED
      BY <2>3, <2>4
  <1> QED
    BY <1>1, <1>2

LEMMA ScanIsDefinition ==
    ASSUME NEW n \in Nat
    PROVE  Scan(n) = heap_get_start_block(entries, n)
  <1> DEFINE N == Total
             base == [bc |-> 0, bs |-> -1, done |-> FALSE]
             E(x, i) == ScanStep(x, i - 1, n)
             step == [i \in 1..N |-> [x \in Locals |-> E(x, i)]]
             Loop(f) == f = [i \in 0..N |-> IF i = 0 THEN base ELSE E(f[i - 1], i)]
             after == CHOOSE f : Loop(f)
  <1>0. N \in Nat /\ N > 0 /\ Blocks = 0..(N - 1)
    BY CellsFacts
  <1>1. base \in Locals
    <2>1. 0 \in Nat /\ -1 \in Int
      OBVIOUS
    <2> QED
      BY <2>1, Zenon DEF Locals
  <1>2. ASSUME NEW x \in Locals, NEW i \in 1..N
        PROVE  E(x, i) \in Locals
    <2>1. x.bc \in Nat /\ x.bs \in Int
      BY DEF Locals
    <2>2. x.bc + 1 \in Nat /\ (IF x.bs = -1 THEN i - 1 ELSE x.bs) \in Int
      BY <1>0, <2>1
    <2>3. [bc |-> x.bc + 1, bs |-> IF x.bs = -1 THEN i - 1 ELSE x.bs, done |-> x.bc + 1 = n]
                \in Locals
      BY <2>2, Zenon DEF Locals
    <2> QED
      BY <1>1, <2>3, Zenon DEF ScanStep
  <1>3. step \in [1..N -> [Locals -> Locals]]
    <2> HIDE DEF E
    <2> QED
      BY <1>2
  <1>4. PICK f \in [0..N -> Locals] : IsLoop(f, N, base, step)
    <2> HIDE DEF step, N, base
    <2> QED
      BY <1>0, <1>1, <1>3, LoopDefined, Zenon
  <1> HIDE DEF E, base, N
  <1>5. Loop(f)
    <2>1. ASSUME NEW i \in 0..N
          PROVE  f[i] = IF i = 0 THEN base ELSE E(f[i - 1], i)
      <3>1. f[i] = IF i = 0 THEN base ELSE step[i][f[i - 1]]
        BY <1>4 DEF IsLoop
      <3>2. i # 0 => i \in 1..N /\ f[i - 1] \in Locals
        BY <1>0, <1>4
      <3> QED
        BY <3>1, <3>2
    <2> QED
      BY <1>4, <2>1
  <1>6. Loop(after)
    <2> HIDE DEF Loop
    <2> QED
      BY <1>5, Zenon
  <1>7. Scan(n) = after[N].bs
    BY Zenon DEF Scan, E, base, N
  <1> HIDE DEF after
  <1>8. after[0] = base /\ \A i \in 1..N : after[i] = E(after[i - 1], i)
    BY <1>0, <1>6
  <1> DEFINE S == {i \in 0..N : Counting(after[i], i, n) \/ Found(after[i], n)}
  <1>9. 0 \in S
    <2>1. base.bc = 0 /\ base.bs = -1 /\ base.done = FALSE
      BY DEF base
    <2>2. n > 0 => \A b \in Fits(entries, n) : b + n > 0
      BY <1>0 DEF Fits, N
    <2>3. Counting(base, 0, n)
      BY <2>1, <2>2 DEF Counting
    <2> QED
      BY <1>0, <1>8, <2>3
  <1>10. ASSUME NEW i \in 0..(N - 1), i \in S
         PROVE  i + 1 \in S
    <2>1. i + 1 \in 1..N /\ (i + 1) - 1 = i /\ i \in Blocks
      BY <1>0
    <2>2. after[i + 1] = ScanStep(after[i], i, n)
      BY <1>8, <2>1 DEF E
    <2>3. Counting(after[i], i, n) \/ Found(after[i], n)
      BY <1>10
    <2>4. Counting(after[i + 1], i + 1, n) \/ Found(after[i + 1], n)
      BY <2>1, <2>2, <2>3, ScanRound
    <2> QED
      BY <2>1, <2>4
  <1> HIDE DEF S
  <1>11. 0..N \subseteq S
    BY <1>0, <1>9, <1>10, SetInduction, Zenon
  <1>12. Counting(after[N], N, n) \/ Found(after[N], n)
    BY <1>0, <1>11 DEF S
  <1> QED
    BY <1>7, <1>12, ScanEnd DEF N

-----------------------------------------------------------------------------
(* Theorems                                                                *)

\* The inductive invariant holds of every behaviour of the heap.
THEOREM Invariance ==
    ASSUME NonzeroSizes
    PROVE  Spec => []IInv
  <1>1. IInv /\ [Next]_vars => IInv'
    BY NextInv
  <1> QED
    BY <1>1, InitInv, PTL DEF Spec

\* The table and the callers' allocations keep their types.
THEOREM TypeCorrect ==
    ASSUME NonzeroSizes
    PROVE  Spec => []TypeOK
  <1>1. IInv => TypeOK
    BY InvParts
  <1> QED
    BY <1>1, Invariance, PTL

\* kmalloc never hands out a block that is part of a live allocation.
THEOREM ExclusiveAllocations ==
    ASSUME NonzeroSizes
    PROVE  Spec => []Exclusive
  <1>1. IInv => Exclusive
    BY InvParts
  <1> QED
    BY <1>1, Invariance, PTL

\* The table records exactly the live allocations.
THEOREM TableCorrect ==
    ASSUME NonzeroSizes
    PROVE  Spec => []TableMatchesLive
  <1>1. IInv => TableMatchesLive
    BY InvParts
  <1> QED
    BY <1>1, Invariance, PTL

\* kfree clears the bytes of the allocation it is given and no others, and
\* kfree(0) never reaches the table.
THEOREM FreeIsExact ==
    ASSUME NonzeroSizes
    PROVE  Spec => FreeReleasesExactly
  <1> DEFINE A == \A c \in Blocks :
                     live' \subseteq live /\ entries'[c] # entries[c]
                        => \E a \in live \ live' : c \in BlocksOf(a)
  <1>1. IInv /\ [Next]_vars => [A]_vars
    <2> SUFFICES ASSUME IInv, Next, NEW c \in Blocks,
                        live' \subseteq live, entries'[c] # entries[c]
                 PROVE  \E a \in live \ live' : c \in BlocksOf(a)
      OBVIOUS
    <2>1. ASSUME NEW size \in Sizes, Malloc(size) PROVE FALSE
      BY <2>1, MallocInv
    <2>2. ASSUME NEW a \in live, Free(a)
          PROVE  a \in live \ live' /\ c \in BlocksOf(a)
      BY <2>2, FreedRecords DEF IInv, Free
    <2>3. CASE FreeNull
      BY <2>3, FreeNullInv
    <2> QED
      BY <2>1, <2>2, <2>3 DEF Next, MallocFails, vars
  <1>2. Spec => []IInv
    BY Invariance
  <1> QED
    BY <1>1, <1>2, PTL DEF Spec, FreeReleasesExactly

\* kmalloc reaches past the heap's end only when every run of blocks that
\* could hold the request meets an allocation some caller holds.
THEOREM OverrunNeedsFullHeap ==
    ASSUME NonzeroSizes
    PROVE  Spec => OverrunOnlyWhenFull
  <1> DEFINE Meets(b, n) == \E held \in live : BlocksOf(held) \cap (b..(b + n - 1)) # {}
             A == \A a \in live' \ live :
                     ~(BlocksOf(a) \subseteq Blocks) =>
                        \A b \in Blocks : b + a.blocks =< Total => Meets(b, a.blocks)
  <1>1. IInv /\ [Next]_vars => [A]_vars
    <2> SUFFICES ASSUME IInv, Next, NEW a \in live' \ live,
                        ~(BlocksOf(a) \subseteq Blocks),
                        NEW b \in Blocks, b + a.blocks =< Total
                 PROVE  Meets(b, a.blocks)
      OBVIOUS
    <2>1. PICK size \in Sizes : Malloc(size)
      BY DEF Next, MallocFails, Free, FreeNull, vars
    <2> DEFINE n == BlocksFor(size)
               start == heap_get_start_block(entries, n)
    <2>2. n \in Nat /\ n > 0
      BY HeapAssumption DEF NonzeroSizes
    <2>3. start >= 0 /\ a = [ptr |-> heap_block_to_address(start), blocks |-> n]
      BY <2>1 DEF Malloc
    <2>4. a.blocks = n
      BY <2>3
    <2> HIDE DEF n
    <2>5. start \in Blocks
      BY <2>2, <2>3, StartIsFree
    <2>6. BlocksOf(a) = start..(start + n - 1)
      BY <2>2, <2>3, <2>5, AddressRoundTrip, CellsFacts DEF BlocksOf
    <2>7. Fits(entries, n) = {}
      <3> SUFFICES ASSUME Fits(entries, n) # {} PROVE FALSE
        OBVIOUS
      <3>1. start = Min(Fits(entries, n))
        BY <2>2 DEF heap_get_start_block
      <3>2. Fits(entries, n) \subseteq Nat
        BY CellsFacts DEF Fits
      <3>3. start \in Fits(entries, n)
        BY <3>1, <3>2, MinIsLeast
      <3> QED
        BY <2>2, <2>6, <3>3, CellsFacts DEF Fits
    <2>8. PICK i \in b..(b + n - 1) : ~IsFree(entries, i)
      BY <2>4, <2>7 DEF Fits
    <2>9. i \in Blocks
      BY <2>2, <2>4, CellsFacts
    <2>10. entries[i] # {}
      BY <2>8 DEF IsFree
    <2>11. PICK held \in live : i \in BlocksOf(held)
      BY <2>9, <2>10 DEF IInv, Records, Marked
    <2> QED
      BY <2>4, <2>8, <2>11
  <1>2. Spec => []IInv
    BY Invariance
  <1> QED
    BY <1>1, <1>2, PTL DEF Spec, OverrunOnlyWhenFull

\* The loop of heap_get_start_block, left early or run to its end, answers
\* the first run that is long enough, else the short run at the table's end,
\* else -ENOMEM.
THEOREM ScanCorrect == Spec => []ScanAgrees
  <1>1. ScanAgrees
    BY ScanIsDefinition, TotalNat DEF ScanAgrees
  <1> QED
    BY <1>1, PTL

\* The heap implements the abstract allocator of Allocator.tla.
THEOREM Refinement ==
    ASSUME NonzeroSizes
    PROVE  Spec => ImplementsAllocator
  <1> DEFINE Eq == Recorded = Held
  <1>1. Init => Promise!Init
    <2> SUFFICES ASSUME Init PROVE Recorded = {}
      BY DEF Promise!Init
    <2>1. IInv /\ live = {}
      BY InitInv DEF Init
    <2> QED
      BY <2>1, RecordedIsHeld DEF Held
  <1>2. IInv => Eq
    BY RecordedIsHeld
  <1>3. IInv /\ IInv' /\ Eq /\ Eq' /\ [Next]_vars => [Promise!Next]_Recorded
    BY StepRefines
  <1>4. Spec => []IInv
    BY Invariance
  <1> HIDE DEF Eq
  <1> QED
    BY <1>1, <1>2, <1>3, <1>4, PTL DEF Spec, ImplementsAllocator, Promise!Spec
=============================================================================
