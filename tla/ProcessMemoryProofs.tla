------------------------- MODULE ProcessMemoryProofs -------------------------
(***************************************************************************)
(* Proofs about ProcessMemory.tla, for any number of processes, tables of  *)
(* allocations of any size, any heap and any request sizes that ask for at *)
(* least one block.                                                        *)
(***************************************************************************)
EXTENDS ProcessMemory, HeapTableProofs

\* Every request is for at least one block.  A process that asks for none
\* gets a pointer to memory that is not marked taken (run process_zero).
NonzeroSizes == \A s \in Sizes : BlocksFor(s) > 0

Entry == [ptr : Int, size : Nat]

Memory == [entries : [Cells -> SUBSET Flags],
           allocations : [Procs -> [Indexes -> Entry]],
           writable : [Procs -> SUBSET Int]]

\* An entry of an allocation table in use
Used == [ptr : Addresses, size : Request]

AsAllocation(e) == [ptr |-> e.ptr, blocks |-> BlocksFor(e.size)]

\* What process p holds in memory m, and all that is held with the kernel's k
HeldIn(m, p) ==
    {AsAllocation(m.allocations[p][i]) :
        i \in {j \in Indexes : m.allocations[p][j] # NoAllocation}}
AllIn(m, k) == k \cup UNION {HeldIn(m, p) : p \in Procs}

\* The invariant of a memory m with kernel allocations k: the heap's table
\* records what is held, no pointer is listed twice, and a process can write
\* what it holds.
Sound(m, k) ==
    /\ m \in Memory
    /\ \A p \in Procs : \A i \in Indexes : m.allocations[p][i] \in Used \cup {NoAllocation}
    /\ Records(m.entries, AllIn(m, k))
    /\ \A p, q \in Procs : \A i, j \in Indexes :
            /\ m.allocations[p][i].ptr # NULL
            /\ m.allocations[p][i].ptr = m.allocations[q][j].ptr
            => p = q /\ i = j
    /\ \A p \in Procs : \A i \in Indexes : \A a \in k : a.ptr # m.allocations[p][i].ptr
    /\ \A p \in Procs : m.writable[p] = UNION {BlocksOf(a) : a \in HeldIn(m, p)}

\* The inductive invariant.  A process that is not alive holds nothing: the
\* struct process that replaces it starts with an empty table.
IInv ==
    /\ Sound(mem, kernel)
    /\ alive \subseteq Procs
    /\ \A p \in Procs \ alive : \A i \in Indexes : mem.allocations[p][i] = NoAllocation

-----------------------------------------------------------------------------
(* Pages and blocks                                                        *)

\* process_malloc maps the pages of the blocks it took, and process_free
\* unmaps the same ones; paging_map_to refuses neither.
LEMMA PagesAreBlocks ==
    ASSUME NEW e \in Used
    PROVE  /\ Pages(e.ptr, e.size) = BlocksOf(AsAllocation(e))
           /\ Mappable(e.ptr, e.size)
  <1> DEFINE ptr == e.ptr
             size == e.size
  <1>1. /\ BlockSize \in Nat \ {0} /\ HeapStart \in Nat /\ HeapStart \in Int
        /\ HeapStart % BlockSize = 0
    BY HeapAssumption
  <1>2. PICK b \in Blocks : ptr = heap_block_to_address(b)
    BY DEF Used, Addresses
  <1>3. size \in Request /\ b \in Int
    BY CellsFacts DEF Used
  <1>4. PICK q \in Nat, r \in 0..(BlockSize - 1) :
            /\ size = q * BlockSize + r
            /\ BlocksFor(size) = IF r = 0 THEN q ELSE q + 1
    BY <1>3, RoundedUp
  <1>5. PICK h \in Int, z \in 0..(BlockSize - 1) :
            HeapStart = h * BlockSize + z /\ HeapStart % BlockSize = z
    BY <1>1, DivMod, Zenon
  <1>6. ptr = (h + b) * BlockSize
    BY <1>1, <1>2, <1>3, <1>5, Z3 DEF heap_block_to_address
  <1> HIDE DEF ptr, size
  <1>7. (ptr + size) % BlockSize = r
    <2>1. ptr + size = (h + b + q) * BlockSize + r
      BY <1>1, <1>3, <1>4, <1>5, <1>6, Z3
    <2>2. ptr + size \in Int /\ h + b + q \in Int
      BY <1>1, <1>3, <1>4, <1>5, <2>1, Z3
    <2> QED
      BY <1>1, <2>1, <2>2, ModUnique
  <1> DEFINE n == BlocksFor(size)
  <1>8. n \in Nat
    BY <1>4
  <1>9. /\ ptr \in Nat /\ size \in Nat /\ Word \in Nat \ {0}
        /\ ptr + size =< ptr + n * BlockSize /\ ptr + n * BlockSize < Word
    <2>1. ptr \in Nat /\ size \in Nat /\ Word \in Nat \ {0}
      <3>1. HeapStart \in Nat /\ b \in Nat /\ Word \in Nat \ {0} /\ size \in Nat
        BY <1>3, HeapAssumption, CellsFacts DEF Request
      <3> QED
        BY <1>1, <1>2, <3>1, Z3 DEF heap_block_to_address, ptr
    <2>2. size =< n * BlockSize
      <3>1. n = IF r = 0 THEN q ELSE q + 1
        BY <1>4
      <3> HIDE DEF n
      <3> QED
        BY <1>1, <1>4, <3>1, Z3
    <2>3. b + n < Total + Slack /\ b \in Nat /\ Total + Slack \in Nat
      <3>1. b \in 0..(Total - 1) /\ n \in 1..Slack /\ Total \in Nat /\ Slack \in Nat
        BY <1>3, HeapAssumption, CellsFacts DEF Blocks, Request
      <3> HIDE DEF n
      <3> QED
        BY <3>1
    <2>4. HeapStart + (Total + Slack) * BlockSize < Word
      BY ProcessMemoryAssumption DEF heap_block_to_address
    <2>5. ptr = HeapStart + b * BlockSize
      BY <1>2 DEF heap_block_to_address
    <2> HIDE DEF n
    <2>6. PICK top \in Nat : top = Total + Slack
      BY <2>3
    <2>7. (b + n) * BlockSize =< top * BlockSize
      BY <1>1, <1>8, <2>3, <2>6, Z3
    <2>8. HeapStart + (b + n) * BlockSize < Word
      BY <1>1, <1>8, <2>1, <2>3, <2>4, <2>6, <2>7, Z3
    <2>9. ptr + n * BlockSize = HeapStart + (b + n) * BlockSize
      BY <1>1, <1>8, <2>3, <2>5, Z3
    <2>10. n * BlockSize \in Nat
      BY <1>1, <1>8, Z3
    <2>11. ptr + n * BlockSize < Word
      BY <2>8, <2>9
    <2> QED
      BY <2>1, <2>2, <2>10, <2>11
  <1>10. EndOf(ptr, size) = ptr + n * BlockSize
    <2>1. n * BlockSize \in Nat
      <3> HIDE DEF n
      <3> QED
        BY <1>1, <1>8, Z3
    <2>2. ptr + size \in 0..(Word - 1) /\ ptr + n * BlockSize \in 0..(Word - 1)
      <3> HIDE DEF n
      <3> QED
        BY <1>9, <2>1
    <2>3. (ptr + size) % Word = ptr + size /\ (ptr + n * BlockSize) % Word = ptr + n * BlockSize
      <3> HIDE DEF n
      <3> QED
        BY <1>9, <2>2, SmallMod
    <2>4. CASE r = 0
      <3>1. paging_align_address(ptr + size) = ptr + size
        BY <1>7, <2>4 DEF paging_align_address
      <3>2. size = n * BlockSize
        BY <1>1, <1>4, <2>4, Z3
      <3> QED
        BY <2>3, <3>1, <3>2 DEF EndOf
    <2>5. CASE r # 0
      <3>1. paging_align_address(ptr + size) = (ptr + size + BlockSize - r) % Word
        BY <1>7, <2>5 DEF paging_align_address
      <3>2. n = q + 1
        BY <1>4, <2>5
      <3> HIDE DEF n
      <3>3. ptr + size + BlockSize - r = ptr + n * BlockSize
        BY <1>1, <1>4, <1>9, <3>2, Z3
      <3> QED
        BY <2>3, <3>1, <3>3 DEF EndOf
    <2> QED
      BY <2>4, <2>5
  <1> HIDE DEF n
  <1>11. n * BlockSize \in Nat /\ (n * BlockSize) \div BlockSize = n
    BY <1>1, <1>8, Multiple, Z3
  <1>12. EndOf(ptr, size) - ptr = n * BlockSize /\ EndOf(ptr, size) >= ptr
    BY <1>9, <1>10, <1>11
  <1>13. Pages(ptr, size) = heap_address_to_block(ptr)..(heap_address_to_block(ptr) + n - 1)
    BY <1>11, <1>12 DEF Pages
  <1> QED
    BY <1>12, <1>13 DEF BlocksOf, AsAllocation, Mappable, n, ptr, size

\* The range of an unused entry ends where it starts.
LEMMA UnusedEnd == EndOf(NULL, 0) = 0 /\ Mappable(NULL, 0)
  <1>1. BlockSize \in Nat \ {0} /\ Word \in Nat \ {0} /\ NULL = 0
    BY HeapAssumption DEF NULL
  <1>2. 0 % BlockSize = 0 /\ 0 % Word = 0
    BY <1>1, Z3
  <1>3. EndOf(NULL, 0) = 0
    BY <1>1, <1>2 DEF EndOf, paging_align_address
  <1> QED
    BY <1>1, <1>3 DEF Mappable

\* What an entry in use stands for
LEMMA UsedFacts ==
    ASSUME NEW e \in Used
    PROVE  /\ e.ptr # NULL
           /\ e # NoAllocation
           /\ AsAllocation(e) \in Allocation
           /\ AsAllocation(e).blocks >= 1
           /\ AsAllocation(e).ptr = e.ptr
           /\ heap_address_to_block(e.ptr) \in BlocksOf(AsAllocation(e))
  <1>1. PICK b \in Blocks : e.ptr = heap_block_to_address(b)
    BY DEF Used, Addresses
  <1>2. e.ptr # NULL
    <2>1. BlockSize \in Nat \ {0} /\ HeapStart \in Nat \ {0} /\ b \in Nat
      BY HeapAssumption, CellsFacts
    <2> QED
      BY <1>1, <2>1, Z3 DEF heap_block_to_address, NULL
  <1>3. BlocksFor(e.size) \in 1..Slack /\ Slack \in Nat
    BY HeapAssumption DEF Used, Request
  <1>4. AsAllocation(e) \in Allocation /\ AsAllocation(e).blocks >= 1
    BY <1>1, <1>3 DEF AsAllocation, Allocation
  <1>5. heap_address_to_block(e.ptr) \in BlocksOf(AsAllocation(e))
    <2>1. AsAllocation(e).ptr = e.ptr
      BY DEF AsAllocation
    <2> QED
      BY <1>4, <2>1, AllocationFacts, CellsFacts
  <1> QED
    BY <1>2, <1>4, <1>5 DEF AsAllocation, NoAllocation

-----------------------------------------------------------------------------
(* process_malloc                                                          *)

\* The entries in use are the ones with a pointer.
LEMMA EntryFacts ==
    ASSUME NEW m, NEW k, Sound(m, k), NEW p \in Procs, NEW i \in Indexes
    PROVE  /\ m.allocations[p][i] \in Used \cup {NoAllocation}
           /\ m.allocations[p][i] # NoAllocation <=> m.allocations[p][i] \in Used
           /\ m.allocations[p][i] # NoAllocation <=> m.allocations[p][i].ptr # NULL
           /\ m.allocations[p][i] # NoAllocation =>
                AsAllocation(m.allocations[p][i]) \in HeldIn(m, p)
  <1>1. m.allocations[p][i] \in Used \cup {NoAllocation}
    BY DEF Sound
  <1>2. NoAllocation.ptr = NULL
    BY DEF NoAllocation
  <1>3. m.allocations[p][i] # NoAllocation =>
                AsAllocation(m.allocations[p][i]) \in HeldIn(m, p)
    BY DEF HeldIn
  <1> QED
    BY <1>1, <1>2, <1>3, UsedFacts

\* The first free entry of a table
LEMMA FreeIndex ==
    ASSUME NEW m, NEW p, FreeIndexes(m, p) # {}
    PROVE  Min(FreeIndexes(m, p)) \in Indexes /\ m.allocations[p][Min(FreeIndexes(m, p))].ptr = NULL
  <1>1. FreeIndexes(m, p) \subseteq Nat
    BY ProcessMemoryAssumption DEF FreeIndexes, Indexes
  <1>2. Min(FreeIndexes(m, p)) \in FreeIndexes(m, p)
    BY <1>1, MinIsLeast
  <1> QED
    BY <1>2 DEF FreeIndexes

\* A table with an entry added that lists a new allocation
LEMMA AddedHeld ==
    ASSUME NEW m \in Memory, NEW o, NEW p \in Procs, NEW f \in Indexes, NEW e \in Used,
           m.allocations[p][f] = NoAllocation,
           o.allocations = [m.allocations EXCEPT ![p][f] = e]
    PROVE  /\ HeldIn(o, p) = HeldIn(m, p) \cup {AsAllocation(e)}
           /\ \A q \in Procs : q # p => HeldIn(o, q) = HeldIn(m, q)
           /\ \A k : AllIn(o, k) = AllIn(m, k) \cup {AsAllocation(e)}
  <1>1. m.allocations \in [Procs -> [Indexes -> Entry]]
    BY DEF Memory
  <1>2. /\ o.allocations[p][f] = e
        /\ \A i \in Indexes : i # f => o.allocations[p][i] = m.allocations[p][i]
        /\ \A q \in Procs : q # p => o.allocations[q] = m.allocations[q]
    BY <1>1
  <1>3. e # NoAllocation
    BY UsedFacts
  <1>4. HeldIn(o, p) = HeldIn(m, p) \cup {AsAllocation(e)}
    <2>1. ASSUME NEW a \in HeldIn(o, p) PROVE a \in HeldIn(m, p) \cup {AsAllocation(e)}
      <3>1. PICK i \in Indexes : o.allocations[p][i] # NoAllocation
                                 /\ a = AsAllocation(o.allocations[p][i])
        BY DEF HeldIn
      <3> QED
        BY <1>2, <3>1, Zenon DEF HeldIn
    <2>2. ASSUME NEW a \in HeldIn(m, p) PROVE a \in HeldIn(o, p)
      <3>1. PICK i \in Indexes : m.allocations[p][i] # NoAllocation
                                 /\ a = AsAllocation(m.allocations[p][i])
        BY DEF HeldIn
      <3>2. i # f
        BY <3>1
      <3> QED
        BY <1>2, <3>1, <3>2, Zenon DEF HeldIn
    <2>3. AsAllocation(e) \in HeldIn(o, p)
      BY <1>2, <1>3, Zenon DEF HeldIn
    <2> QED
      BY <2>1, <2>2, <2>3
  <1>5. \A q \in Procs : q # p => HeldIn(o, q) = HeldIn(m, q)
    BY <1>2 DEF HeldIn
  <1>6. ASSUME NEW k PROVE AllIn(o, k) = AllIn(m, k) \cup {AsAllocation(e)}
    <2>1. ASSUME NEW a \in AllIn(o, k) PROVE a \in AllIn(m, k) \cup {AsAllocation(e)}
      <3>1. CASE a \in k
        BY <3>1 DEF AllIn
      <3>2. ASSUME NEW q \in Procs, a \in HeldIn(o, q)
            PROVE  a \in AllIn(m, k) \cup {AsAllocation(e)}
        <4>1. a \in HeldIn(m, q) \cup {AsAllocation(e)}
          BY <1>4, <1>5, <3>2
        <4> QED
          BY <4>1 DEF AllIn
      <3> QED
        BY <3>1, <3>2 DEF AllIn
    <2>2. ASSUME NEW a \in AllIn(m, k) \cup {AsAllocation(e)} PROVE a \in AllIn(o, k)
      <3>1. CASE a \in k
        BY <3>1 DEF AllIn
      <3>2. ASSUME NEW q \in Procs, a \in HeldIn(m, q)
            PROVE  a \in AllIn(o, k)
        <4>1. a \in HeldIn(o, q)
          BY <1>4, <1>5, <3>2
        <4> QED
          BY <4>1 DEF AllIn
      <3>3. CASE a = AsAllocation(e)
        <4>1. a \in HeldIn(o, p)
          BY <1>4, <3>3
        <4> QED
          BY <4>1 DEF AllIn
      <3> QED
        BY <3>1, <3>2, <3>3 DEF AllIn
    <2> QED
      BY <2>1, <2>2
  <1> QED
    BY <1>4, <1>5, <1>6

\* The outcomes o of process_malloc, with the scan's answer start: the heap is
\* full, the process's table is full or paging_map_to refuses, or the
\* allocation is entered in the table
MallocOutcome(m, p, size, start, o) ==
    \/ start < 0 /\ o = [mem |-> m, ptr |-> NULL]
    \/ /\ start >= 0 /\ (FreeIndexes(m, p) = {} \/ ~Mappable(heap_block_to_address(start), size))
       /\ o = [mem |-> [entries |-> heap_mark_blocks_free(
                            heap_mark_blocks_taken(m.entries, start, BlocksFor(size)),
                            heap_address_to_block(heap_block_to_address(start))),
                        allocations |-> m.allocations,
                        writable |-> m.writable],
               ptr |-> NULL]
    \/ /\ start >= 0 /\ FreeIndexes(m, p) # {}
       /\ o = [mem |-> [entries |-> heap_mark_blocks_taken(m.entries, start, BlocksFor(size)),
                        allocations |-> [m.allocations EXCEPT ![p][Min(FreeIndexes(m, p))] =
                            [ptr |-> heap_block_to_address(start), size |-> size]],
                        writable |-> [m.writable EXCEPT ![p] =
                            @ \cup Pages(heap_block_to_address(start), size)]],
               ptr |-> heap_block_to_address(start)]

LEMMA MallocCases ==
    ASSUME NEW m \in Memory, NEW p \in Procs, NEW size \in Nat, BlocksFor(size) \in Nat
    PROVE  MallocOutcome(m, p, size, heap_get_start_block(m.entries, BlocksFor(size)),
                         process_malloc(m, p, size))
  <1> SUFFICES ASSUME NEW start, start = heap_get_start_block(m.entries, BlocksFor(size)),
                      NEW o, o = process_malloc(m, p, size)
               PROVE  MallocOutcome(m, p, size, start, o)
    OBVIOUS
  <1>1. start \in Int
    BY StartType, CellsFacts DEF ENOMEM
  <1>2. m = [entries |-> m.entries, allocations |-> m.allocations, writable |-> m.writable]
    BY DEF Memory
  <1>3. CASE start < 0
    <2>1. ~(start >= 0)
      BY <1>1, <1>3
    <2>2. o = [mem |-> m, ptr |-> NULL]
      BY <1>3, <2>1, Zenon DEF process_malloc
    <2> QED
      BY <1>3, <2>2, Zenon DEF MallocOutcome
  <1>4. CASE start >= 0 /\ (FreeIndexes(m, p) = {} \/ ~Mappable(heap_block_to_address(start), size))
    <2>1. ~(start < 0)
      BY <1>1, <1>4
    <2>2. o = [mem |-> [m EXCEPT !.entries = GivenBack(
                    heap_mark_blocks_taken(m.entries, start, BlocksFor(size)),
                    heap_block_to_address(start))],
               ptr |-> NULL]
      BY <1>4, <2>1, Zenon DEF process_malloc
    <2> QED
      <3>1. [m EXCEPT !.entries = GivenBack(
                    heap_mark_blocks_taken(m.entries, start, BlocksFor(size)),
                    heap_block_to_address(start))] =
                [entries |-> heap_mark_blocks_free(
                    heap_mark_blocks_taken(m.entries, start, BlocksFor(size)),
                    heap_address_to_block(heap_block_to_address(start))),
                 allocations |-> m.allocations, writable |-> m.writable]
        BY <1>2 DEF GivenBack
      <3> QED
        BY <1>4, <2>2, <3>1, Zenon DEF MallocOutcome
  <1>5. CASE start >= 0 /\ ~(FreeIndexes(m, p) = {} \/ ~Mappable(heap_block_to_address(start), size))
    <2>1. ~(start < 0)
      BY <1>1, <1>5
    <2>2. o = [mem |-> [entries |-> heap_mark_blocks_taken(m.entries, start, BlocksFor(size)),
                        allocations |-> [m.allocations EXCEPT ![p][Min(FreeIndexes(m, p))] =
                            [ptr |-> heap_block_to_address(start), size |-> size]],
                        writable |-> [m.writable EXCEPT ![p] =
                            @ \cup Pages(heap_block_to_address(start), size)]],
               ptr |-> heap_block_to_address(start)]
      BY <1>5, <2>1, Zenon DEF process_malloc
    <2> QED
      BY <1>5, <2>2, Zenon DEF MallocOutcome
  <1> QED
    BY <1>1, <1>3, <1>4, <1>5

\* process_malloc leads from memories to memories.
LEMMA MallocType ==
    ASSUME NEW m \in Memory, NEW p \in Procs, NEW size \in Nat, BlocksFor(size) \in Nat
    PROVE  process_malloc(m, p, size) \in [mem : Memory, ptr : Int]
  <1> DEFINE start == heap_get_start_block(m.entries, BlocksFor(size))
             o == process_malloc(m, p, size)
             ptr == heap_block_to_address(start)
             f == Min(FreeIndexes(m, p))
             taken == heap_mark_blocks_taken(m.entries, start, BlocksFor(size))
  <1>1. start \in Int
    BY StartType, CellsFacts DEF ENOMEM
  <1>2. ptr \in Int /\ BlockSize \in Nat \ {0} /\ HeapStart \in Nat
    <2>1. BlockSize \in Int /\ HeapStart \in Int
      BY HeapAssumption
    <2> HIDE DEF start
    <2> QED
      BY <1>1, <2>1, HeapAssumption, Z3 DEF heap_block_to_address
  <1>3. /\ m.entries \in [Cells -> SUBSET Flags]
        /\ m.allocations \in [Procs -> [Indexes -> Entry]]
        /\ m.writable \in [Procs -> SUBSET Int]
    BY DEF Memory
  <1> HIDE DEF start, ptr, taken
  <1>4. taken \in [Cells -> SUBSET Flags]
    BY <1>3, TableType DEF taken
  <1>5. CASE start < 0 /\ o = [mem |-> m, ptr |-> NULL]
    BY <1>5 DEF NULL
  <1>6. CASE o = [mem |-> [entries |-> heap_mark_blocks_free(taken, heap_address_to_block(ptr)),
                           allocations |-> m.allocations, writable |-> m.writable],
                  ptr |-> NULL]
    <2>1. heap_mark_blocks_free(taken, heap_address_to_block(ptr)) \in [Cells -> SUBSET Flags]
      BY <1>4, TableType
    <2> QED
      BY <1>3, <1>6, <2>1 DEF Memory, NULL
  <1>7. CASE /\ FreeIndexes(m, p) # {}
             /\ o = [mem |-> [entries |-> taken,
                              allocations |-> [m.allocations EXCEPT ![p][f] =
                                                    [ptr |-> ptr, size |-> size]],
                              writable |-> [m.writable EXCEPT ![p] = @ \cup Pages(ptr, size)]],
                     ptr |-> ptr]
    <2>1. Pages(ptr, size) \subseteq Int
      <3>1. heap_address_to_block(ptr) \in Int
        BY <1>2, Z3 DEF heap_address_to_block
      <3>2. Word \in Nat \ {0}
        BY HeapAssumption
      <3>3. \A x \in Int : paging_align_address(x) \in Int /\ x % Word \in Int
        BY <1>2, <3>2, Z3 DEF paging_align_address
      <3>a. EndOf(ptr, size) - ptr \in Int
        BY <1>2, <3>3 DEF EndOf
      <3>4. (EndOf(ptr, size) - ptr) \div BlockSize \in Int
        BY <1>2, <3>a, Z3
      <3> QED
        BY <3>1, <3>4 DEF Pages
    <2>2. f \in Indexes
      BY <1>7, FreeIndex
    <2>3. [ptr |-> ptr, size |-> size] \in Entry
      BY <1>2 DEF Entry
    <2>4. [m.allocations EXCEPT ![p][f] = [ptr |-> ptr, size |-> size]]
                \in [Procs -> [Indexes -> Entry]]
      BY <1>3, <2>2, <2>3
    <2>5. [m.writable EXCEPT ![p] = @ \cup Pages(ptr, size)] \in [Procs -> SUBSET Int]
      BY <1>3, <2>1
    <2>6. o.mem \in Memory /\ o.ptr = ptr /\ o = [mem |-> o.mem, ptr |-> o.ptr]
      <3> DEFINE A == [m.allocations EXCEPT ![p][f] = [ptr |-> ptr, size |-> size]]
                 W == [m.writable EXCEPT ![p] = @ \cup Pages(ptr, size)]
      <3>1. o = [mem |-> [entries |-> taken, allocations |-> A, writable |-> W], ptr |-> ptr]
        BY <1>7
      <3> HIDE DEF A, W, o
      <3>2. A \in [Procs -> [Indexes -> Entry]] /\ W \in [Procs -> SUBSET Int]
        BY <2>4, <2>5 DEF A, W
      <3> QED
        BY <1>4, <3>1, <3>2 DEF Memory
    <2> HIDE DEF o
    <2>7. o \in [mem : Memory, ptr : Int]
      BY <1>2, <2>6
    <2> QED
      BY <2>7 DEF o
  <1> QED
    <2>1. MallocOutcome(m, p, size, start, o)
      BY MallocCases DEF start
    <2> QED
      BY <1>5, <1>6, <1>7, <2>1, Zenon DEF MallocOutcome, ptr, taken

\* process_malloc, whether it succeeds, finds the heap full or finds the
\* process's table full, keeps the invariant and the other tables.
LEMMA MallocSound ==
    ASSUME NEW m, NEW k, Sound(m, k), NEW p \in Procs, NEW size \in Request
    PROVE  /\ Sound(process_malloc(m, p, size).mem, k)
           /\ \A q \in Procs : q # p =>
                process_malloc(m, p, size).mem.allocations[q] = m.allocations[q]
  <1> DEFINE n == BlocksFor(size)
             start == heap_get_start_block(m.entries, n)
             ptr == heap_block_to_address(start)
             o == process_malloc(m, p, size)
             f == Min(FreeIndexes(m, p))
             e == [ptr |-> ptr, size |-> size]
             new == [ptr |-> ptr, blocks |-> n]
             taken == heap_mark_blocks_taken(m.entries, start, n)
             A == [m.allocations EXCEPT ![p][f] = e]
             W == [m.writable EXCEPT ![p] = @ \cup Pages(ptr, size)]
  <1>1. m \in Memory /\ size \in Nat /\ n \in 1..Slack /\ n \in Nat
    BY HeapAssumption DEF Sound, Request
  <1>2. o \in [mem : Memory, ptr : Int]
    BY <1>1, MallocType
  <1>3. \/ start < 0 /\ o = [mem |-> m, ptr |-> NULL]
        \/ /\ start >= 0
           /\ o = [mem |-> [entries |-> heap_mark_blocks_free(taken, heap_address_to_block(ptr)),
                            allocations |-> m.allocations, writable |-> m.writable],
                   ptr |-> NULL]
        \/ /\ start >= 0 /\ FreeIndexes(m, p) # {}
           /\ o = [mem |-> [entries |-> taken, allocations |-> A, writable |-> W], ptr |-> ptr]
    <2>1. MallocOutcome(m, p, size, start, o)
      BY <1>1, MallocCases
    <2> QED
      BY <2>1, Zenon DEF MallocOutcome
  <1>4. start >= 0 =>
           /\ Records(taken, AllIn(m, k) \cup {new})
           /\ new \in Allocation
           /\ start \in Blocks
           /\ heap_address_to_block(ptr) = start
           /\ \A a \in AllIn(m, k) : BlocksOf(a) \cap BlocksOf(new) = {} /\ a.ptr # ptr
    <2> HIDE DEF n
    <2>1. new.ptr = ptr
      OBVIOUS
    <2> HIDE DEF start
    <2>2. Records(m.entries, AllIn(m, k))
      BY DEF Sound
    <2> HIDE DEF new, ptr
    <2> QED
      BY <1>1, <2>1, <2>2, TakenRecords DEF start, ptr, new
  <1> HIDE DEF n, start, ptr, new, o, taken, A, W
  <1>5. CASE o.mem = m
    BY <1>5 DEF o
  <1>6. CASE /\ start >= 0
             /\ o = [mem |-> [entries |-> heap_mark_blocks_free(taken, heap_address_to_block(ptr)),
                              allocations |-> m.allocations, writable |-> m.writable],
                     ptr |-> NULL]
    <2>1. new \notin AllIn(m, k) /\ new.ptr = ptr
      BY <1>4, <1>6 DEF new
    <2>2. Records(heap_mark_blocks_free(taken, heap_address_to_block(ptr)),
                  (AllIn(m, k) \cup {new}) \ {new})
      BY <1>4, <1>6, <2>1, FreedRecords
    <2>3. (AllIn(m, k) \cup {new}) \ {new} = AllIn(m, k)
      BY <2>1
    <2>4. /\ o.mem.entries = heap_mark_blocks_free(taken, heap_address_to_block(ptr))
          /\ o.mem.allocations = m.allocations
          /\ o.mem.writable = m.writable
      BY <1>6
    <2>5. /\ AllIn(o.mem, k) = AllIn(m, k)
          /\ \A q \in Procs : HeldIn(o.mem, q) = HeldIn(m, q)
      BY <2>4 DEF AllIn, HeldIn
    <2>6. o.mem \in Memory
      BY <1>2
    <2>7. Records(o.mem.entries, AllIn(o.mem, k))
      BY <2>2, <2>3, <2>4, <2>5
    <2>8. Sound(o.mem, k)
      BY <2>4, <2>5, <2>6, <2>7 DEF Sound
    <2> QED
      BY <2>4, <2>8 DEF o
  <1>7. CASE /\ start >= 0 /\ FreeIndexes(m, p) # {}
             /\ o = [mem |-> [entries |-> taken, allocations |-> A, writable |-> W], ptr |-> ptr]
    <2>1. o.mem.entries = taken /\ o.mem.allocations = A /\ o.mem.writable = W /\ o.mem \in Memory
      BY <1>2, <1>7
    <2>2. f \in Indexes /\ m.allocations[p][f] = NoAllocation
      BY <1>7, FreeIndex, EntryFacts
    <2>3. e \in Used /\ AsAllocation(e) = new /\ e.ptr = ptr
      BY <1>4, <1>7 DEF Used, Addresses, AsAllocation, new, n, ptr
    <2> HIDE DEF e, f
    <2>4. /\ m.allocations \in [Procs -> [Indexes -> Entry]]
          /\ m.writable \in [Procs -> SUBSET Int]
      BY <1>1 DEF Memory
    <2>5. /\ HeldIn(o.mem, p) = HeldIn(m, p) \cup {new}
          /\ \A q \in Procs : q # p => HeldIn(o.mem, q) = HeldIn(m, q)
          /\ AllIn(o.mem, k) = AllIn(m, k) \cup {new}
      BY <1>1, <2>1, <2>2, <2>3, AddedHeld DEF A
    <2>6. /\ A[p][f] = e
          /\ \A i \in Indexes : i # f => A[p][i] = m.allocations[p][i]
          /\ \A q \in Procs : q # p => A[q] = m.allocations[q]
      BY <2>2, <2>4 DEF A
    <2>7. /\ W[p] = m.writable[p] \cup Pages(ptr, size)
          /\ \A q \in Procs : q # p => W[q] = m.writable[q]
      BY <2>4 DEF W
    <2>8. Pages(ptr, size) = BlocksOf(new)
      BY <2>3, PagesAreBlocks DEF e
    <2>9. Records(o.mem.entries, AllIn(o.mem, k))
      BY <1>4, <1>7, <2>1, <2>5
    <2>10. ASSUME NEW q \in Procs, NEW i \in Indexes
           PROVE  /\ A[q][i] \in Used \cup {NoAllocation}
                  /\ A[q][i] = (IF q = p /\ i = f THEN e ELSE m.allocations[q][i])
                  /\ m.allocations[q][i].ptr # ptr
      <3>1. A[q][i] = (IF q = p /\ i = f THEN e ELSE m.allocations[q][i])
        BY <2>6
      <3>2. m.allocations[q][i] \in Used \cup {NoAllocation}
        BY EntryFacts
      <3>3. m.allocations[q][i].ptr # ptr
        <4>1. CASE m.allocations[q][i] = NoAllocation
          BY <2>3, <4>1, UsedFacts DEF NoAllocation
        <4>2. CASE m.allocations[q][i] # NoAllocation
          <5>1. AsAllocation(m.allocations[q][i]) \in AllIn(m, k)
            BY <4>2, EntryFacts DEF AllIn
          <5> QED
            BY <1>4, <1>7, <5>1 DEF AsAllocation
        <4> QED
          BY <4>1, <4>2
      <3> QED
        BY <2>3, <3>1, <3>2, <3>3
    <2>11. ASSUME NEW q \in Procs, NEW r \in Procs, NEW i \in Indexes, NEW j \in Indexes,
                  A[q][i].ptr # NULL, A[q][i].ptr = A[r][j].ptr
           PROVE  q = r /\ i = j
      <3>1. m.allocations[q][i].ptr # NULL /\ m.allocations[q][i].ptr = m.allocations[r][j].ptr
                => q = r /\ i = j
        BY DEF Sound
      <3> QED
        BY <2>3, <2>10, <2>11, <3>1
    <2>12. ASSUME NEW q \in Procs, NEW i \in Indexes, NEW a \in k
           PROVE  a.ptr # A[q][i].ptr
      <3>1. a.ptr # m.allocations[q][i].ptr
        BY DEF Sound
      <3>2. a.ptr # ptr
        BY <1>4, <1>7 DEF AllIn
      <3> QED
        BY <2>3, <2>10, <3>1, <3>2
    <2>13. ASSUME NEW q \in Procs
           PROVE  W[q] = UNION {BlocksOf(a) : a \in HeldIn(o.mem, q)}
      <3>1. m.writable[q] = UNION {BlocksOf(a) : a \in HeldIn(m, q)}
        BY DEF Sound
      <3>2. CASE q # p
        BY <2>5, <2>7, <3>1, <3>2
      <3>3. CASE q = p
        <4>1. UNION {BlocksOf(a) : a \in HeldIn(m, p) \cup {new}} =
                (UNION {BlocksOf(a) : a \in HeldIn(m, p)}) \cup BlocksOf(new)
          OBVIOUS
        <4> QED
          BY <2>5, <2>7, <2>8, <3>1, <3>3, <4>1
      <3> QED
        BY <3>2, <3>3
    <2>14. Sound(o.mem, k)
      BY <2>1, <2>9, <2>10, <2>11, <2>12, <2>13 DEF Sound
    <2> QED
      BY <2>1, <2>6, <2>14 DEF o
  <1> QED
    BY <1>3, <1>5, <1>6, <1>7

-----------------------------------------------------------------------------
(* process_free                                                            *)

LEMMA FreeType ==
    ASSUME NEW m \in Memory, NEW p \in Procs, NEW ptr
    PROVE  process_free(m, p, ptr) \in Memory
  <1> DEFINE found == Matching(m, p, ptr)
             A == [m.allocations EXCEPT ![p] =
                      [i \in Indexes |-> IF i \in found THEN NoAllocation ELSE @[i]]]
             W == [m.writable EXCEPT ![p] =
                      Unmapped(@, ptr, m.allocations[p][Min(found)].size)]
             u == heap_mark_blocks_free(m.entries, heap_address_to_block(ptr))
  <1>1. /\ m.entries \in [Cells -> SUBSET Flags]
        /\ m.allocations \in [Procs -> [Indexes -> Entry]]
        /\ m.writable \in [Procs -> SUBSET Int]
    BY DEF Memory
  <1>2. NoAllocation \in Entry
    BY DEF NoAllocation, Entry, NULL
  <1>3. A \in [Procs -> [Indexes -> Entry]]
    BY <1>1, <1>2
  <1>4. W \in [Procs -> SUBSET Int]
    BY <1>1 DEF Unmapped
  <1>5. u \in [Cells -> SUBSET Flags]
    BY <1>1, TableType
  <1>6. process_free(m, p, ptr) = IF found = {} \/ ~Mappable(ptr, m.allocations[p][Min(found)].size)
                                  THEN m
                                  ELSE [entries |-> u, allocations |-> A, writable |-> W]
    BY Zenon DEF process_free
  <1> HIDE DEF A, W, u, found
  <1> QED
    BY <1>3, <1>4, <1>5, <1>6 DEF Memory

\* process_free of a pointer in the process's table releases that allocation
\* alone; of a null pointer, it leaves the process's memory as it is; of any
\* other pointer, it does nothing.
LEMMA FreeSound ==
    ASSUME NEW m, NEW k, Sound(m, k), NEW p \in Procs, NEW ptr
    PROVE  /\ Sound(process_free(m, p, ptr), k)
           /\ \A q \in Procs : q # p =>
                process_free(m, p, ptr).allocations[q] = m.allocations[q]
           /\ \A i \in Indexes :
                process_free(m, p, ptr).allocations[p][i] =
                    IF m.allocations[p][i].ptr = ptr THEN NoAllocation
                                                     ELSE m.allocations[p][i]
  <1> DEFINE found == Matching(m, p, ptr)
             size == m.allocations[p][Min(found)].size
             A == [m.allocations EXCEPT ![p] =
                      [i \in Indexes |-> IF i \in found THEN NoAllocation ELSE @[i]]]
             W == [m.writable EXCEPT ![p] = Unmapped(@, ptr, size)]
             u == heap_mark_blocks_free(m.entries, heap_address_to_block(ptr))
             o == process_free(m, p, ptr)
  <1>1. /\ m \in Memory
        /\ m.allocations \in [Procs -> [Indexes -> Entry]]
        /\ m.writable \in [Procs -> SUBSET Int]
        /\ Records(m.entries, AllIn(m, k))
    BY DEF Memory, Sound
  <1>2. o \in Memory
    BY <1>1, FreeType
  <1>3. o = IF found = {} \/ ~Mappable(ptr, size) THEN m
            ELSE [entries |-> u, allocations |-> A, writable |-> W]
    BY Zenon DEF process_free
  <1>4. /\ \A i \in Indexes : A[p][i] = IF m.allocations[p][i].ptr = ptr
                                       THEN NoAllocation ELSE m.allocations[p][i]
        /\ \A q \in Procs : q # p => A[q] = m.allocations[q]
    BY <1>1 DEF Matching
  <1>5. /\ W[p] = m.writable[p] \ Pages(ptr, size)
        /\ \A q \in Procs : q # p => W[q] = m.writable[q]
    BY <1>1 DEF Unmapped
  <1>6. found # {} => Min(found) \in Indexes /\ m.allocations[p][Min(found)].ptr = ptr
    <2>1. found \subseteq Nat /\ found \subseteq Indexes
      BY ProcessMemoryAssumption DEF Matching, Indexes
    <2> HIDE DEF found
    <2>2. found # {} => Min(found) \in found
      BY <2>1, MinIsLeast
    <2> QED
      BY <2>1, <2>2 DEF found, Matching
  <1>7. \A i \in Indexes : i \in found <=> m.allocations[p][i].ptr = ptr
    BY DEF Matching
  <1> HIDE DEF A, W, u, o, found
  <1>8. CASE found = {}
    BY <1>3, <1>7, <1>8 DEF o
  <1>9. CASE found # {}
    <2>1. o.entries = u /\ o.allocations = A /\ o.writable = W
      <3>1. Mappable(ptr, size)
        <4> DEFINE e == m.allocations[p][Min(found)]
        <4>1. e.ptr = ptr /\ e.size = size /\ e \in Used \cup {NoAllocation}
          BY <1>6, <1>9, EntryFacts
        <4> HIDE DEF e, size
        <4>2. CASE e \in Used
          BY <4>1, <4>2, PagesAreBlocks
        <4>3. CASE e = NoAllocation
          <5>1. ptr = NULL /\ size = 0
            BY <4>1, <4>3 DEF NoAllocation
          <5> QED
            BY <5>1, UnusedEnd
        <4> QED
          BY <4>1, <4>2, <4>3
      <3> QED
        BY <1>3, <1>9, <3>1
    <2>2. ASSUME NEW q \in Procs, NEW i \in Indexes
          PROVE  A[q][i] = NoAllocation \/ A[q][i] = m.allocations[q][i]
      BY <1>4
    <2>3. NoAllocation.ptr = NULL /\ NoAllocation.size = 0
      BY DEF NoAllocation
    <2>4. ASSUME NEW q \in Procs, NEW i \in Indexes
          PROVE  A[q][i] \in Used \cup {NoAllocation}
      BY <2>2, EntryFacts
    <2>5. ASSUME NEW q \in Procs, NEW r \in Procs, NEW i \in Indexes, NEW j \in Indexes,
                 A[q][i].ptr # NULL, A[q][i].ptr = A[r][j].ptr
          PROVE  q = r /\ i = j
      <3>1. m.allocations[q][i].ptr # NULL /\ m.allocations[q][i].ptr = m.allocations[r][j].ptr
        BY <2>2, <2>3, <2>5
      <3> QED
        BY <3>1 DEF Sound
    <2>6. ASSUME NEW q \in Procs, NEW i \in Indexes, NEW a \in k
          PROVE  a.ptr # A[q][i].ptr
      <3>1. a.ptr # m.allocations[q][i].ptr
        BY DEF Sound
      <3>2. a.ptr # NULL
        <4>1. a \in Allocation
          BY DEF Sound, Records, AllIn
        <4>2. PICK b \in Blocks : a.ptr = heap_block_to_address(b)
          BY <4>1 DEF Allocation
        <4>3. BlockSize \in Nat \ {0} /\ HeapStart \in Nat \ {0} /\ b \in Nat
          BY HeapAssumption, CellsFacts
        <4> QED
          BY <4>2, <4>3, Z3 DEF heap_block_to_address, NULL
      <3> QED
        BY <2>2, <2>3, <3>1, <3>2
    <2>7. /\ Records(u, AllIn(o, k))
          /\ \A q \in Procs : W[q] = UNION {BlocksOf(a) : a \in HeldIn(o, q)}
      <3>1. CASE ptr = NULL
        <4>1. \A q \in Procs : \A i \in Indexes : A[q][i] = m.allocations[q][i]
          BY <1>4, <3>1, EntryFacts
        <4>2. \A q \in Procs : HeldIn(o, q) = HeldIn(m, q)
          BY <2>1, <4>1 DEF HeldIn
        <4>3. AllIn(o, k) = AllIn(m, k)
          BY <4>2 DEF AllIn
        <4>4. Records(u, AllIn(m, k))
          BY <1>1, <3>1, NullFreedRecords DEF u
        <4>5. Pages(ptr, size) = {}
          <5>1. size = 0
            BY <1>6, <1>9, <2>3, <3>1, EntryFacts
          <5>2. BlockSize \in Nat \ {0} /\ 0 - NULL = 0
            BY HeapAssumption DEF NULL
          <5>3. 0 \div BlockSize = 0
            BY <5>2, Z3
          <5>4. EndOf(NULL, 0) = 0
            BY UnusedEnd
          <5>5. (EndOf(NULL, 0) - NULL) \div BlockSize = 0
            BY <5>2, <5>3, <5>4
          <5>6. heap_address_to_block(NULL) \in Int
            BY NullBelow
          <5>7. \A x \in Int : x..(x + 0 - 1) = {}
            OBVIOUS
          <5> QED
            BY <3>1, <5>1, <5>5, <5>6, <5>7 DEF Pages
        <4>6. ASSUME NEW q \in Procs
              PROVE  W[q] = UNION {BlocksOf(a) : a \in HeldIn(o, q)}
          <5>1. W[q] = m.writable[q]
            BY <1>5, <4>5
          <5> QED
            BY <4>2, <5>1 DEF Sound
        <4> QED
          BY <4>3, <4>4, <4>6
      <3>2. CASE ptr # NULL
        <4> DEFINE f == Min(found)
                   e == m.allocations[p][f]
                   a == AsAllocation(e)
        <4>1. f \in Indexes /\ e.ptr = ptr /\ e \in Used
          BY <1>6, <1>9, <3>2, EntryFacts
        <4>2. a \in HeldIn(m, p) /\ a.ptr = ptr
          BY <4>1, EntryFacts, UsedFacts
        <4>3. a \in AllIn(m, k)
          BY <4>2 DEF AllIn
        <4>4. Records(u, AllIn(m, k) \ {a})
          BY <1>1, <4>2, <4>3, FreedRecords DEF u
        <4>5. Pages(ptr, size) = BlocksOf(a)
          BY <4>1, PagesAreBlocks
        <4> HIDE DEF a, e, f
        <4>6. \A q \in Procs : \A i \in Indexes :
                  m.allocations[q][i].ptr = ptr <=> q = p /\ i = f
          <5>1. ASSUME NEW q \in Procs, NEW i \in Indexes, m.allocations[q][i].ptr = ptr
                PROVE  q = p /\ i = f
            <6>1. m.allocations[p][f].ptr = ptr
              BY <4>1 DEF e
            <6> QED
              BY <3>2, <4>1, <5>1, <6>1 DEF Sound
          <5> QED
            BY <4>1, <5>1 DEF e
        <4>7. \A q \in Procs : q # p => HeldIn(o, q) = HeldIn(m, q)
          BY <1>4, <2>1 DEF HeldIn
        <4>8. HeldIn(o, p) = HeldIn(m, p) \ {a}
          <5>1. ASSUME NEW b \in HeldIn(o, p) PROVE b \in HeldIn(m, p) \ {a}
            <6>1. PICK i \in Indexes : A[p][i] # NoAllocation /\ b = AsAllocation(A[p][i])
              BY <2>1 DEF HeldIn
            <6>2. A[p][i] = m.allocations[p][i] /\ m.allocations[p][i].ptr # ptr
              BY <1>4, <6>1
            <6>3. b.ptr # ptr
              BY <6>1, <6>2 DEF AsAllocation
            <6> QED
              BY <4>2, <6>1, <6>2, <6>3, EntryFacts
          <5>2. ASSUME NEW b \in HeldIn(m, p) \ {a} PROVE b \in HeldIn(o, p)
            <6>1. PICK i \in Indexes : m.allocations[p][i] # NoAllocation
                                       /\ b = AsAllocation(m.allocations[p][i])
              BY DEF HeldIn
            <6>2. i # f
              BY <6>1 DEF a, e
            <6>3. A[p][i] = m.allocations[p][i]
              BY <1>4, <4>6, <6>2
            <6> QED
              BY <2>1, <6>1, <6>3, Zenon DEF HeldIn
          <5> QED
            BY <5>1, <5>2
        <4>9. /\ \A q \in Procs : q # p => a \notin HeldIn(m, q)
              /\ a \notin k
          <5>1. ASSUME NEW q \in Procs, q # p, a \in HeldIn(m, q) PROVE FALSE
            <6>1. PICK i \in Indexes : a = AsAllocation(m.allocations[q][i])
              BY <5>1 DEF HeldIn
            <6>2. m.allocations[q][i].ptr = ptr
              BY <4>2, <6>1 DEF AsAllocation
            <6> QED
              BY <4>6, <5>1, <6>2
          <5>2. a \notin k
            BY <4>1, <4>2 DEF Sound, e
          <5> QED
            BY <5>1, <5>2
        <4>10. AllIn(o, k) = AllIn(m, k) \ {a}
          <5>1. ASSUME NEW b \in AllIn(o, k) PROVE b \in AllIn(m, k) \ {a}
            <6>1. CASE b \in k
              BY <4>9, <6>1 DEF AllIn
            <6>2. ASSUME NEW q \in Procs, b \in HeldIn(o, q)
                  PROVE  b \in AllIn(m, k) \ {a}
              <7>1. b \in HeldIn(m, q) /\ b # a
                BY <4>7, <4>8, <4>9, <6>2
              <7> QED
                BY <7>1 DEF AllIn
            <6> QED
              BY <6>1, <6>2 DEF AllIn
          <5>2. ASSUME NEW b \in AllIn(m, k) \ {a} PROVE b \in AllIn(o, k)
            <6>1. CASE b \in k
              BY <6>1 DEF AllIn
            <6>2. ASSUME NEW q \in Procs, b \in HeldIn(m, q)
                  PROVE  b \in AllIn(o, k)
              <7>1. b \in HeldIn(o, q)
                BY <4>7, <4>8, <5>2, <6>2
              <7> QED
                BY <7>1 DEF AllIn
            <6> QED
              BY <6>1, <6>2 DEF AllIn
          <5> QED
            BY <5>1, <5>2
        <4>11. ASSUME NEW q \in Procs
               PROVE  W[q] = UNION {BlocksOf(b) : b \in HeldIn(o, q)}
          <5>1. m.writable[q] = UNION {BlocksOf(b) : b \in HeldIn(m, q)}
            BY DEF Sound
          <5>2. CASE q # p
            BY <1>5, <4>7, <5>1, <5>2
          <5>3. CASE q = p
            <6>1. \A b \in HeldIn(m, p) \ {a} : BlocksOf(b) \cap BlocksOf(a) = {}
              <7>1. \A b \in HeldIn(m, p) : b \in AllIn(m, k)
                BY DEF AllIn
              <7> QED
                BY <4>3, <7>1 DEF Sound, Records, Disjoint
            <6>2. W[p] = (UNION {BlocksOf(b) : b \in HeldIn(m, p)}) \ BlocksOf(a)
              BY <1>5, <4>5, <5>1, <5>3
            <6>3. (UNION {BlocksOf(b) : b \in HeldIn(m, p)}) \ BlocksOf(a) =
                        UNION {BlocksOf(b) : b \in HeldIn(m, p) \ {a}}
              BY <6>1
            <6> QED
              BY <4>8, <5>3, <6>2, <6>3
          <5> QED
            BY <5>2, <5>3
        <4> QED
          BY <4>4, <4>10, <4>11
      <3> QED
        BY <3>1, <3>2
    <2>8. Sound(o, k)
      BY <1>2, <2>1, <2>4, <2>5, <2>6, <2>7 DEF Sound
    <2> QED
      BY <1>4, <2>1, <2>8 DEF o
  <1> QED
    BY <1>8, <1>9

-----------------------------------------------------------------------------
(* The loops of process_terminate_allocations and process_inject_arguments *)

\* A process that ends releases everything in its table and nothing else.
LEMMA TerminateSound ==
    ASSUME NEW m, NEW k, Sound(m, k), NEW p \in Procs
    PROVE  /\ Sound(process_terminate_allocations(m, p), k)
           /\ \A q \in Procs : q # p =>
                process_terminate_allocations(m, p).allocations[q] = m.allocations[q]
           /\ \A j \in Indexes :
                process_terminate_allocations(m, p).allocations[p][j] = NoAllocation
  <1> DEFINE n == MaxAllocations
             E(x, i) == process_free(x, p, x.allocations[p][i - 1].ptr)
             step == [i \in 1..n |-> [x \in Memory |-> E(x, i)]]
             Loop(f) == f = [i \in 0..n |-> IF i = 0 THEN m ELSE E(f[i - 1], i)]
             after == CHOOSE f : Loop(f)
  <1>0. n \in Nat /\ m \in Memory
    BY ProcessMemoryAssumption DEF Sound
  <1>1. step \in [1..n -> [Memory -> Memory]]
    BY FreeType
  <1>2. PICK f \in [0..n -> Memory] : IsLoop(f, n, m, step)
    <2> HIDE DEF step, n
    <2> QED
      BY <1>0, <1>1, LoopDefined, Zenon
  <1>3. Loop(f)
    <2>1. ASSUME NEW i \in 0..n
          PROVE  f[i] = IF i = 0 THEN m ELSE E(f[i - 1], i)
      <3>1. f[i] = IF i = 0 THEN m ELSE step[i][f[i - 1]]
        BY <1>2 DEF IsLoop
      <3>2. i # 0 => i \in 1..n /\ f[i - 1] \in Memory
        BY <1>0, <1>2
      <3> QED
        BY <3>1, <3>2
    <2> HIDE DEF E
    <2> QED
      BY <1>2, <2>1
  <1>4. Loop(after)
    <2> HIDE DEF Loop
    <2> QED
      BY <1>3, Zenon
  <1>5. process_terminate_allocations(m, p) = after[n]
    BY Zenon DEF process_terminate_allocations
  <1> HIDE DEF after
  <1>6. after[0] = m /\ \A i \in 1..n : after[i] = E(after[i - 1], i)
    <2> HIDE DEF E
    <2> QED
      BY <1>0, <1>4
  <1> DEFINE Done(i) ==
                /\ Sound(after[i], k)
                /\ \A q \in Procs : q # p => after[i].allocations[q] = m.allocations[q]
                /\ \A j \in Indexes : j < i => after[i].allocations[p][j] = NoAllocation
             S == {i \in 0..n : Done(i)}
  <1>7. 0 \in S
    BY <1>0, <1>6 DEF Indexes
  <1>8. ASSUME NEW r \in 0..(n - 1), r \in S
        PROVE  r + 1 \in S
    <2>1. r + 1 \in 1..n /\ (r + 1) - 1 = r /\ r \in Indexes
      BY <1>0 DEF Indexes
    <2> DEFINE x == after[r]
               ptr == x.allocations[p][r].ptr
    <2>2. after[r + 1] = process_free(x, p, ptr)
      BY <1>6, <2>1
    <2>3. Sound(x, k)
      BY <1>8
    <2> HIDE DEF ptr, x
    <2>4. /\ Sound(after[r + 1], k)
          /\ \A q \in Procs : q # p => after[r + 1].allocations[q] = x.allocations[q]
          /\ \A j \in Indexes : after[r + 1].allocations[p][j] =
                IF x.allocations[p][j].ptr = ptr THEN NoAllocation ELSE x.allocations[p][j]
      BY <2>2, <2>3, FreeSound
    <2>5. \A q \in Procs : q # p => after[r + 1].allocations[q] = m.allocations[q]
      BY <1>8, <2>4 DEF x
    <2>6. \A j \in Indexes : j < r + 1 => after[r + 1].allocations[p][j] = NoAllocation
      <3> SUFFICES ASSUME NEW j \in Indexes, j < r + 1
                   PROVE  after[r + 1].allocations[p][j] = NoAllocation
        OBVIOUS
      <3>1. CASE j = r
        BY <2>4, <3>1 DEF ptr
      <3>2. CASE j < r
        BY <1>8, <2>4, <3>2 DEF x
      <3> QED
        BY <1>0, <3>1, <3>2 DEF Indexes
    <2> QED
      BY <2>1, <2>4, <2>5, <2>6
  <1> HIDE DEF S
  <1>9. 0..n \subseteq S
    BY <1>0, <1>7, <1>8, SetInduction, Zenon
  <1>10. Done(n)
    BY <1>0, <1>9 DEF S
  <1>11. \A j \in Indexes : j < n
    BY <1>0 DEF Indexes
  <1> QED
    BY <1>5, <1>10, <1>11

\* A new process's arguments, however many of them find memory
LEMMA ArgumentsSound ==
    ASSUME NEW m, NEW k, Sound(m, k), NEW p \in Procs, NEW argc \in 0..MaxArgs
    PROVE  /\ Sound(process_inject_arguments(m, p, argc), k)
           /\ \A q \in Procs : q # p =>
                process_inject_arguments(m, p, argc).allocations[q] = m.allocations[q]
  <1>1. CASE argc = 0
    BY <1>1 DEF process_inject_arguments
  <1>2. CASE argc # 0
    <2> DEFINE n == argc
               V == [mem : Memory, ptr : Int]
               base == process_malloc(m, p, argc * ArgvEntry)
               E(x) == IF x.ptr = NULL THEN x ELSE process_malloc(x.mem, p, ArgSize)
               step == [i \in 1..n |-> [x \in V |-> E(x)]]
               Loop(f) == f = [i \in 0..n |-> IF i = 0 THEN base ELSE E(f[i - 1])]
               after == CHOOSE f : Loop(f)
    <2>1. n \in Nat /\ argc \in 1..MaxArgs /\ m \in Memory
      BY <1>2, ProcessMemoryAssumption DEF Sound
    <2>2. argc * ArgvEntry \in Request /\ ArgSize \in Request
      <3>1. argc * ArgvEntry \in Nat
        BY <2>1, ProcessMemoryAssumption, Z3
      <3> QED
        BY <2>1, <3>1, ProcessMemoryAssumption, HeapAssumption DEF Request
    <2>3. \A s \in Request : s \in Nat /\ BlocksFor(s) \in Nat
      BY HeapAssumption DEF Request
    <2>4. base \in V
      BY <2>1, <2>2, <2>3, MallocType
    <2>5. \A x \in V : E(x) \in V
      <3> TAKE x \in V
      <3>1. x.mem \in Memory
        OBVIOUS
      <3>2. process_malloc(x.mem, p, ArgSize) \in V
        BY <2>2, <2>3, <3>1, MallocType
      <3> HIDE DEF V
      <3> QED
        BY <3>2
    <2>6. step \in [1..n -> [V -> V]]
      <3> HIDE DEF E, V
      <3> QED
        BY <2>5
    <2>7. PICK f \in [0..n -> V] : IsLoop(f, n, base, step)
      <3> HIDE DEF step, n, V, base
      <3> QED
        BY <2>1, <2>4, <2>6, LoopDefined, Zenon
    <2>8. Loop(f)
      <3> HIDE DEF V, base, E
      <3>1. ASSUME NEW i \in 0..n
            PROVE  f[i] = IF i = 0 THEN base ELSE E(f[i - 1])
        <4>1. f[i] = IF i = 0 THEN base ELSE step[i][f[i - 1]]
          BY <2>7 DEF IsLoop
        <4>2. i # 0 => i \in 1..n /\ f[i - 1] \in V
          BY <2>1, <2>7
        <4> QED
          BY <4>1, <4>2
      <3> QED
        BY <2>7, <3>1
    <2>9. Loop(after)
      <3> HIDE DEF Loop
      <3> QED
        BY <2>8, Zenon
    <2>10. process_inject_arguments(m, p, argc) = after[n].mem
      BY <1>2, Zenon DEF process_inject_arguments
    <2> HIDE DEF after
    <2>11. after[0] = base /\ \A i \in 1..n : after[i] = E(after[i - 1])
      <3> HIDE DEF E, base
      <3> QED
        BY <2>1, <2>9
    <2> DEFINE Good(x) == /\ Sound(x.mem, k)
                          /\ \A q \in Procs : q # p => x.mem.allocations[q] = m.allocations[q]
               T == {x \in V : Good(x)}
    <2>12. base \in T
      BY <2>2, <2>4, MallocSound
    <2>13. ASSUME NEW x \in T
           PROVE  E(x) \in T
      <3>1. /\ Sound(process_malloc(x.mem, p, ArgSize).mem, k)
            /\ \A q \in Procs : q # p => process_malloc(x.mem, p, ArgSize).mem.allocations[q]
                                            = x.mem.allocations[q]
        BY <2>2, <2>13, MallocSound
      <3>2. Good(process_malloc(x.mem, p, ArgSize))
        BY <2>13, <3>1
      <3>3. Good(E(x))
        <4> HIDE DEF Good
        <4> QED
          BY <2>13, <3>2
      <3> QED
        BY <2>5, <2>13, <3>3
    <2> HIDE DEF T, E, base
    <2>14. after[0] \in T /\ \A i \in 1..n : after[i - 1] \in T => after[i] \in T
      BY <2>11, <2>12, <2>13
    <2> HIDE DEF n
    <2>15. \A i \in 0..n : after[i] \in T
      BY <2>1, <2>14, LoopInvariant, Zenon
    <2>16. after[n] \in T
      BY <2>1, <2>15
    <2> QED
      BY <2>10, <2>16 DEF T
  <1> QED
    BY <1>1, <1>2

-----------------------------------------------------------------------------
(* The invariant is inductive                                              *)

LEMMA InitInv == Init => IInv
  <1> SUFFICES ASSUME Init PROVE IInv
    OBVIOUS
  <1>1. PICK memory \in [Cells \ Blocks -> Junk] :
            /\ \E c \in Cells : c < 0 /\ "NEXT" \notin memory[c]
            /\ mem = [entries |-> [c \in Cells |-> IF c \in Blocks THEN {} ELSE memory[c]],
                      allocations |-> [p \in Procs |-> [i \in Indexes |-> NoAllocation]],
                      writable |-> [p \in Procs |-> {}]]
    BY DEF Init
  <1>2. /\ mem.entries = [c \in Cells |-> IF c \in Blocks THEN {} ELSE memory[c]]
        /\ mem.allocations = [p \in Procs |-> [i \in Indexes |-> NoAllocation]]
        /\ mem.writable = [p \in Procs |-> {}]
        /\ mem = [entries |-> mem.entries, allocations |-> mem.allocations,
                  writable |-> mem.writable]
    BY <1>1
  <1>3. Records(mem.entries, {})
    BY <1>1, <1>2, FreshTable
  <1>4. alive = {} /\ kernel = {}
    BY DEF Init
  <1>5. \A p \in Procs : \A i \in Indexes : mem.allocations[p][i] = NoAllocation
    BY <1>2
  <1>6. \A p \in Procs : HeldIn(mem, p) = {}
    BY <1>5 DEF HeldIn
  <1>7. AllIn(mem, kernel) = {}
    BY <1>4, <1>6 DEF AllIn
  <1>8. mem \in Memory
    <2>1. NoAllocation \in Entry
      BY DEF NoAllocation, Entry, NULL
    <2>2. mem.allocations \in [Procs -> [Indexes -> Entry]] /\ mem.writable \in [Procs -> SUBSET Int]
      BY <1>2, <2>1
    <2>3. mem.entries \in [Cells -> SUBSET Flags]
      BY <1>3 DEF Records
    <2> QED
      BY <1>2, <2>2, <2>3 DEF Memory
  <1>9. NoAllocation.ptr = NULL
    BY DEF NoAllocation
  <1>10. \A p \in Procs : mem.writable[p] = UNION {BlocksOf(a) : a \in HeldIn(mem, p)}
    BY <1>2, <1>6
  <1>11. Sound(mem, kernel)
    BY <1>3, <1>4, <1>5, <1>7, <1>8, <1>9, <1>10 DEF Sound
  <1> QED
    BY <1>4, <1>5, <1>11 DEF IInv

\* A process that is not alive has nothing left to clear.
LEMMA LoadedIsSame ==
    ASSUME IInv, NEW p \in Procs \ alive
    PROVE  Loaded(mem, p) = mem
  <1>1. /\ mem \in Memory
        /\ mem.allocations \in [Procs -> [Indexes -> Entry]]
        /\ mem.writable \in [Procs -> SUBSET Int]
    BY DEF IInv, Sound, Memory
  <1>2. \A i \in Indexes : mem.allocations[p][i] = NoAllocation
    BY DEF IInv
  <1>3. mem.allocations[p] = [i \in Indexes |-> NoAllocation]
    BY <1>1, <1>2
  <1>4. HeldIn(mem, p) = {}
    BY <1>2 DEF HeldIn
  <1>5. mem.writable[p] = {}
    BY <1>4 DEF IInv, Sound
  <1>6. [mem.allocations EXCEPT ![p] = [i \in Indexes |-> NoAllocation]] = mem.allocations
    BY <1>1, <1>3
  <1>7. [mem.writable EXCEPT ![p] = {}] = mem.writable
    BY <1>1, <1>5
  <1>8. mem = [entries |-> mem.entries, allocations |-> mem.allocations,
               writable |-> mem.writable]
    BY <1>1 DEF Memory
  <1> QED
    BY <1>6, <1>7, <1>8 DEF Loaded

LEMMA LoadInv ==
    ASSUME IInv, NEW p \in Procs, NEW argc \in 0..MaxArgs, Load(p, argc)
    PROVE  IInv'
  <1>1. p \in Procs \ alive /\ alive' = alive \cup {p} /\ kernel' = kernel
    BY DEF Load
  <1>2. mem' = process_inject_arguments(mem, p, argc)
    BY <1>1, LoadedIsSame DEF Load
  <1>3. /\ Sound(mem', kernel)
        /\ \A q \in Procs : q # p => mem'.allocations[q] = mem.allocations[q]
    BY <1>2, ArgumentsSound DEF IInv
  <1> QED
    BY <1>1, <1>3 DEF IInv

LEMMA TerminateInv ==
    ASSUME IInv, NEW p \in Procs, Terminate(p)
    PROVE  IInv'
  <1> DEFINE o == process_terminate_allocations(mem, p)
  <1>1. alive' = alive \ {p} /\ kernel' = kernel /\ mem' = [o EXCEPT !.writable[p] = {}]
    BY DEF Terminate
  <1>2. /\ Sound(o, kernel)
        /\ \A q \in Procs : q # p => o.allocations[q] = mem.allocations[q]
        /\ \A i \in Indexes : o.allocations[p][i] = NoAllocation
    BY TerminateSound DEF IInv
  <1> HIDE DEF o
  <1>3. o \in Memory /\ o.writable \in [Procs -> SUBSET Int]
    BY <1>2 DEF Sound, Memory
  <1>4. HeldIn(o, p) = {}
    BY <1>2 DEF HeldIn
  <1>5. o.writable[p] = {}
    BY <1>2, <1>4 DEF Sound
  <1>6. [o.writable EXCEPT ![p] = {}] = o.writable
    BY <1>3, <1>5
  <1>7. o = [entries |-> o.entries, allocations |-> o.allocations, writable |-> o.writable]
    BY <1>3 DEF Memory
  <1>8. mem' = o
    BY <1>1, <1>6, <1>7
  <1> QED
    BY <1>1, <1>2, <1>8 DEF IInv

LEMMA KernelMallocInv ==
    ASSUME IInv, NonzeroSizes, NEW size \in Sizes, KernelMalloc(size)
    PROVE  IInv'
  <1> DEFINE n == BlocksFor(size)
             start == heap_get_start_block(mem.entries, n)
             new == [ptr |-> heap_block_to_address(start), blocks |-> n]
             u == heap_mark_blocks_taken(mem.entries, start, n)
  <1>1. n \in 1..Slack
    BY HeapAssumption DEF NonzeroSizes
  <1>2. /\ start >= 0 /\ alive' = alive
        /\ mem' = [mem EXCEPT !.entries = u]
        /\ kernel' = kernel \cup {new}
    BY DEF KernelMalloc
  <1>3. Records(mem.entries, AllIn(mem, kernel)) /\ mem \in Memory
    BY DEF IInv, Sound
  <1>4. /\ Records(u, AllIn(mem, kernel) \cup {new})
        /\ new \in Allocation
        /\ \A a \in AllIn(mem, kernel) : a.ptr # new.ptr
    <2> HIDE DEF n
    <2>1. start = heap_get_start_block(mem.entries, n)
      OBVIOUS
    <2> HIDE DEF start
    <2>2. new = [ptr |-> heap_block_to_address(start), blocks |-> n]
      OBVIOUS
    <2> HIDE DEF new
    <2> QED
      BY <1>1, <1>2, <1>3, <2>1, <2>2, TakenRecords
  <1> HIDE DEF u, new, start, n
  <1>5. /\ mem'.entries = u /\ mem'.allocations = mem.allocations /\ mem'.writable = mem.writable
        /\ mem' = [entries |-> mem'.entries, allocations |-> mem'.allocations,
                   writable |-> mem'.writable]
    BY <1>2, <1>3 DEF Memory
  <1>6. \A p \in Procs : HeldIn(mem', p) = HeldIn(mem, p)
    BY <1>5 DEF HeldIn
  <1>7. AllIn(mem', kernel') = AllIn(mem, kernel) \cup {new}
    BY <1>2, <1>6 DEF AllIn
  <1>8. mem' \in Memory
    BY <1>3, <1>4, <1>5 DEF Memory, Records
  <1>9. ASSUME NEW p \in Procs, NEW i \in Indexes
        PROVE  new.ptr # mem.allocations[p][i].ptr
    <2>1. CASE mem.allocations[p][i] = NoAllocation
      <3>1. PICK b \in Blocks : new.ptr = heap_block_to_address(b)
        BY <1>4 DEF Allocation
      <3>2. BlockSize \in Nat \ {0} /\ HeapStart \in Nat \ {0} /\ b \in Nat
        BY HeapAssumption, CellsFacts
      <3>3. new.ptr # NULL
        BY <3>1, <3>2, Z3 DEF heap_block_to_address, NULL
      <3> QED
        BY <2>1, <3>3 DEF NoAllocation
    <2>2. CASE mem.allocations[p][i] # NoAllocation
      <3>1. AsAllocation(mem.allocations[p][i]) \in AllIn(mem, kernel)
        BY <2>2, EntryFacts DEF AllIn, IInv
      <3> QED
        BY <1>4, <3>1 DEF AsAllocation
    <2> QED
      BY <2>1, <2>2
  <1>10. \A p \in Procs : \A i \in Indexes : \A a \in kernel' : a.ptr # mem.allocations[p][i].ptr
    BY <1>2, <1>9 DEF IInv, Sound
  <1>11. Records(mem'.entries, AllIn(mem', kernel'))
    BY <1>4, <1>5, <1>7
  <1>12. Sound(mem', kernel')
    BY <1>5, <1>6, <1>8, <1>10, <1>11 DEF IInv, Sound
  <1> QED
    BY <1>2, <1>5, <1>12 DEF IInv

LEMMA KernelFreeInv ==
    ASSUME IInv, NEW a \in kernel, KernelFree(a)
    PROVE  IInv'
  <1> DEFINE u == heap_mark_blocks_free(mem.entries, heap_address_to_block(a.ptr))
  <1>1. /\ mem' = [mem EXCEPT !.entries = u]
        /\ kernel' = kernel \ {a} /\ alive' = alive
    BY DEF KernelFree
  <1>2. Records(mem.entries, AllIn(mem, kernel)) /\ mem \in Memory /\ a \in AllIn(mem, kernel)
    BY DEF IInv, Sound, AllIn
  <1>3. Records(u, AllIn(mem, kernel) \ {a})
    BY <1>2, FreedRecords
  <1> HIDE DEF u
  <1>4. /\ mem'.entries = u /\ mem'.allocations = mem.allocations /\ mem'.writable = mem.writable
        /\ mem' = [entries |-> mem'.entries, allocations |-> mem'.allocations,
                   writable |-> mem'.writable]
    BY <1>1, <1>2 DEF Memory
  <1>5. \A p \in Procs : HeldIn(mem', p) = HeldIn(mem, p)
    BY <1>4 DEF HeldIn
  <1>6. \A p \in Procs : a \notin HeldIn(mem, p)
    <2> SUFFICES ASSUME NEW p \in Procs, a \in HeldIn(mem, p) PROVE FALSE
      OBVIOUS
    <2>1. PICK i \in Indexes : a = AsAllocation(mem.allocations[p][i])
      BY DEF HeldIn
    <2>2. a.ptr = mem.allocations[p][i].ptr
      BY <2>1 DEF AsAllocation
    <2> QED
      BY <2>2 DEF IInv, Sound
  <1>7. AllIn(mem', kernel') = AllIn(mem, kernel) \ {a}
    <2>1. ASSUME NEW b \in AllIn(mem', kernel') PROVE b \in AllIn(mem, kernel) \ {a}
      BY <1>1, <1>5, <1>6 DEF AllIn
    <2>2. ASSUME NEW b \in AllIn(mem, kernel) \ {a} PROVE b \in AllIn(mem', kernel')
      BY <1>1, <1>5 DEF AllIn
    <2> QED
      BY <2>1, <2>2
  <1>8. mem' \in Memory
    BY <1>2, <1>3, <1>4 DEF Memory, Records
  <1>9. Records(mem'.entries, AllIn(mem', kernel'))
    BY <1>3, <1>4, <1>7
  <1>10. Sound(mem', kernel')
    BY <1>1, <1>4, <1>5, <1>8, <1>9 DEF IInv, Sound
  <1> QED
    BY <1>1, <1>4, <1>10 DEF IInv

LEMMA NextInv ==
    ASSUME IInv, NonzeroSizes, [Next]_vars
    PROVE  IInv'
  <1>1. ASSUME NEW p \in Procs, NEW argc \in 0..MaxArgs, Load(p, argc) PROVE IInv'
    BY <1>1, LoadInv
  <1>2. ASSUME NEW p \in Procs, NEW size \in Sizes, Malloc(p, size) PROVE IInv'
    <2>1. size \in Request
      BY HeapAssumption DEF NonzeroSizes, Request
    <2>2. /\ Sound(mem', kernel)
          /\ \A q \in Procs : q # p => mem'.allocations[q] = mem.allocations[q]
      BY <1>2, <2>1, MallocSound DEF Malloc, IInv
    <2> QED
      BY <1>2, <2>2 DEF Malloc, IInv
  <1>3. ASSUME NEW p \in Procs, NEW ptr \in Pointers, Free(p, ptr) PROVE IInv'
    <2>1. /\ Sound(mem', kernel)
          /\ \A q \in Procs : q # p => mem'.allocations[q] = mem.allocations[q]
      BY <1>3, FreeSound DEF Free, IInv
    <2> QED
      BY <1>3, <2>1 DEF Free, IInv
  <1>4. ASSUME NEW p \in Procs, Terminate(p) PROVE IInv'
    BY <1>4, TerminateInv
  <1>5. ASSUME NEW size \in Sizes, KernelMalloc(size) PROVE IInv'
    BY <1>5, KernelMallocInv
  <1>6. ASSUME NEW a \in kernel, KernelFree(a) PROVE IInv'
    BY <1>6, KernelFreeInv
  <1>7. CASE UNCHANGED vars
    BY <1>7 DEF vars, IInv
  <1> QED
    BY <1>1, <1>2, <1>3, <1>4, <1>5, <1>6, <1>7 DEF Next

-----------------------------------------------------------------------------
(* What the invariant implies                                              *)

LEMMA HeldIsHeldIn ==
    ASSUME NEW p
    PROVE  Held(p) = HeldIn(mem, p)
  BY DEF Held, HeldIn, AsAllocation

LEMMA InvTypes == IInv => TypeOK
  <1> SUFFICES ASSUME IInv PROVE TypeOK
    OBVIOUS
  <1>1. Records(mem.entries, AllIn(mem, kernel))
    BY DEF IInv, Sound
  <1>2. mem.entries \in [Cells -> SUBSET Flags] /\ kernel \subseteq Allocation
    BY <1>1 DEF Records, AllIn
  <1>3. ASSUME NEW p \in Procs, NEW i \in Indexes
        PROVE  /\ mem.allocations[p][i].ptr \in Pointers
               /\ mem.allocations[p][i].size \in 0..(Word - 1)
    <2>1. mem.allocations[p][i] \in Used \cup {NoAllocation}
      BY DEF IInv, Sound
    <2> QED
      BY <2>1, HeapAssumption DEF Used, Addresses, Request, NoAllocation, Pointers
  <1>4. ASSUME NEW p \in Procs
        PROVE  mem.writable[p] \subseteq 0..(Total + Slack - 1)
    <2>1. ASSUME NEW a \in HeldIn(mem, p)
          PROVE  BlocksOf(a) \subseteq 0..(Total + Slack - 1)
      <3>1. a \in Allocation
        BY <1>1 DEF Records, AllIn
      <3>2. a.blocks =< Slack
        BY <3>1, CellsFacts DEF Allocation
      <3> QED
        BY <3>1, <3>2, AllocationFacts, CellsFacts
    <2>2. mem.writable[p] = UNION {BlocksOf(a) : a \in HeldIn(mem, p)}
      BY DEF IInv, Sound
    <2> QED
      BY <2>1, <2>2
  <1> QED
    BY <1>2, <1>3, <1>4 DEF TypeOK, IInv

LEMMA AllHeldIsAllIn == AllHeld = AllIn(mem, kernel)
  BY HeldIsHeldIn DEF AllHeld, AllIn

LEMMA InvTaken == IInv => HeldIsTaken /\ NothingLeaks
  <1> SUFFICES ASSUME IInv PROVE HeldIsTaken /\ NothingLeaks
    OBVIOUS
  <1>1. Marked(mem.entries, AllHeld)
    BY AllHeldIsAllIn DEF IInv, Sound, Records
  <1> QED
    BY <1>1 DEF Marked, HeldIsTaken, NothingLeaks, IsFree

LEMMA InvIsolation == IInv => WriteIsolation
  <1> SUFFICES ASSUME IInv PROVE WriteIsolation
    OBVIOUS
  <1>1. \A p \in Procs : mem.writable[p] = UNION {BlocksOf(a) : a \in Held(p)}
    BY HeldIsHeldIn DEF IInv, Sound
  <1>2. ASSUME NEW a \in AllHeld, NEW b \in AllHeld, a # b
        PROVE  BlocksOf(a) \cap BlocksOf(b) = {}
    BY <1>2, AllHeldIsAllIn DEF IInv, Sound, Records, Disjoint
  <1>3. ASSUME NEW p \in Procs, NEW a \in Held(p)
        PROVE  \E i \in Indexes : mem.allocations[p][i].ptr # NULL
                                  /\ a.ptr = mem.allocations[p][i].ptr
    <2>1. PICK i \in Indexes : mem.allocations[p][i] # NoAllocation
                               /\ a = AsAllocation(mem.allocations[p][i])
      BY HeldIsHeldIn DEF HeldIn
    <2> QED
      BY <2>1, EntryFacts DEF IInv, AsAllocation
  <1>4. ASSUME NEW p \in Procs, NEW q \in Procs, p # q
        PROVE  mem.writable[p] \cap mem.writable[q] = {}
    <2>1. ASSUME NEW a \in Held(p), NEW b \in Held(q)
          PROVE  BlocksOf(a) \cap BlocksOf(b) = {}
      <3>1. a.ptr # b.ptr
        BY <1>3, <1>4 DEF IInv, Sound
      <3>2. a \in AllHeld /\ b \in AllHeld
        BY DEF AllHeld
      <3> QED
        BY <1>2, <3>1, <3>2
    <2> QED
      BY <1>1, <2>1
  <1>5. ASSUME NEW p \in Procs, NEW k \in kernel
        PROVE  mem.writable[p] \cap BlocksOf(k) = {}
    <2>1. ASSUME NEW a \in Held(p)
          PROVE  BlocksOf(a) \cap BlocksOf(k) = {}
      <3>1. a.ptr # k.ptr
        BY <1>3 DEF IInv, Sound
      <3>2. a \in AllHeld /\ k \in AllHeld
        BY DEF AllHeld
      <3> QED
        BY <1>2, <3>1, <3>2
    <2> QED
      BY <1>1, <2>1
  <1> QED
    BY <1>1, <1>4, <1>5 DEF WriteIsolation

-----------------------------------------------------------------------------
(* Theorems                                                                *)

\* The inductive invariant holds of every behaviour of the processes' memory.
THEOREM Invariance ==
    ASSUME NonzeroSizes
    PROVE  Spec => []IInv
  <1>1. IInv /\ [Next]_vars => IInv'
    BY NextInv
  <1> QED
    BY <1>1, InitInv, PTL DEF Spec

\* The heap's table, the allocation tables and the directories keep their
\* types.
THEOREM TypeCorrect ==
    ASSUME NonzeroSizes
    PROVE  Spec => []TypeOK
  BY Invariance, InvTypes, PTL

\* Memory that a process's table or the kernel lists is marked taken for it,
\* whatever pointers the processes free and in whatever order they end.
THEOREM HeldStaysTaken ==
    ASSUME NonzeroSizes
    PROVE  Spec => []HeldIsTaken
  BY Invariance, InvTaken, PTL

\* No block stays taken that nobody lists: neither the error paths of
\* process_malloc and process_inject_arguments nor process_terminate leak.
THEOREM NoLeaks ==
    ASSUME NonzeroSizes
    PROVE  Spec => []NothingLeaks
  BY Invariance, InvTaken, PTL

\* A process can write the heap pages of its own allocations and no others.
THEOREM Isolated ==
    ASSUME NonzeroSizes
    PROVE  Spec => []WriteIsolation
  BY Invariance, InvIsolation, PTL

\* While an entry stays in a process's table, no step marks its blocks free:
\* what process_free says of foreign pointers holds of requests for at least
\* one block.
THEOREM OwnersFree ==
    ASSUME NonzeroSizes
    PROVE  Spec => OnlyOwnerFrees
  <1> DEFINE A == \A p \in Procs : \A a \in Held(p) : a \in Held(p)' =>
                     \A c \in BlocksOf(a) \cap Blocks : ~IsFree(mem.entries', c)
  <1>1. IInv' => [A]_vars
    <2> SUFFICES ASSUME IInv', NEW p \in Procs, NEW a \in Held(p), a \in Held(p)',
                        NEW c \in BlocksOf(a) \cap Blocks
                 PROVE  ~IsFree(mem.entries', c)
      OBVIOUS
    <2>1. HeldIsTaken'
      BY InvTaken, PTL
    <2>2. a \in AllHeld'
      BY DEF AllHeld
    <2>3. mem'.entries[c] = TakenEntry(c - heap_address_to_block(a.ptr), a.blocks)
      BY <2>1, <2>2 DEF HeldIsTaken
    <2> QED
      BY <2>3 DEF TakenEntry, IsFree
  <1> HIDE DEF A
  <1>2. Spec => []IInv
    BY Invariance
  <1>3. Spec => [][A]_vars
    BY <1>1, <1>2, PTL DEF Spec
  <1> QED
    BY <1>3 DEF OnlyOwnerFrees, A
=============================================================================
