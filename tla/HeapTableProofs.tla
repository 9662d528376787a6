--------------------------- MODULE HeapTableProofs ---------------------------
(***************************************************************************)
(* Lemmas about the functions of HeapTable.tla: what a table t that records*)
(* a set of allocations looks like, and what heap_malloc and heap_free do  *)
(* to it.  The heap's callers (HeapProofs.tla) and the memory of processes *)
(* (ProcessMemoryProofs.tla) rest on them.                                 *)
(***************************************************************************)
EXTENDS HeapTable, LoopTheorems

-----------------------------------------------------------------------------
(* Arithmetic of blocks and addresses                                      *)

LEMMA TotalNat == Total \in Nat \ {0} /\ HeapBytes = Total * BlockSize
  BY HeapAssumption, Z3 DEF Total

\* An address computed for a block leads back to the block.
LEMMA AddressRoundTrip ==
    ASSUME NEW b \in Int
    PROVE  heap_address_to_block(heap_block_to_address(b)) = b
  <1>1. BlockSize \in Nat \ {0} /\ HeapStart \in Nat
    BY HeapAssumption
  <1>2. (b * BlockSize) \div BlockSize = b
    BY <1>1, Z3
  <1>3. b * BlockSize \in Int /\ (HeapStart + b * BlockSize) - HeapStart = b * BlockSize
    BY <1>1
  <1> QED
    BY <1>2, <1>3 DEF heap_address_to_block, heap_block_to_address

\* A null pointer leads below the table.
LEMMA NullBelow ==
    heap_address_to_block(NULL) = NullBlock /\ NullBlock \in Int /\ NullBlock < 0
  <1>1. BlockSize \in Nat \ {0} /\ HeapStart \in Nat \ {0} /\ HeapStart % BlockSize = 0
    BY HeapAssumption
  <1> DEFINE q == HeapStart \div BlockSize
  <1>2. q \in Nat /\ HeapStart = q * BlockSize
    BY <1>1, Z3
  <1>3. q > 0
    BY <1>1, <1>2, Z3
  <1>4. (-q * BlockSize) \div BlockSize = -q
    BY <1>1, <1>2, Z3
  <1>5. 0 - HeapStart = -q * BlockSize
    BY <1>1, <1>2, Z3
  <1> QED
    BY <1>2, <1>3, <1>4, <1>5 DEF heap_address_to_block, NullBlock, NULL

LEMMA CellsFacts ==
    /\ Total \in Nat \ {0} /\ Slack \in Nat
    /\ NullBlock \in Int /\ NullBlock < 0
    /\ Cells = NullBlock..(Total + Slack - 1)
    /\ Blocks = 0..(Total - 1)
    /\ Blocks \subseteq Cells
  BY TotalNat, NullBelow, HeapAssumption DEF Cells, Blocks

\* The addresses kmalloc returns
Addresses == {heap_block_to_address(b) : b \in Blocks}

\* A request that is for at least one block
Request == {s \in 0..(Word - 1) : BlocksFor(s) \in 1..Slack}

\* A size that needs at least one block is rounded up without wrapping.
LEMMA RoundedUp ==
    ASSUME NEW size \in Request
    PROVE  \E q \in Nat : \E r \in 0..(BlockSize - 1) :
              /\ size = q * BlockSize + r
              /\ BlocksFor(size) = IF r = 0 THEN q ELSE q + 1
  <1>1. BlockSize \in Nat \ {0} /\ Word \in Nat \ {0} /\ size \in 0..(Word - 1) /\ size \in Int
    BY HeapAssumption DEF Request
  <1>2. PICK q \in Int, r \in 0..(BlockSize - 1) :
            size = q * BlockSize + r /\ size % BlockSize = r
    BY <1>1, DivMod, Zenon
  <1>3. q \in Nat
    BY <1>1, <1>2, Z3
  <1>4. CASE r = 0
    <2>1. BlocksFor(size) = (q * BlockSize) \div BlockSize
      BY <1>1, <1>2, <1>4 DEF BlocksFor, heap_align_value_to_upper
    <2>2. BlocksFor(size) = q
      BY <1>1, <2>1, Multiple
    <2> QED
      BY <1>2, <1>3, <1>4, <2>2
  <1>5. CASE r # 0
    <2> DEFINE x == (q + 1) * BlockSize
    <2>1. x = size - r + BlockSize /\ x \in Nat /\ x \in Int
      BY <1>1, <1>2, <1>3, Z3
    <2> HIDE DEF x
    <2>2. BlocksFor(size) = (x % Word) \div BlockSize
      BY <1>2, <1>5, <2>1 DEF BlocksFor, heap_align_value_to_upper
    <2>3. BlocksFor(size) >= 1
      BY DEF Request
    <2>4. PICK s \in Int, y \in 0..(Word - 1) : x = s * Word + y /\ x % Word = y
      BY <1>1, <2>1, DivMod, Zenon
    <2>5. ~(y \in 0..(BlockSize - 1))
      <3> SUFFICES ASSUME y \in 0..(BlockSize - 1) PROVE FALSE
        OBVIOUS
      <3>1. y \div BlockSize = 0
        BY <1>1, SmallQuotient
      <3> QED
        BY <2>2, <2>3, <2>4, <3>1
    <2>6. y >= BlockSize /\ x < Word + BlockSize
      BY <1>1, <1>2, <1>5, <2>1, <2>4, <2>5
    <2>7. s * Word < Word
      BY <1>1, <2>1, <2>4, <2>6
    <2>8. s =< 0
      BY <1>1, <2>7, Z3
    <2>9. s >= 0
      BY <1>1, <2>1, <2>4, Z3
    <2>10. x = y
      BY <1>1, <2>4, <2>8, <2>9
    <2>11. BlocksFor(size) = ((q + 1) * BlockSize) \div BlockSize /\ q + 1 \in Int
      BY <2>2, <2>4, <2>10 DEF x
    <2>12. BlocksFor(size) = q + 1
      BY <1>1, <2>11, Multiple
    <2> QED
      BY <1>2, <1>3, <1>5, <2>12
  <1> QED
    BY <1>4, <1>5

(* Allocations                                                             *)

\* What an allocation looks like: it begins at a block of the heap.
LEMMA AllocationFacts ==
    ASSUME NEW a \in Allocation
    PROVE  /\ a.blocks \in Nat
           /\ heap_address_to_block(a.ptr) \in Blocks
           /\ a.ptr = heap_block_to_address(heap_address_to_block(a.ptr))
           /\ BlocksOf(a) = heap_address_to_block(a.ptr)..
                            (heap_address_to_block(a.ptr) + a.blocks - 1)
  <1>1. PICK b \in Blocks : a.ptr = heap_block_to_address(b)
    BY DEF Allocation
  <1>2. heap_address_to_block(a.ptr) = b
    BY <1>1, AddressRoundTrip, CellsFacts
  <1>3. a.blocks \in Nat
    BY CellsFacts DEF Allocation
  <1> QED
    BY <1>1, <1>2, <1>3 DEF BlocksOf

\* The memory below the table still holds a byte without HAS_NEXT.
BelowStops(t) == \E c \in Cells : c < 0 /\ "NEXT" \notin t[c]

\* No two allocations of the set share a block.
Disjoint(held) == \A a, b \in held : a # b => BlocksOf(a) \cap BlocksOf(b) = {}

\* A block has the byte of the allocation that covers it, or none.
Marked(t, held) ==
    /\ \A a \in held : \A c \in BlocksOf(a) \cap Blocks :
            t[c] = TakenEntry(c - heap_address_to_block(a.ptr), a.blocks)
    /\ \A c \in Blocks : (\A a \in held : c \notin BlocksOf(a)) => t[c] = {}

\* Table t records exactly the allocations in held.
Records(t, held) ==
    /\ t \in [Cells -> SUBSET Flags]
    /\ held \subseteq Allocation
    /\ BelowStops(t)
    /\ \A a \in held : a.blocks >= 1
    /\ Marked(t, held)
    /\ Disjoint(held)

\* The scan answers a block or -ENOMEM.
LEMMA StartType ==
    ASSUME NEW t, NEW n \in Nat
    PROVE  heap_get_start_block(t, n) \in Blocks \cup {ENOMEM}
  <1>1. Fits(t, n) \subseteq Nat /\ Fits(t, n) \subseteq Blocks
    BY CellsFacts DEF Fits
  <1>2. Trailing(t) \subseteq Nat /\ Trailing(t) \subseteq Blocks
    BY CellsFacts DEF Trailing
  <1>3. Fits(t, n) # {} => Min(Fits(t, n)) \in Blocks
    BY <1>1, MinIsLeast
  <1>4. Trailing(t) # {} => Min(Trailing(t)) \in Blocks
    BY <1>2, MinIsLeast
  <1> QED
    BY <1>3, <1>4 DEF heap_get_start_block

\* heap_get_start_block finds a free block, and the blocks of the table that
\* the allocation will cover are free too.
LEMMA StartIsFree ==
    ASSUME NEW t, NEW n \in Nat, n > 0, heap_get_start_block(t, n) >= 0
    PROVE  /\ heap_get_start_block(t, n) \in Blocks
           /\ \A i \in heap_get_start_block(t, n)..(heap_get_start_block(t, n) + n - 1) :
                 i \in Blocks => IsFree(t, i)
  <1> DEFINE start == heap_get_start_block(t, n)
  <1>1. CASE Fits(t, n) # {}
    <2>1. start = Min(Fits(t, n))
      BY <1>1 DEF heap_get_start_block
    <2>2. Fits(t, n) \subseteq Nat
      BY CellsFacts DEF Fits
    <2>3. start \in Fits(t, n)
      BY <1>1, <2>1, <2>2, MinIsLeast
    <2> QED
      BY <2>3, CellsFacts DEF Fits
  <1>2. CASE Fits(t, n) = {} /\ Trailing(t) # {}
    <2>1. start = Min(Trailing(t))
      BY <1>2 DEF heap_get_start_block
    <2>2. Trailing(t) \subseteq Nat
      BY CellsFacts DEF Trailing
    <2>3. start \in Trailing(t)
      BY <1>2, <2>1, <2>2, MinIsLeast
    <2> QED
      BY <2>3, CellsFacts DEF Trailing
  <1>3. CASE Fits(t, n) = {} /\ Trailing(t) = {}
    BY <1>3 DEF heap_get_start_block, ENOMEM
  <1> QED
    BY <1>1, <1>2, <1>3

\* kfree of a recorded allocation clears that allocation's bytes of the
\* table: HAS_NEXT is set up to its last block and not there.
LEMMA ChainIsAllocation ==
    ASSUME NEW t, NEW held, Records(t, held), NEW a \in held
    PROVE  Chain(t, heap_address_to_block(a.ptr)) = BlocksOf(a) \cap Blocks
  <1> DEFINE first == heap_address_to_block(a.ptr)
             n == a.blocks
  <1>1. a \in Allocation
    BY DEF Records
  <1>2. first \in Blocks /\ n \in Nat /\ n >= 1 /\ BlocksOf(a) = first..(first + n - 1)
    BY <1>1, AllocationFacts DEF Records
  <1>3. \A c \in BlocksOf(a) \cap Blocks : t[c] = TakenEntry(c - first, n)
    BY DEF Records, Marked
  <1> HIDE DEF first, n
  <1>4. ASSUME NEW c \in BlocksOf(a) \cap Blocks
        PROVE  c \in Chain(t, first)
    <2>1. c \in Cells /\ first =< c /\ c < Total
      BY <1>2, CellsFacts
    <2>2. ASSUME NEW d \in first..(c - 1)
          PROVE  "NEXT" \in t[d]
      <3>1. d \in BlocksOf(a) \cap Blocks /\ d - first < n - 1
        BY <1>2, CellsFacts
      <3> QED
        BY <1>3, <3>1 DEF TakenEntry
    <2> QED
      BY <2>1, <2>2 DEF Chain
  <1>5. ASSUME NEW c \in Chain(t, first)
        PROVE  c \in BlocksOf(a) \cap Blocks
    <2>1. c \in Cells /\ first =< c /\ c < Total
      BY DEF Chain
    <2>2. c \in Blocks
      BY <1>2, <2>1, CellsFacts
    <2>3. SUFFICES ASSUME c >= first + n PROVE FALSE
      BY <1>2, <2>1, <2>2, CellsFacts
    <2> DEFINE d == first + n - 1
    <2>4. d \in first..(c - 1) /\ d \in BlocksOf(a) \cap Blocks
      BY <1>2, <2>1, <2>3, CellsFacts
    <2>5. "NEXT" \in t[d]
      BY <2>4 DEF Chain
    <2>6. t[d] = TakenEntry(n - 1, n)
      BY <1>2, <1>3, <2>4, CellsFacts
    <2> QED
      BY <1>2, <2>5, <2>6 DEF TakenEntry
  <1> QED
    BY <1>4, <1>5 DEF first

\* kfree(0) clears bytes below the table only.
LEMMA NullChainBelow ==
    ASSUME NEW t, BelowStops(t), NEW c \in Chain(t, NullBlock)
    PROVE  c < 0
  <1>1. PICK stop \in Cells : stop < 0 /\ "NEXT" \notin t[stop]
    BY DEF BelowStops
  <1>2. c \in Cells /\ \A d \in NullBlock..(c - 1) : "NEXT" \in t[d]
    BY DEF Chain
  <1> QED
    BY <1>1, <1>2, CellsFacts

-----------------------------------------------------------------------------
(* What heap_malloc and heap_free do to a table                            *)

\* The table of kheap_init records nothing.
LEMMA FreshTable ==
    ASSUME NEW t, NEW memory \in [Cells \ Blocks -> Junk],
           \E c \in Cells : c < 0 /\ "NEXT" \notin memory[c],
           t = [c \in Cells |-> IF c \in Blocks THEN {} ELSE memory[c]]
    PROVE  Records(t, {})
  <1>1. t \in [Cells -> SUBSET Flags]
    BY HeapAssumption
  <1>2. BelowStops(t)
    BY CellsFacts DEF BelowStops
  <1>3. Marked(t, {})
    BY CellsFacts DEF Marked
  <1> QED
    BY <1>1, <1>2, <1>3 DEF Records, Disjoint

\* A table keeps its type whatever is marked in it.
LEMMA TableType ==
    ASSUME NEW t \in [Cells -> SUBSET Flags], NEW start, NEW n
    PROVE  /\ heap_mark_blocks_taken(t, start, n) \in [Cells -> SUBSET Flags]
           /\ heap_mark_blocks_free(t, start) \in [Cells -> SUBSET Flags]
  <1>1. \A i, m : TakenEntry(i, m) \in SUBSET Flags
    BY DEF TakenEntry, Flags
  <1> QED
    BY <1>1 DEF heap_mark_blocks_taken, heap_mark_blocks_free

\* heap_malloc adds an allocation that overlaps no other.
LEMMA TakenRecords ==
    ASSUME NEW t, NEW held, Records(t, held), NEW n \in 1..Slack,
           NEW start, start = heap_get_start_block(t, n), start >= 0,
           NEW new, new = [ptr |-> heap_block_to_address(start), blocks |-> n]
    PROVE  /\ Records(heap_mark_blocks_taken(t, start, n), held \cup {new})
           /\ new \in Allocation
           /\ start \in Blocks
           /\ heap_address_to_block(new.ptr) = start
           /\ BlocksOf(new) = start..(start + n - 1)
           /\ \A a \in held : BlocksOf(a) \cap BlocksOf(new) = {} /\ a.ptr # new.ptr
  <1> DEFINE u == heap_mark_blocks_taken(t, start, n)
  <1>1. n \in Nat /\ n > 0 /\ n =< Slack
    BY HeapAssumption
  <1>2. /\ start \in Blocks
        /\ \A i \in start..(start + n - 1) : i \in Blocks => IsFree(t, i)
    BY <1>1, StartIsFree
  <1>3. new \in Allocation
    BY <1>1, <1>2, CellsFacts DEF Allocation
  <1>4. /\ heap_address_to_block(new.ptr) = start
        /\ BlocksOf(new) = start..(start + n - 1)
    BY <1>1, <1>2, AddressRoundTrip, CellsFacts DEF BlocksOf
  <1>5. new.blocks = n
    OBVIOUS
  <1>6. \A c \in Cells : u[c] = IF c \in start..(start + n - 1)
                               THEN TakenEntry(c - start, n) ELSE t[c]
    BY DEF heap_mark_blocks_taken
  <1>7. u \in [Cells -> SUBSET Flags]
    BY TableType DEF Records
  <1> HIDE DEF u
  <1>8. ASSUME NEW a \in held
        PROVE  BlocksOf(a) \cap BlocksOf(new) = {}
    <2>1. SUFFICES ASSUME NEW c \in BlocksOf(a), c \in BlocksOf(new)
                   PROVE  FALSE
      OBVIOUS
    <2> DEFINE first == heap_address_to_block(a.ptr)
    <2>2. first \in Blocks /\ a.blocks \in Nat /\ BlocksOf(a) = first..(first + a.blocks - 1)
      BY AllocationFacts DEF Records
    <2>3. PICK d \in Blocks : d \in BlocksOf(a) /\ d \in BlocksOf(new)
      <3> HIDE DEF first
      <3>1. CASE c < Total
        BY <1>2, <1>4, <2>1, <3>1, CellsFacts
      <3>2. CASE c >= Total
        <4>1. Total - 1 \in Blocks
          BY CellsFacts
        <4>2. Total - 1 \in BlocksOf(a)
          BY <2>2, <3>2, CellsFacts
        <4>3. Total - 1 \in BlocksOf(new)
          BY <1>1, <1>2, <1>4, <2>1, <3>2, CellsFacts
        <4> QED
          BY <4>1, <4>2, <4>3
      <3>3. c \in Int
        BY <1>4, <2>1, <1>1, <1>2, CellsFacts
      <3> QED
        BY <3>1, <3>2, <3>3, CellsFacts
    <2>4. t[d] = TakenEntry(d - first, a.blocks)
      BY <2>3 DEF Records, Marked
    <2>5. "TAKEN" \in t[d]
      BY <2>4 DEF TakenEntry
    <2>6. IsFree(t, d)
      BY <1>2, <1>4, <2>3
    <2> QED
      BY <2>5, <2>6 DEF IsFree
  <1>9. ASSUME NEW a \in held
        PROVE  a.ptr # new.ptr
    <2>1. start \in BlocksOf(new)
      BY <1>1, <1>2, <1>4, CellsFacts
    <2>2. a \in Allocation /\ a.blocks >= 1
      BY DEF Records
    <2>3. heap_address_to_block(a.ptr) \in BlocksOf(a)
      BY <2>2, AllocationFacts, CellsFacts
    <2> QED
      BY <1>4, <1>8, <2>1, <2>3
  <1>10. BelowStops(u)
    BY <1>2, <1>6, CellsFacts DEF Records, BelowStops
  <1>11. Marked(u, held \cup {new})
    <2>1. ASSUME NEW a \in held, NEW c \in BlocksOf(a) \cap Blocks
          PROVE  u[c] = TakenEntry(c - heap_address_to_block(a.ptr), a.blocks)
      <3>1. c \notin BlocksOf(new) /\ c \in Cells
        BY <1>8, <2>1, CellsFacts
      <3>2. u[c] = t[c]
        BY <1>4, <1>6, <3>1
      <3> QED
        BY <2>1, <3>2 DEF Records, Marked
    <2>2. ASSUME NEW c \in BlocksOf(new) \cap Blocks
          PROVE  u[c] = TakenEntry(c - heap_address_to_block(new.ptr), new.blocks)
      BY <1>4, <1>5, <1>6, CellsFacts
    <2>3. ASSUME NEW c \in Blocks, \A a \in held \cup {new} : c \notin BlocksOf(a)
          PROVE  u[c] = {}
      <3>1. t[c] = {}
        BY <2>3 DEF Records, Marked
      <3>2. c \notin BlocksOf(new) /\ c \in Cells
        BY <2>3, CellsFacts
      <3> QED
        BY <1>4, <1>6, <3>1, <3>2
    <2> QED
      BY <2>1, <2>2, <2>3 DEF Marked
  <1>12. Disjoint(held \cup {new})
    BY <1>8 DEF Records, Disjoint
  <1>13. Records(u, held \cup {new})
    BY <1>1, <1>3, <1>5, <1>7, <1>10, <1>11, <1>12 DEF Records
  <1> QED
    BY <1>2, <1>3, <1>4, <1>8, <1>9, <1>13 DEF u

\* heap_free of a recorded allocation removes it and changes no other byte.
LEMMA FreedRecords ==
    ASSUME NEW t, NEW held, Records(t, held), NEW a \in held
    PROVE  /\ Records(heap_mark_blocks_free(t, heap_address_to_block(a.ptr)), held \ {a})
           /\ \A c \in Blocks \ BlocksOf(a) :
                heap_mark_blocks_free(t, heap_address_to_block(a.ptr))[c] = t[c]
  <1> DEFINE u == heap_mark_blocks_free(t, heap_address_to_block(a.ptr))
  <1>1. Chain(t, heap_address_to_block(a.ptr)) = BlocksOf(a) \cap Blocks
    BY ChainIsAllocation
  <1>2. \A c \in Cells : u[c] = IF c \in BlocksOf(a) \cap Blocks THEN {} ELSE t[c]
    BY <1>1 DEF heap_mark_blocks_free
  <1>3. u \in [Cells -> SUBSET Flags]
    BY TableType DEF Records
  <1> HIDE DEF u
  <1>4. BelowStops(u)
    BY <1>2, CellsFacts DEF Records, BelowStops
  <1>5. Marked(u, held \ {a})
    <2>1. ASSUME NEW b \in held \ {a}, NEW c \in BlocksOf(b) \cap Blocks
          PROVE  u[c] = TakenEntry(c - heap_address_to_block(b.ptr), b.blocks)
      <3>1. c \notin BlocksOf(a)
        BY <2>1 DEF Records, Disjoint
      <3>2. u[c] = t[c]
        BY <1>2, <3>1, CellsFacts
      <3> QED
        BY <3>2 DEF Records, Marked
    <2>2. ASSUME NEW c \in Blocks, \A b \in held \ {a} : c \notin BlocksOf(b)
          PROVE  u[c] = {}
      <3>1. CASE c \in BlocksOf(a)
        BY <1>2, <3>1, CellsFacts
      <3>2. CASE c \notin BlocksOf(a)
        <4>1. \A b \in held : c \notin BlocksOf(b)
          BY <2>2, <3>2
        <4> QED
          BY <1>2, <3>2, <4>1, CellsFacts DEF Records, Marked
      <3> QED
        BY <3>1, <3>2
    <2> QED
      BY <2>1, <2>2 DEF Marked
  <1>6. Records(u, held \ {a})
    BY <1>3, <1>4, <1>5 DEF Records, Disjoint
  <1>7. \A c \in Blocks \ BlocksOf(a) : u[c] = t[c]
    BY <1>2, CellsFacts
  <1> QED
    BY <1>6, <1>7 DEF u

\* heap_free(0) leaves the table as it is.
LEMMA NullFreedRecords ==
    ASSUME NEW t, NEW held, Records(t, held)
    PROVE  /\ Records(heap_mark_blocks_free(t, heap_address_to_block(NULL)), held)
           /\ \A c \in Blocks : heap_mark_blocks_free(t, heap_address_to_block(NULL))[c] = t[c]
  <1> DEFINE u == heap_mark_blocks_free(t, heap_address_to_block(NULL))
  <1>1. u = heap_mark_blocks_free(t, NullBlock)
    BY NullBelow
  <1>2. \A c \in Cells : u[c] = IF c \in Chain(t, NullBlock) THEN {} ELSE t[c]
    BY <1>1 DEF heap_mark_blocks_free
  <1>3. u \in [Cells -> SUBSET Flags]
    BY TableType DEF Records
  <1> HIDE DEF u
  <1>4. \A c \in Blocks : u[c] = t[c]
    BY <1>2, NullChainBelow, CellsFacts DEF Records
  <1>5. BelowStops(u)
    BY <1>2 DEF Records, BelowStops
  <1>6. Marked(u, held)
    BY <1>4 DEF Records, Marked
  <1>7. Records(u, held)
    BY <1>3, <1>5, <1>6 DEF Records
  <1> QED
    BY <1>4, <1>7 DEF u
=============================================================================
