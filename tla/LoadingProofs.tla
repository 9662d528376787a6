---------------------------- MODULE LoadingProofs ----------------------------
(***************************************************************************)
(* Proofs about Loading.tla: for any heap, page tables of any size, any    *)
(* files and any number of loads, whichever of their allocations fail.     *)
(***************************************************************************)
EXTENDS Loading, HeapTableProofs, FiniteSetTheorems

\* No file is so large that its size, rounded up to blocks, wraps to zero:
\* such a request marks nothing (run process_zero).
NonzeroFiles == \A f \in FileSet : f.size > 0 => BlocksFor(f.size) > 0

-----------------------------------------------------------------------------
(* The memory and who holds what                                           *)

Kinds0 == {"process", "elf_file", "elf_memory", "binary", "stack", "task",
           "directory", "table", "chunk", "path", "handle", "descriptor", "tmp", "malloc"}

Owners == [load : Loads \cup {Kernel}, kind : Kinds0]

Pieces == [ptr : Addresses, blocks : 1..Slack, owner : Owners]

Memory == [entries : [Cells -> SUBSET Flags], ram : [Pages -> [Indexes -> Entry]],
           held : SUBSET Pieces]

Piece(l, kind, ptr, n) == [ptr |-> ptr, blocks |-> n, owner |-> [load |-> l, kind |-> kind]]

\* Allocations without their owners, as the heap's table knows them
Bare(held) == {[ptr |-> a.ptr, blocks |-> a.blocks] : a \in held}

\* The heap's table records what is held, and each pointer has one owner.
MemOK(m) ==
    /\ m \in Memory
    /\ Records(m.entries, Bare(m.held))
    /\ \A a, b \in m.held : a.ptr = b.ptr => a = b

\* What load l holds
Mine(m, l) == {a \in m.held : a.owner.load = l}

-----------------------------------------------------------------------------
(* Address spaces                                                          *)

\* The directory of a chunk and its tables
Dir(m, chunk) == directory_entry(m, chunk)
Tables(m, chunk) == [j \in Indexes |-> m.ram[PageOf(Dir(m, chunk))][j].page * PageSize]

\* The pieces of a space with chunk c, directory d and tables t
SpacePieces(l, c, d, t) ==
    {Piece(l, "chunk", c, 1), Piece(l, "directory", d, 1)}
        \cup {Piece(l, "table", t[j], 1) : j \in Indexes}

\* In memory m load l has the space of chunk c with directory d and tables t,
\* in which the processor finds the entries of view.
SpaceAt(m, l, c, d, t, view) ==
    /\ SpacePieces(l, c, d, t) \subseteq m.held
    /\ t \in [Indexes -> Addresses]
    /\ \A j, k \in Indexes : t[j] = t[k] => j = k
    /\ m.ram[PageOf(c)][0].page = PageOf(d)
    /\ \A j \in Indexes : m.ram[PageOf(d)][j].page = PageOf(t[j])
    /\ \A j, b \in Indexes : m.ram[PageOf(t[j])][b] = view[j * Entries + b]

Space(m, l, c, view) == SpaceAt(m, l, c, Dir(m, c), Tables(m, c), view)

PageCount == Entries * Entries

PlainView(flags) == [v \in Pages |-> Plain(v, flags)]

\* The view after paging_map_range of count pages from page v on, to the
\* pages from q on; both wrap around at the end of the address space.
Ranged(view, v, q, count, flags) ==
    [w \in Pages |->
        IF (w - v) % PageCount < count
        THEN [page |-> (q + ((w - v) % PageCount)) % PageCount, flags |-> flags]
        ELSE view[w]]

\* The end that process.c computes for n bytes at phys, whether paging_map_to
\* accepts it, and the pages it then maps
EndOf(phys, n) == paging_align_address((phys + n) % Word)
Accepts(phys, n) == EndOf(phys, n) >= paging_align_to_lower_page(phys)
CountOf(phys, n) == (EndOf(phys, n) - paging_align_to_lower_page(phys)) \div PageSize

Mapped(view, virt, phys, n, flags) ==
    Ranged(view, PageOf(virt), PageOf(phys), CountOf(phys, n), flags)

PhysOf(memory, ph) == (memory + ph.offset) % Word

\* The view after the segments of a file at memory are mapped in order
ElfView(f, memory) ==
    LET after[j \in 0..Len(f.phdrs)] ==
            IF j = 0 THEN PlainView(UserFlags)
            ELSE Mapped(after[j - 1], f.phdrs[j].vaddr, PhysOf(memory, f.phdrs[j]),
                        f.phdrs[j].memsz, SegmentFlags(f.phdrs[j]))
    IN  after[Len(f.phdrs)]

BinaryView(f, memory) ==
    Mapped(Mapped(PlainView(UserFlags), ProgramAddress, memory, f.size, UserWritable),
           VideoAddress, VideoAddress, VideoSize, UserWritable)

\* The view of a running process
ViewOf(p) ==
    Mapped(IF p.filetype = "ELF" THEN ElfView(p.file, p.memory) ELSE BinaryView(p.file, p.memory),
           StackEnd, p.stack, StackSize, UserWritable)

-----------------------------------------------------------------------------
(* The inductive invariant                                                 *)

\* Where kzalloc may say that memory is
Places == Addresses \cup {NULL}

Bounds == [vbase : Nat, vend : Nat, pbase : Nat, pend : Nat]

Process ==
    [state : {"none", "running", "failed", "ended"}, res : Results, file : FileSet,
     filetype : {"ELF", "BINARY"}, elf_file : Places, memory : Places, bounds : Bounds,
     stack : Places, task : Places, chunk : Places]

\* What the loader holds for process p of load l
DataPieces(l, p) ==
    IF p.filetype = "ELF"
    THEN {a \in {Piece(l, "elf_file", p.elf_file, 1),
                 Piece(l, "elf_memory", p.memory, BlocksFor(p.file.size))} : a.ptr # NULL}
    ELSE {Piece(l, "binary", p.memory, BlocksFor(p.file.size))}

LoadPieces(l, p) ==
    DataPieces(l, p) \cup {Piece(l, "stack", p.stack, BlocksFor(StackSize)),
                           Piece(l, "task", p.task, 1)}

\* What else load l may hold while it runs
Rest(p) == {"process", "path"} \cup Attempt(p)

Alive(m, l, p) ==
    /\ Space(m, l, p.chunk, ViewOf(p))
    /\ LoadPieces(l, p) \subseteq m.held
    /\ \E a \in Mine(m, l) : a.owner.kind = "process"
    /\ \E a \in Mine(m, l) : a.owner.kind = "path"
    /\ \A a \in Mine(m, l) :
            \/ a \in LoadPieces(l, p)
            \/ a \in SpacePieces(l, p.chunk, Dir(m, p.chunk), Tables(m, p.chunk))
            \/ a.owner.kind \in Rest(p)
    /\ p.filetype = "ELF" =>
            /\ p.elf_file # NULL
            /\ p.bounds = elf_process_pheaders(p.file, p.memory)
            /\ \A j \in DOMAIN p.file.phdrs :
                    Accepts(PhysOf(p.memory, p.file.phdrs[j]), p.file.phdrs[j].memsz)
    /\ p.file.size > 0

\* The kinds of pieces that a failed load keeps
FailedKinds == {"process", "path", "handle", "elf_file", "elf_memory", "binary", "stack"}

Status(m, l, p, crash) ==
    CASE p.state = "none" -> Mine(m, l) = {}
      [] p.state = "running" -> Alive(m, l, p)
      [] p.state = "ended" ->
            /\ \E a \in Mine(m, l) : a.owner.kind = "process"
            /\ \E a \in Mine(m, l) : a.owner.kind = "path"
            /\ \A a \in Mine(m, l) : a.owner.kind \in Rest(p)
      [] p.state = "failed" ->
            crash \/ \A a \in Mine(m, l) : a.owner.kind \in FailedKinds

IInv ==
    /\ MemOK(mem)
    /\ procs \in [Loads -> Process]
    /\ crashed \in BOOLEAN
    /\ Space(mem, Kernel, kernel_chunk, PlainView(UserWritable))
    /\ \A l \in Loads : Status(mem, l, procs[l], crashed)

-----------------------------------------------------------------------------
(* Pages                                                                   *)

FirstPage == PageOf(HeapStart)

\* A product and its parts
LEMMA Product ==
    ASSUME NEW x \in Nat \ {0}, NEW y \in Nat \ {0}
    PROVE  x * y \in Nat \ {0} /\ x * y >= x /\ x * y >= y
  BY Z3

LEMMA PageFacts ==
    /\ BlockSize \in Nat \ {0} /\ PageSize = BlockSize
    /\ Entries \in Nat \ {0} /\ Indexes = 0..(Entries - 1)
    /\ PageCount \in Nat \ {0} /\ Pages = 0..(PageCount - 1) /\ PageCount = Entries * Entries
    /\ Word \in Nat \ {0} /\ Word = PageCount * BlockSize
    /\ HeapStart \in Nat /\ FirstPage \in Nat \ {0} /\ HeapStart = FirstPage * BlockSize
    /\ NullBlock = -FirstPage
    /\ Total \in Nat \ {0} /\ Slack \in Nat
    /\ FirstPage + Total + Slack =< PageCount
  <1>1. /\ BlockSize \in Nat \ {0} /\ HeapStart \in Nat \ {0} /\ HeapStart % BlockSize = 0
        /\ Word \in Nat \ {0} /\ Slack \in Nat
    BY HeapAssumption
  <1>2. Entries \in Nat \ {0} /\ Word = Entries * Entries * BlockSize
        /\ HeapStart + HeapBytes + Slack * BlockSize =< Word
    BY PagingAssumption DEF PageSize
  <1>3. PageCount \in Nat \ {0}
    BY <1>2, Product DEF PageCount
  <1>4. FirstPage \in Nat /\ HeapStart = FirstPage * BlockSize
    BY <1>1, Z3 DEF FirstPage, PageOf, PageSize
  <1>5. FirstPage # 0
    BY <1>1, <1>4, Z3
  <1>6. NullBlock = -FirstPage
    BY DEF NullBlock, FirstPage, PageOf, PageSize
  <1>7. Total \in Nat \ {0} /\ HeapBytes = Total * BlockSize
    BY TotalNat
  <1>8. (FirstPage + Total + Slack) * BlockSize =< PageCount * BlockSize
    BY <1>1, <1>2, <1>3, <1>4, <1>7, Z3 DEF PageCount
  <1>9. FirstPage + Total + Slack =< PageCount
    BY <1>1, <1>3, <1>4, <1>7, <1>8, Z3
  <1> QED
    BY <1>1, <1>2, <1>3, <1>4, <1>5, <1>6, <1>7, <1>9 DEF PageSize, Pages, Indexes, PageCount

\* The page and the offset of an address
LEMMA PageOfSum ==
    ASSUME NEW q \in Int, NEW r \in 0..(PageSize - 1)
    PROVE  PageOf(q * PageSize + r) = q /\ (q * PageSize + r) % PageSize = r
  <1>1. PageSize \in Nat \ {0}
    BY PageFacts
  <1> QED
    BY <1>1, Z3 DEF PageOf

LEMMA PageOfPage ==
    ASSUME NEW q \in Int
    PROVE  PageOf(q * PageSize) = q /\ (q * PageSize) % PageSize = 0
  <1>1. PageSize \in Nat \ {0}
    BY PageFacts
  <1> QED
    BY <1>1, Multiple DEF PageOf

LEMMA NullPage == PageOf(NULL) = 0 /\ NULL = 0
  <1>1. PageSize \in Nat \ {0}
    BY PageFacts
  <1> QED
    BY <1>1, Z3 DEF PageOf, NULL

\* Every address has a page and an offset.
LEMMA PageSplit ==
    ASSUME NEW x \in Int
    PROVE  \E q \in Int : \E r \in 0..(PageSize - 1) :
               x = q * PageSize + r /\ PageOf(x) = q /\ x % PageSize = r
  <1>1. PageSize \in Nat \ {0}
    BY PageFacts
  <1>2. PICK q \in Int, r \in 0..(PageSize - 1) : x = q * PageSize + r /\ x % PageSize = r
    BY <1>1, DivMod, Zenon
  <1>3. PageOf(x) = q
    BY <1>2, PageOfSum
  <1> QED
    BY <1>2, <1>3, Zenon

\* The pages of the heap
LEMMA AddressPage ==
    ASSUME NEW p \in Addresses
    PROVE  /\ heap_address_to_block(p) \in Blocks
           /\ p = heap_block_to_address(heap_address_to_block(p))
           /\ PageOf(p) = FirstPage + heap_address_to_block(p)
           /\ p = PageOf(p) * PageSize
           /\ PageOf(p) \in FirstPage..(FirstPage + Total - 1)
           /\ p \in Nat /\ p # NULL /\ p % PageSize = 0
  <1>1. PICK b \in Blocks : p = heap_block_to_address(b)
    BY DEF Addresses
  <1>2. b \in Nat /\ b < Total
    BY <1>1, CellsFacts
  <1>3. heap_address_to_block(p) = b
    BY <1>1, <1>2, AddressRoundTrip
  <1>4. PICK q \in Nat : q = FirstPage + b
    BY <1>2, PageFacts
  <1>5. p = q * PageSize
    BY <1>1, <1>2, <1>4, PageFacts, Z3 DEF heap_block_to_address
  <1>6. PageOf(p) = q /\ p % PageSize = 0
    BY <1>4, <1>5, PageOfPage
  <1>7. p \in Nat \ {0}
    <2>1. q \in Nat \ {0} /\ PageSize \in Nat \ {0}
      BY <1>2, <1>4, PageFacts
    <2> QED
      BY <1>5, <2>1, Product
  <1> QED
    BY <1>1, <1>2, <1>3, <1>4, <1>5, <1>6, <1>7, PageFacts DEF NULL

LEMMA AddressOfBlock ==
    ASSUME NEW b \in Blocks
    PROVE  heap_block_to_address(b) \in Addresses /\ PageOf(heap_block_to_address(b)) = FirstPage + b
  <1>1. heap_block_to_address(b) \in Addresses
    BY DEF Addresses
  <1>2. heap_address_to_block(heap_block_to_address(b)) = b
    BY AddressRoundTrip, CellsFacts
  <1> QED
    BY <1>1, <1>2, AddressPage

BareOf(a) == [ptr |-> a.ptr, blocks |-> a.blocks]

\* The pages of a piece are those of its blocks.
LEMMA PieceFacts ==
    ASSUME NEW a \in Pieces
    PROVE  /\ BareOf(a) \in Allocation /\ BareOf(a).blocks >= 1
           /\ a.ptr \in Addresses /\ a.blocks \in 1..Slack /\ a.owner \in Owners
           /\ PagesHeld(a) = PageOf(a.ptr)..(PageOf(a.ptr) + a.blocks - 1)
           /\ PagesHeld(a) \subseteq 1..(PageCount - 1)
           /\ PageOf(a.ptr) \in PagesHeld(a)
           /\ \A q \in Int : q \in PagesHeld(a) <=> q - FirstPage \in BlocksOf(BareOf(a))
  <1>1. a.ptr \in Addresses /\ a.blocks \in 1..Slack /\ a.owner \in Owners
    BY DEF Pieces
  <1>2. BareOf(a) \in Allocation /\ BareOf(a).blocks >= 1
    BY <1>1, PageFacts DEF BareOf, Allocation, Addresses
  <1>3. BlocksOf(BareOf(a)) = heap_address_to_block(a.ptr)..(heap_address_to_block(a.ptr) + a.blocks - 1)
    BY DEF BlocksOf, BareOf
  <1>4. PICK b \in Nat : b = heap_address_to_block(a.ptr) /\ b < Total /\ PageOf(a.ptr) = FirstPage + b
    BY <1>1, AddressPage, CellsFacts
  <1>5. PagesHeld(a) = PageOf(a.ptr)..(PageOf(a.ptr) + a.blocks - 1)
    BY DEF PagesHeld
  <1>6. PagesHeld(a) \subseteq 1..(PageCount - 1)
    BY <1>1, <1>4, <1>5, PageFacts
  <1>7. PageOf(a.ptr) \in PagesHeld(a)
    BY <1>1, <1>4, <1>5, PageFacts
  <1>8. \A q \in Int : q \in PagesHeld(a) <=> q - FirstPage \in BlocksOf(BareOf(a))
    BY <1>1, <1>3, <1>4, <1>5, PageFacts
  <1> QED
    BY <1>1, <1>2, <1>5, <1>6, <1>7, <1>8

-----------------------------------------------------------------------------
(* kzalloc and kfree                                                       *)

\* Memory n is memory m after allocations, of which the pieces D are left.
Grown(m, n, D) ==
    /\ MemOK(n)
    /\ n.held = m.held \cup D
    /\ m.held \cap D = {}
    /\ \A a \in m.held : \A q \in PagesHeld(a) : n.ram[q] = m.ram[q]

\* The heap has no free block.
Full(t) == \A b \in Blocks : ~IsFree(t, b)

LEMMA MemoryFields ==
    ASSUME NEW m \in Memory
    PROVE  /\ m.entries \in [Cells -> SUBSET Flags]
           /\ m.ram \in [Pages -> [Indexes -> Entry]]
           /\ m.held \in SUBSET Pieces
           /\ m = [entries |-> m.entries, ram |-> m.ram, held |-> m.held]
  BY DEF Memory

LEMMA ZeroPageType == ZeroPage \in [Indexes -> Entry]
  <1>1. 0 \in Pages
    BY PageFacts
  <1> QED
    BY <1>1 DEF ZeroPage, Entry

LEMMA PieceType ==
    ASSUME NEW l \in Loads \cup {Kernel}, NEW kind \in Kinds0, NEW p \in Addresses, NEW n \in 1..Slack
    PROVE  /\ Piece(l, kind, p, n) \in Pieces
           /\ Piece(l, kind, p, n).ptr = p /\ Piece(l, kind, p, n).blocks = n
           /\ Piece(l, kind, p, n).owner.load = l /\ Piece(l, kind, p, n).owner.kind = kind
           /\ BareOf(Piece(l, kind, p, n)) = [ptr |-> p, blocks |-> n]
           /\ PagesHeld(Piece(l, kind, p, n)) = PageOf(p)..(PageOf(p) + n - 1)
  BY DEF Piece, Pieces, Owners, BareOf, PagesHeld

\* The memory after kzalloc has taken n blocks from s on
Got(m, s, n, l, kind) ==
    [entries |-> heap_mark_blocks_taken(m.entries, s, n),
     ram |-> [q \in Pages |-> IF q - PageOf(heap_block_to_address(s)) \in 0..(n - 1) THEN ZeroPage
                              ELSE m.ram[q]],
     held |-> m.held \cup {Piece(l, kind, heap_block_to_address(s), n)}]

LEMMA KzallocCases ==
    ASSUME NEW m, NEW size, NEW l, NEW kind, NEW n \in 1..Slack, n = BlocksFor(size),
           NEW s, s = heap_get_start_block(m.entries, n),
           NEW r, r = kzalloc(m, size, [load |-> l, kind |-> kind])
    PROVE  r = IF s < 0 THEN [mem |-> m, ptr |-> NULL]
               ELSE [mem |-> Got(m, s, n, l, kind), ptr |-> heap_block_to_address(s)]
  <1>1. \A p : {[ptr |-> p, blocks |-> k, owner |-> [load |-> l, kind |-> kind]] : k \in {n} \ {0}}
            = {Piece(l, kind, p, n)}
    BY PageFacts DEF Piece
  <1>2. r = IF s < 0 THEN [mem |-> m, ptr |-> NULL]
            ELSE [mem |-> [entries |-> heap_mark_blocks_taken(m.entries, s, n),
                           ram |-> [q \in Pages |->
                                      IF q - PageOf(heap_block_to_address(s)) \in 0..(n - 1)
                                      THEN ZeroPage ELSE m.ram[q]],
                           held |-> m.held \cup
                                {[ptr |-> heap_block_to_address(s), blocks |-> k,
                                  owner |-> [load |-> l, kind |-> kind]] : k \in {n} \ {0}}],
                  ptr |-> heap_block_to_address(s)]
    BY Zenon DEF kzalloc
  <1> QED
    BY <1>1, <1>2, Zenon DEF Got

\* What kzalloc answers and does, for any content of the memory
LEMMA KzallocType ==
    ASSUME NEW m \in Memory, NEW size, BlocksFor(size) \in 1..Slack,
           NEW l \in Loads \cup {Kernel}, NEW kind \in Kinds0,
           NEW r, r = kzalloc(m, size, [load |-> l, kind |-> kind])
    PROVE  /\ r.mem \in Memory /\ r.ptr \in Addresses \cup {NULL}
           /\ r = [mem |-> r.mem, ptr |-> r.ptr]
  <1>1. PICK n \in 1..Slack : n = BlocksFor(size)
    OBVIOUS
  <1>2. PICK s : s = heap_get_start_block(m.entries, n)
    OBVIOUS
  <1>3. PICK p : p = heap_block_to_address(s)
    OBVIOUS
  <1>4. s \in Blocks \cup {ENOMEM}
    BY <1>2, StartType, PageFacts
  <1>5. CASE s < 0
    <2>1. r = [mem |-> m, ptr |-> NULL]
      BY <1>1, <1>2, <1>5, KzallocCases
    <2> QED
      BY <2>1
  <1>6. CASE ~(s < 0)
    <2>1. s \in Blocks
      BY <1>4, <1>6 DEF ENOMEM
    <2>2. p \in Addresses
      BY <1>3, <2>1, AddressOfBlock
    <2>3. heap_mark_blocks_taken(m.entries, s, n) \in [Cells -> SUBSET Flags]
      BY MemoryFields, TableType
    <2>4. [q \in Pages |-> IF q - PageOf(p) \in 0..(n - 1) THEN ZeroPage ELSE m.ram[q]]
                \in [Pages -> [Indexes -> Entry]]
      BY MemoryFields, ZeroPageType
    <2>5. m.held \cup {Piece(l, kind, p, n)} \in SUBSET Pieces
      <3>1. Piece(l, kind, p, n) \in Pieces
        BY <2>2, PieceType
      <3>2. m.held \in SUBSET Pieces
        BY MemoryFields
      <3> QED
        BY <3>1, <3>2
    <2>6. r = [mem |-> Got(m, s, n, l, kind), ptr |-> p]
      BY <1>1, <1>2, <1>3, <1>6, KzallocCases
    <2>7. Got(m, s, n, l, kind) \in Memory
      BY <1>3, <2>3, <2>4, <2>5 DEF Memory, Got
    <2> QED
      BY <2>2, <2>6, <2>7
  <1> QED
    BY <1>5, <1>6

\* kzalloc gives memory that nobody holds, cleared, or leaves all as it is.
LEMMA KzallocGrows ==
    ASSUME NEW m, MemOK(m), NEW size, NEW n \in 1..Slack, n = BlocksFor(size),
           NEW l \in Loads \cup {Kernel}, NEW kind \in Kinds0,
           NEW r, r = kzalloc(m, size, [load |-> l, kind |-> kind]),
           r.ptr # NULL
    PROVE  /\ r.ptr \in Addresses
           /\ Piece(l, kind, r.ptr, n) \in Pieces
           /\ Grown(m, r.mem, {Piece(l, kind, r.ptr, n)})
           /\ \A q \in Pages : r.mem.ram[q] =
                IF q \in PagesHeld(Piece(l, kind, r.ptr, n)) THEN ZeroPage ELSE m.ram[q]
           /\ \A a \in m.held : PagesHeld(a) \cap PagesHeld(Piece(l, kind, r.ptr, n)) = {}
           /\ \A a \in m.held : a.ptr # r.ptr
  <1>1. m \in Memory /\ Records(m.entries, Bare(m.held)) /\ m.held \in SUBSET Pieces
    BY MemoryFields DEF MemOK
  <1>2. PICK s : s = heap_get_start_block(m.entries, n)
    OBVIOUS
  <1>3. PICK p : p = heap_block_to_address(s)
    OBVIOUS
  <1>4. ~(s < 0)
    <2> SUFFICES ASSUME s < 0 PROVE FALSE
      OBVIOUS
    <2>1. r = [mem |-> m, ptr |-> NULL]
      BY <1>2, KzallocCases
    <2> QED
      BY <2>1
  <1>5. s \in Blocks /\ s >= 0
    <2>1. s \in Blocks \cup {ENOMEM}
      BY <1>2, StartType, PageFacts
    <2> QED
      BY <1>4, <2>1, CellsFacts DEF ENOMEM
  <1>6. p \in Addresses /\ PageOf(p) = FirstPage + s
    BY <1>3, <1>5, AddressOfBlock
  <1>7. r = [mem |-> Got(m, s, n, l, kind), ptr |-> p]
    BY <1>2, <1>3, <1>4, KzallocCases
  <1>8. PICK new : new = Piece(l, kind, p, n)
    OBVIOUS
  <1>9. /\ new \in Pieces /\ new.ptr = p /\ new.blocks = n
        /\ BareOf(new) = [ptr |-> p, blocks |-> n]
        /\ PagesHeld(new) = PageOf(p)..(PageOf(p) + n - 1)
    BY <1>6, <1>8, PieceType
  <1>10. /\ Records(heap_mark_blocks_taken(m.entries, s, n), Bare(m.held) \cup {BareOf(new)})
         /\ \A b \in Bare(m.held) : BlocksOf(b) \cap BlocksOf(BareOf(new)) = {} /\ b.ptr # p
    <2>1. BareOf(new) = [ptr |-> heap_block_to_address(s), blocks |-> n] /\ BareOf(new).ptr = p
      BY <1>3, <1>9
    <2> QED
      BY <1>1, <1>2, <1>5, <2>1, TakenRecords
  <1>11. ASSUME NEW a \in m.held
         PROVE  a.ptr # p /\ PagesHeld(a) \cap PagesHeld(new) = {}
    <2>1. a \in Pieces /\ BareOf(a) \in Bare(m.held) /\ BareOf(a).ptr = a.ptr
      BY <1>1 DEF BareOf, Bare
    <2>2. BlocksOf(BareOf(a)) \cap BlocksOf(BareOf(new)) = {} /\ a.ptr # p
      BY <1>10, <2>1
    <2>3. ASSUME NEW q, q \in PagesHeld(a), q \in PagesHeld(new) PROVE FALSE
      <3>1. q \in Int
        BY <1>6, <1>9, <2>3, PageFacts
      <3>2. q - FirstPage \in BlocksOf(BareOf(a)) /\ q - FirstPage \in BlocksOf(BareOf(new))
        BY <1>9, <2>1, <2>3, <3>1, PieceFacts
      <3> QED
        BY <2>2, <3>2
    <2> QED
      BY <2>2, <2>3
  <1>12. PICK u : u = r.mem
    OBVIOUS
  <1>13. /\ u.entries = heap_mark_blocks_taken(m.entries, s, n)
         /\ u.held = m.held \cup {new}
         /\ \A q \in Pages : u.ram[q] = IF q - PageOf(p) \in 0..(n - 1) THEN ZeroPage ELSE m.ram[q]
         /\ r.ptr = p
    BY <1>3, <1>7, <1>8, <1>12 DEF Got
  <1>14. u \in Memory
    BY <1>1, <1>12, KzallocType
  <1>15. Bare(u.held) = Bare(m.held) \cup {BareOf(new)}
    BY <1>13 DEF Bare, BareOf
  <1>16. MemOK(u)
    <2>1. \A a, b \in u.held : a.ptr = b.ptr => a = b
      BY <1>9, <1>11, <1>13 DEF MemOK
    <2> QED
      BY <1>10, <1>13, <1>14, <1>15, <2>1 DEF MemOK
  <1>17. \A q \in Pages : u.ram[q] = IF q \in PagesHeld(new) THEN ZeroPage ELSE m.ram[q]
    <2>1. \A q \in Pages : q - PageOf(p) \in 0..(n - 1) <=> q \in PagesHeld(new)
      BY <1>5, <1>6, <1>9, PageFacts, CellsFacts
    <2> QED
      BY <1>13, <2>1
  <1>18. \A a \in m.held : \A q \in PagesHeld(a) : u.ram[q] = m.ram[q]
    <2>1. ASSUME NEW a \in m.held, NEW q \in PagesHeld(a) PROVE u.ram[q] = m.ram[q]
      <3>1. q \in Pages
        BY <1>1, PieceFacts, PageFacts
      <3> QED
        BY <1>11, <1>17, <3>1
    <2> QED
      BY <2>1
  <1>19. m.held \cap {new} = {}
    BY <1>9, <1>11
  <1>20. Grown(m, u, {new})
    BY <1>13, <1>16, <1>18, <1>19 DEF Grown
  <1> QED
    BY <1>6, <1>8, <1>9, <1>11, <1>12, <1>13, <1>17, <1>20

LEMMA KzallocRefused ==
    ASSUME NEW m, NEW size, BlocksFor(size) \in 1..Slack, NEW l, NEW kind,
           NEW r, r = kzalloc(m, size, [load |-> l, kind |-> kind]), r.ptr = NULL
    PROVE  r.mem = m
  <1>1. PICK n \in 1..Slack : n = BlocksFor(size)
    OBVIOUS
  <1>2. PICK s : s = heap_get_start_block(m.entries, n)
    OBVIOUS
  <1>3. PICK p : p = heap_block_to_address(s)
    OBVIOUS
  <1>4. CASE s < 0
    <2>1. r = [mem |-> m, ptr |-> NULL]
      BY <1>1, <1>2, <1>4, KzallocCases
    <2> QED
      BY <2>1
  <1>5. CASE ~(s < 0)
    <2>1. s \in Blocks
      BY <1>2, <1>5, StartType, PageFacts DEF ENOMEM
    <2>2. p \in Addresses
      BY <1>3, <2>1, AddressOfBlock
    <2>3. r = [mem |-> Got(m, s, n, l, kind), ptr |-> p]
      BY <1>1, <1>2, <1>3, <1>5, KzallocCases
    <2> QED
      BY <2>2, <2>3, AddressPage
  <1> QED
    BY <1>4, <1>5

\* A request for one block is refused exactly when no block is free.
LEMMA RefusedIsFull ==
    ASSUME NEW m, NEW size, BlocksFor(size) = 1, NEW l, NEW kind,
           NEW r, r = kzalloc(m, size, [load |-> l, kind |-> kind]), 1 =< Slack
    PROVE  r.ptr = NULL <=> Full(m.entries)
  <1>1. PICK n \in 1..Slack : n = 1 /\ n = BlocksFor(size)
    BY PageFacts
  <1>2. PICK s : s = heap_get_start_block(m.entries, n)
    OBVIOUS
  <1>3. PICK p : p = heap_block_to_address(s)
    OBVIOUS
  <1>4. s \in Blocks \cup {ENOMEM}
    BY <1>2, StartType, PageFacts
  <1>5. r.ptr = IF s < 0 THEN NULL ELSE p
    <2>1. r = IF s < 0 THEN [mem |-> m, ptr |-> NULL] ELSE [mem |-> Got(m, s, n, l, kind), ptr |-> p]
      BY <1>1, <1>2, <1>3, KzallocCases
    <2> QED
      BY <2>1
  <1>6. r.ptr = NULL <=> s = ENOMEM
    <2>1. CASE s \in Blocks
      <3>1. p # NULL /\ ~(s < 0) /\ s # ENOMEM
        BY <1>3, <2>1, AddressOfBlock, AddressPage, CellsFacts DEF ENOMEM
      <3> QED
        BY <1>5, <3>1
    <2>2. CASE s = ENOMEM
      BY <1>5, <2>2 DEF ENOMEM
    <2> QED
      BY <1>4, <2>1, <2>2
  <1>7. Fits(m.entries, n) = {b \in Blocks : IsFree(m.entries, b)}
    <2>1. \A b \in Blocks : b + n =< Total /\ b..(b + n - 1) = {b}
      BY <1>1, CellsFacts
    <2> QED
      BY <2>1 DEF Fits
  <1>8. CASE Full(m.entries)
    <2>1. Fits(m.entries, n) = {}
      BY <1>7, <1>8 DEF Full
    <2>2. Trailing(m.entries) = {}
      <3>1. \A b \in Blocks : b \in b..(Total - 1)
        BY CellsFacts
      <3> QED
        BY <1>8, <3>1 DEF Full, Trailing
    <2> QED
      BY <1>2, <1>6, <1>8, <2>1, <2>2 DEF heap_get_start_block
  <1>9. CASE ~Full(m.entries)
    <2>1. Fits(m.entries, n) # {} /\ Fits(m.entries, n) \subseteq Nat /\ Fits(m.entries, n) \subseteq Blocks
      BY <1>7, <1>9, CellsFacts DEF Full
    <2>2. s = Min(Fits(m.entries, n))
      BY <1>1, <1>2, <2>1 DEF heap_get_start_block
    <2>3. s \in Blocks
      BY <2>1, <2>2, MinIsLeast
    <2>4. s # ENOMEM
      BY <2>3, CellsFacts DEF ENOMEM
    <2> QED
      BY <1>6, <1>9, <2>4
  <1> QED
    BY <1>8, <1>9

LEMMA KfreeType ==
    ASSUME NEW m \in Memory, NEW p
    PROVE  /\ kfree(m, p) \in Memory
           /\ kfree(m, p).entries = heap_mark_blocks_free(m.entries, heap_address_to_block(p))
           /\ kfree(m, p).held = {a \in m.held : a.ptr # p}
           /\ kfree(m, p).ram = m.ram
  <1>1. PICK x : x = heap_mark_blocks_free(m.entries, heap_address_to_block(p))
    OBVIOUS
  <1>2. PICK y : y = {a \in m.held : a.ptr # p}
    OBVIOUS
  <1>3. kfree(m, p) = [m EXCEPT !.entries = x, !.held = y]
    BY <1>1, <1>2, Zenon DEF kfree
  <1>4. x \in [Cells -> SUBSET Flags]
    BY <1>1, MemoryFields, TableType
  <1>5. y \in SUBSET Pieces
    BY <1>2, MemoryFields
  <1> QED
    BY <1>1, <1>2, <1>3, <1>4, <1>5 DEF Memory

\* kfree of a null pointer changes nothing that matters.
LEMMA KfreeNull ==
    ASSUME NEW m, MemOK(m)
    PROVE  MemOK(kfree(m, NULL)) /\ kfree(m, NULL).held = m.held /\ kfree(m, NULL).ram = m.ram
  <1>1. m \in Memory /\ Records(m.entries, Bare(m.held)) /\ m.held \in SUBSET Pieces
    BY MemoryFields DEF MemOK
  <1>2. PICK n : n = kfree(m, NULL)
    OBVIOUS
  <1>3. /\ n \in Memory /\ n.ram = m.ram /\ n.held = {a \in m.held : a.ptr # NULL}
        /\ n.entries = heap_mark_blocks_free(m.entries, heap_address_to_block(NULL))
    BY <1>1, <1>2, KfreeType
  <1>4. \A a \in m.held : a.ptr # NULL
    BY <1>1, PieceFacts, AddressPage
  <1>5. n.held = m.held
    BY <1>3, <1>4
  <1>6. Records(n.entries, Bare(m.held))
    BY <1>1, <1>3, NullFreedRecords
  <1>7. MemOK(n)
    BY <1>3, <1>5, <1>6 DEF MemOK
  <1> QED
    BY <1>2, <1>3, <1>5, <1>7

\* kfree of a piece releases it and nothing else.
LEMMA KfreePiece ==
    ASSUME NEW m, MemOK(m), NEW a \in m.held
    PROVE  /\ MemOK(kfree(m, a.ptr))
           /\ kfree(m, a.ptr).held = m.held \ {a}
           /\ kfree(m, a.ptr).ram = m.ram
  <1>1. m \in Memory /\ Records(m.entries, Bare(m.held)) /\ m.held \in SUBSET Pieces
    BY MemoryFields DEF MemOK
  <1>2. PICK n : n = kfree(m, a.ptr)
    OBVIOUS
  <1>3. /\ n \in Memory /\ n.ram = m.ram /\ n.held = {b \in m.held : b.ptr # a.ptr}
        /\ n.entries = heap_mark_blocks_free(m.entries, heap_address_to_block(a.ptr))
    BY <1>1, <1>2, KfreeType
  <1>4. \A b, c \in m.held : b.ptr = c.ptr => b = c
    BY DEF MemOK
  <1>5. n.held = m.held \ {a}
    BY <1>3, <1>4
  <1>6. Bare(n.held) = Bare(m.held) \ {BareOf(a)}
    <2>1. ASSUME NEW b \in m.held, b # a PROVE BareOf(b) # BareOf(a)
      <3>1. b.ptr # a.ptr
        BY <1>4, <2>1
      <3> QED
        BY <3>1 DEF BareOf
    <2> QED
      BY <1>5, <2>1 DEF Bare, BareOf
  <1>7. BareOf(a) \in Bare(m.held) /\ BareOf(a).ptr = a.ptr
    BY DEF Bare, BareOf
  <1>8. Records(n.entries, Bare(m.held) \ {BareOf(a)})
    BY <1>1, <1>3, <1>7, FreedRecords
  <1>9. MemOK(n)
    BY <1>3, <1>4, <1>5, <1>6, <1>8 DEF MemOK
  <1> QED
    BY <1>2, <1>3, <1>5, <1>9

\* Pieces share no page.
LEMMA HeldDisjoint ==
    ASSUME NEW m, MemOK(m), NEW a \in m.held, NEW b \in m.held, a # b
    PROVE  PagesHeld(a) \cap PagesHeld(b) = {}
  <1>1. a \in Pieces /\ b \in Pieces /\ Disjoint(Bare(m.held))
    BY MemoryFields DEF MemOK, Records
  <1>2. BareOf(a) # BareOf(b)
    <2>1. a.ptr # b.ptr
      BY DEF MemOK
    <2> QED
      BY <2>1 DEF BareOf
  <1>3. BareOf(a) \in Bare(m.held) /\ BareOf(b) \in Bare(m.held)
    BY DEF Bare, BareOf
  <1>4. BlocksOf(BareOf(a)) \cap BlocksOf(BareOf(b)) = {}
    BY <1>1, <1>2, <1>3 DEF Disjoint
  <1>5. ASSUME NEW q, q \in PagesHeld(a), q \in PagesHeld(b) PROVE FALSE
    <2>1. q \in Int
      BY <1>1, <1>5, PieceFacts, PageFacts
    <2>2. q - FirstPage \in BlocksOf(BareOf(a)) /\ q - FirstPage \in BlocksOf(BareOf(b))
      BY <1>1, <1>5, <2>1, PieceFacts
    <2> QED
      BY <1>4, <2>2
  <1> QED
    BY <1>5

\* A page of a piece is a page of memory, and not the first one.
LEMMA HeldPages ==
    ASSUME NEW m, MemOK(m), NEW a \in m.held, NEW q \in PagesHeld(a)
    PROVE  q \in Pages /\ q # 0
  <1>1. a \in Pieces
    BY MemoryFields DEF MemOK
  <1>2. q \in 1..(PageCount - 1)
    BY <1>1, PieceFacts
  <1> QED
    BY <1>2, PageFacts

LEMMA GrownSelf ==
    ASSUME NEW m, MemOK(m)
    PROVE  Grown(m, m, {})
  BY DEF Grown

LEMMA GrownTwice ==
    ASSUME NEW m, NEW n, NEW o, NEW D, NEW E, Grown(m, n, D), Grown(n, o, E)
    PROVE  Grown(m, o, D \cup E)
  <1>1. o.held = m.held \cup (D \cup E) /\ m.held \cap (D \cup E) = {} /\ MemOK(o)
    BY DEF Grown
  <1>2. ASSUME NEW a \in m.held, NEW q \in PagesHeld(a) PROVE o.ram[q] = m.ram[q]
    <2>1. a \in n.held
      BY DEF Grown
    <2> QED
      BY <2>1 DEF Grown
  <1> QED
    BY <1>1, <1>2 DEF Grown

LEMMA GrownFreed ==
    ASSUME NEW m, NEW n, NEW D, Grown(m, n, D), NEW a \in D
    PROVE  Grown(m, kfree(n, a.ptr), D \ {a})
  <1>1. MemOK(n) /\ a \in n.held
    BY DEF Grown
  <1>2. PICK o : o = kfree(n, a.ptr)
    OBVIOUS
  <1>3. MemOK(o) /\ o.held = n.held \ {a} /\ o.ram = n.ram
    BY <1>1, <1>2, KfreePiece
  <1>4. o.held = m.held \cup (D \ {a}) /\ m.held \cap (D \ {a}) = {}
    BY <1>3 DEF Grown
  <1>5. Grown(m, o, D \ {a})
    BY <1>3, <1>4 DEF Grown
  <1> QED
    BY <1>2, <1>5

\* Writing to what has been allocated, or to page 0, disturbs nobody else.
LEMMA GrownWritten ==
    ASSUME NEW m, NEW n, NEW D, Grown(m, n, D), NEW o \in Memory,
           o.entries = n.entries, o.held = n.held,
           \A q \in Pages : q # 0 /\ (\A a \in D : q \notin PagesHeld(a)) => o.ram[q] = n.ram[q]
    PROVE  Grown(m, o, D)
  <1>1. MemOK(o)
    BY DEF Grown, MemOK
  <1>2. ASSUME NEW a \in m.held, NEW q \in PagesHeld(a) PROVE o.ram[q] = m.ram[q]
    <2>1. MemOK(n) /\ a \in n.held
      BY DEF Grown
    <2>2. q \in Pages /\ q # 0
      BY <2>1, HeldPages
    <2>3. ASSUME NEW b \in D PROVE q \notin PagesHeld(b)
      <3>1. b \in n.held /\ a # b
        BY DEF Grown
      <3> QED
        BY <2>1, <3>1, HeldDisjoint
    <2>4. o.ram[q] = n.ram[q]
      BY <2>2, <2>3
    <2> QED
      BY <2>4 DEF Grown
  <1> QED
    BY <1>1, <1>2 DEF Grown

\* Nothing changes for the loads other than l.
Frame(m, n, l) ==
    \A k \in Loads \cup {Kernel} : k # l =>
        /\ Mine(n, k) = Mine(m, k)
        /\ \A a \in Mine(m, k) : \A q \in PagesHeld(a) : n.ram[q] = m.ram[q]

LEMMA GrownFrame ==
    ASSUME NEW m, NEW n, NEW D, Grown(m, n, D), NEW l, \A a \in D : a.owner.load = l
    PROVE  Frame(m, n, l)
  BY DEF Grown, Frame, Mine

-----------------------------------------------------------------------------
(* Directories and tables                                                  *)

LEMMA Quotient ==
    ASSUME NEW n \in Nat \ {0}, NEW q \in Int, NEW r \in 0..(n - 1)
    PROVE  (q * n + r) \div n = q /\ (q * n + r) % n = r
  BY Z3

\* The table and the slot of a page
LEMMA SlotOf ==
    ASSUME NEW j \in Indexes, NEW b \in Indexes
    PROVE  /\ j * Entries + b \in Pages
           /\ DirectoryIndex((j * Entries + b) * PageSize) = j
           /\ TableIndex((j * Entries + b) * PageSize) = b
  <1>1. /\ Entries \in Nat \ {0} /\ PageSize \in Nat \ {0} /\ j \in Nat /\ b \in Nat
        /\ j =< Entries - 1 /\ b =< Entries - 1
    BY PageFacts
  <1>2. j * Entries + b \in Pages
    <2>1. j * Entries =< (Entries - 1) * Entries /\ j * Entries \in Nat
      BY <1>1, Z3
    <2>2. (Entries - 1) * Entries = PageCount - Entries
      BY <1>1, Z3 DEF PageCount
    <2> QED
      BY <1>1, <2>1, <2>2, PageFacts
  <1>3. PICK n \in Nat \ {0} : n = Entries * PageSize
    BY <1>1, Product
  <1>4. PICK r \in Nat : r = b * PageSize
    BY <1>1, Z3
  <1>5. r \in 0..(n - 1)
    BY <1>1, <1>3, <1>4, Z3
  <1>6. (j * Entries + b) * PageSize = j * n + r
    BY <1>1, <1>3, <1>4, Z3
  <1>7. (j * n + r) \div n = j /\ (j * n + r) % n = r
    BY <1>1, <1>3, <1>5, Quotient
  <1>8. r \div PageSize = b
    BY <1>1, <1>4, Multiple
  <1> QED
    BY <1>2, <1>3, <1>6, <1>7, <1>8 DEF DirectoryIndex, TableIndex

LEMMA Slots ==
    ASSUME NEW v \in Pages
    PROVE  \E j \in Indexes, b \in Indexes : v = j * Entries + b
  <1>1. Entries \in Nat \ {0} /\ v \in Int /\ v >= 0 /\ v < Entries * Entries
    BY PageFacts
  <1>2. PICK j \in Int, b \in 0..(Entries - 1) : v = j * Entries + b /\ v % Entries = b
    BY <1>1, DivMod, Zenon
  <1>3. j >= 0 /\ j < Entries
    <2>1. b \in Int /\ b >= 0 /\ b < Entries
      BY <1>1
    <2> QED
      BY <1>1, <1>2, <2>1, Z3
  <1>4. j \in Indexes /\ b \in Indexes
    BY <1>1, <1>2, <1>3, PageFacts
  <1> QED
    BY <1>2, <1>4, Zenon

\* A slot is that of one page.
LEMMA SlotUnique ==
    ASSUME NEW j \in Indexes, NEW b \in Indexes, NEW k \in Indexes, NEW e \in Indexes,
           j * Entries + b = k * Entries + e
    PROVE  j = k /\ b = e
  BY SlotOf

LEMMA RamWritten ==
    ASSUME NEW m \in Memory, NEW p \in Pages, NEW b \in Indexes, NEW val \in Entry,
           NEW n, n = [m EXCEPT !.ram[p][b] = val]
    PROVE  /\ n \in Memory /\ n.entries = m.entries /\ n.held = m.held
           /\ \A x \in Pages : x # p => n.ram[x] = m.ram[x]
           /\ n.ram[p][b] = val
           /\ \A e \in Indexes : e # b => n.ram[p][e] = m.ram[p][e]
  <1>1. m.ram \in [Pages -> [Indexes -> Entry]]
    BY MemoryFields
  <1>2. PICK w : w = [m.ram EXCEPT ![p][b] = val]
    OBVIOUS
  <1>3. /\ w \in [Pages -> [Indexes -> Entry]]
        /\ \A x \in Pages : x # p => w[x] = m.ram[x]
        /\ w[p][b] = val
        /\ \A e \in Indexes : e # b => w[p][e] = m.ram[p][e]
    BY <1>1, <1>2
  <1>4. n = [m EXCEPT !.ram = w]
    BY <1>2
  <1>5. n \in Memory /\ n.entries = m.entries /\ n.held = m.held /\ n.ram = w
    BY <1>3, <1>4 DEF Memory
  <1> QED
    BY <1>3, <1>5

\* The pages that make up a space are pages of the heap, each its own.
LEMMA SpaceFacts ==
    ASSUME NEW m, MemOK(m), NEW l \in Loads \cup {Kernel}, NEW c, NEW d, NEW t, NEW view,
           SpaceAt(m, l, c, d, t, view)
    PROVE  /\ c \in Addresses /\ d \in Addresses
           /\ PageOf(c) \in Pages /\ PageOf(d) \in Pages /\ PageOf(c) # PageOf(d)
           /\ \A j \in Indexes : /\ PageOf(t[j]) \in Pages /\ t[j] \in Addresses
                                 /\ PageOf(t[j]) # PageOf(c) /\ PageOf(t[j]) # PageOf(d)
           /\ \A j, k \in Indexes : PageOf(t[j]) = PageOf(t[k]) => j = k
           /\ Dir(m, c) = d /\ Tables(m, c) = t
  <1>1. /\ Piece(l, "chunk", c, 1) \in m.held /\ Piece(l, "directory", d, 1) \in m.held
        /\ \A j \in Indexes : Piece(l, "table", t[j], 1) \in m.held
    BY DEF SpaceAt, SpacePieces
  <1>2. m.held \in SUBSET Pieces
    BY MemoryFields DEF MemOK
  <1>3. c \in Addresses /\ d \in Addresses /\ \A j \in Indexes : t[j] \in Addresses
    <2>1. Piece(l, "chunk", c, 1).ptr = c /\ Piece(l, "directory", d, 1).ptr = d
          /\ \A j \in Indexes : Piece(l, "table", t[j], 1).ptr = t[j]
      BY DEF Piece
    <2> QED
      BY <1>1, <1>2, <2>1, PieceFacts
  <1>4. \A p \in Addresses : PageOf(p) \in Pages /\ p = PageOf(p) * PageSize
    BY AddressPage, PageFacts
  <1>5. c # d /\ \A j \in Indexes : t[j] # c /\ t[j] # d
    <2>1. \A a, b \in m.held : a.ptr = b.ptr => a = b
      BY DEF MemOK
    <2>2. /\ Piece(l, "chunk", c, 1).ptr = c /\ Piece(l, "chunk", c, 1).owner.kind = "chunk"
          /\ Piece(l, "directory", d, 1).ptr = d
          /\ Piece(l, "directory", d, 1).owner.kind = "directory"
          /\ \A j \in Indexes : /\ Piece(l, "table", t[j], 1).ptr = t[j]
                                /\ Piece(l, "table", t[j], 1).owner.kind = "table"
      BY DEF Piece
    <2> QED
      BY <1>1, <2>1, <2>2
  <1>6. Dir(m, c) = d
    BY <1>3, <1>4 DEF Dir, directory_entry, SpaceAt
  <1>7. Tables(m, c) = t
    <2>1. \A j \in Indexes : m.ram[PageOf(d)][j].page * PageSize = t[j]
      BY <1>3, <1>4 DEF SpaceAt
    <2>2. t = [j \in Indexes |-> t[j]]
      BY DEF SpaceAt
    <2> QED
      BY <1>6, <2>1, <2>2 DEF Tables
  <1>8. \A j, k \in Indexes : PageOf(t[j]) = PageOf(t[k]) => j = k
    BY <1>3, <1>4 DEF SpaceAt
  <1> QED
    BY <1>3, <1>4, <1>5, <1>6, <1>7, <1>8

\* Memory n differs from m at most in the pages of the tables t.
Redrawn(m, n, t) ==
    /\ n \in Memory /\ n.entries = m.entries /\ n.held = m.held
    /\ \A x \in Pages : (\A j \in Indexes : x # PageOf(t[j])) => n.ram[x] = m.ram[x]

LEMMA RedrawnOK ==
    ASSUME NEW m, NEW n, NEW t, MemOK(m), Redrawn(m, n, t)
    PROVE  MemOK(n)
  BY DEF MemOK, Redrawn

LEMMA RedrawnTwice ==
    ASSUME NEW m, NEW n, NEW o, NEW t, Redrawn(m, n, t), Redrawn(n, o, t)
    PROVE  Redrawn(m, o, t)
  BY DEF Redrawn

\* paging_set of one page
LEMMA SetPage ==
    ASSUME NEW m, MemOK(m), NEW l \in Loads \cup {Kernel}, NEW c, NEW d, NEW t,
           NEW view \in [Pages -> Entry], SpaceAt(m, l, c, d, t, view),
           NEW v \in Pages, NEW val \in Entry,
           NEW n, n = paging_set(m, d, v * PageSize, val)
    PROVE  Redrawn(m, n, t) /\ SpaceAt(n, l, c, d, t, [view EXCEPT ![v] = val])
  <1>1. PICK j \in Indexes, b \in Indexes : v = j * Entries + b
    BY Slots
  <1>2. DirectoryIndex(v * PageSize) = j /\ TableIndex(v * PageSize) = b
    BY <1>1, SlotOf
  <1>3. TableOf(m, d, v * PageSize) = PageOf(t[j])
    BY <1>2 DEF TableOf, SpaceAt
  <1>4. n = [m EXCEPT !.ram[PageOf(t[j])][b] = val]
    BY <1>2, <1>3 DEF paging_set
  <1>5. /\ c \in Addresses /\ d \in Addresses
        /\ PageOf(c) \in Pages /\ PageOf(d) \in Pages /\ PageOf(c) # PageOf(d)
        /\ \A k \in Indexes : /\ PageOf(t[k]) \in Pages /\ t[k] \in Addresses
                              /\ PageOf(t[k]) # PageOf(c) /\ PageOf(t[k]) # PageOf(d)
        /\ \A i, k \in Indexes : PageOf(t[i]) = PageOf(t[k]) => i = k
    BY SpaceFacts
  <1>6. PICK p \in Pages : p = PageOf(t[j])
    BY <1>5
  <1>7. /\ n \in Memory /\ n.entries = m.entries /\ n.held = m.held
        /\ \A x \in Pages : x # p => n.ram[x] = m.ram[x]
        /\ n.ram[p][b] = val
        /\ \A e \in Indexes : e # b => n.ram[p][e] = m.ram[p][e]
    <2>1. m \in Memory
      BY DEF MemOK
    <2> QED
      BY <1>4, <1>6, <2>1, RamWritten
  <1>8. Redrawn(m, n, t)
    BY <1>6, <1>7 DEF Redrawn
  <1>9. n.ram[PageOf(c)] = m.ram[PageOf(c)] /\ n.ram[PageOf(d)] = m.ram[PageOf(d)]
    BY <1>5, <1>6, <1>7
  <1>10. ASSUME NEW k \in Indexes, NEW e \in Indexes
         PROVE  n.ram[PageOf(t[k])][e] = [view EXCEPT ![v] = val][k * Entries + e]
    <2>1. m.ram[PageOf(t[k])][e] = view[k * Entries + e]
      BY DEF SpaceAt
    <2>2. k * Entries + e \in Pages
      BY SlotOf
    <2>3. CASE k = j /\ e = b
      BY <1>1, <1>6, <1>7, <2>2, <2>3
    <2>4. CASE k = j /\ e # b
      <3>1. k * Entries + e # v
        BY <1>1, <2>4, SlotUnique
      <3> QED
        BY <1>6, <1>7, <2>1, <2>2, <2>4, <3>1
    <2>5. CASE k # j
      <3>1. k * Entries + e # v
        BY <1>1, <2>5, SlotUnique
      <3>2. PageOf(t[k]) # p
        BY <1>5, <1>6, <2>5
      <3> QED
        BY <1>5, <1>7, <2>1, <2>2, <3>1, <3>2
    <2> QED
      BY <2>3, <2>4, <2>5
  <1>11. SpaceAt(n, l, c, d, t, [view EXCEPT ![v] = val])
    BY <1>7, <1>9, <1>10 DEF SpaceAt
  <1> QED
    BY <1>8, <1>11

\* What paging_get finds
LEMMA GetPage ==
    ASSUME NEW m, NEW l, NEW c, NEW d, NEW t, NEW view, SpaceAt(m, l, c, d, t, view), NEW v \in Pages
    PROVE  paging_get(m, d, v * PageSize) = view[v]
  <1>1. PICK j \in Indexes, b \in Indexes : v = j * Entries + b
    BY Slots
  <1>2. DirectoryIndex(v * PageSize) = j /\ TableIndex(v * PageSize) = b
    BY <1>1, SlotOf
  <1>3. TableOf(m, d, v * PageSize) = PageOf(t[j])
    BY <1>2 DEF TableOf, SpaceAt
  <1> QED
    BY <1>1, <1>2, <1>3 DEF paging_get, SpaceAt

LEMMA MapPage ==
    ASSUME NEW m, MemOK(m), NEW l \in Loads \cup {Kernel}, NEW c, NEW d, NEW t,
           NEW view \in [Pages -> Entry], SpaceAt(m, l, c, d, t, view),
           NEW v \in Pages, NEW q \in Pages, NEW flags \in SUBSET PageFlags,
           NEW n, n = paging_map(m, c, v * PageSize, q * PageSize, flags)
    PROVE  /\ Redrawn(m, n, t)
           /\ SpaceAt(n, l, c, d, t, [view EXCEPT ![v] = [page |-> q, flags |-> flags]])
  <1>1. directory_entry(m, c) = d
    BY SpaceFacts DEF Dir
  <1>2. PageOf(q * PageSize) = q
    BY PageOfPage, PageFacts
  <1>3. PICK val \in Entry : val = [page |-> q, flags |-> flags]
    BY DEF Entry
  <1>4. n = paging_set(m, d, v * PageSize, val)
    BY <1>1, <1>2, <1>3 DEF paging_map
  <1> QED
    BY <1>3, <1>4, SetPage

-----------------------------------------------------------------------------
(* paging_map_range and paging_map_to                                      *)

\* Scaling the number and the modulus scales the remainder.
LEMMA ModScale ==
    ASSUME NEW n \in Nat \ {0}, NEW w \in Nat \ {0}, NEW x \in Int
    PROVE  (x * n) % (w * n) = (x % w) * n /\ x % w \in 0..(w - 1)
  <1>1. PICK q \in Int, r \in 0..(w - 1) : x = q * w + r /\ x % w = r
    BY DivMod, Zenon
  <1>2. PICK y \in Nat \ {0} : y = w * n
    BY Product
  <1>3. x * n = q * y + r * n /\ x * n \in Int
    BY <1>1, <1>2, Z3
  <1>4. r * n \in 0..(y - 1)
    BY <1>1, <1>2, Z3
  <1>5. (x * n) % y = r * n
    BY <1>2, <1>3, <1>4, ModUnique
  <1> QED
    BY <1>1, <1>2, <1>5

LEMMA ModRange ==
    ASSUME NEW w \in Nat \ {0}, NEW x \in Int
    PROVE  x % w \in 0..(w - 1) /\ x % w \in Int
  <1>1. PICK q \in Int, r \in 0..(w - 1) : x = q * w + r /\ x % w = r
    BY DivMod, Zenon
  <1> QED
    BY <1>1

LEMMA RangedType ==
    ASSUME NEW view \in [Pages -> Entry], NEW v \in Int, NEW q \in Int, NEW count,
           NEW flags \in SUBSET PageFlags
    PROVE  Ranged(view, v, q, count, flags) \in [Pages -> Entry]
  <1>1. ASSUME NEW w \in Pages
        PROVE  [page |-> (q + ((w - v) % PageCount)) % PageCount, flags |-> flags] \in Entry
    <2>1. PageCount \in Nat \ {0} /\ Pages = 0..(PageCount - 1) /\ w \in Int
      BY PageFacts
    <2>2. w - v \in Int
      BY <2>1
    <2>3. (w - v) % PageCount \in Int
      BY <2>1, <2>2, ModRange
    <2>4. PICK x \in Int : x = (w - v) % PageCount
      BY <2>3
    <2>5. q + x \in Int
      OBVIOUS
    <2>6. (q + x) % PageCount \in Pages
      BY <2>1, <2>5, ModRange
    <2> QED
      BY <2>4, <2>6 DEF Entry
  <1> QED
    BY <1>1 DEF Ranged

\* One more page of a range
LEMMA RangedMore ==
    ASSUME NEW view \in [Pages -> Entry], NEW v \in Int, NEW q \in Int, NEW i \in 0..(PageCount - 1),
           NEW flags \in SUBSET PageFlags
    PROVE  /\ (v + i) % PageCount \in Pages /\ (q + i) % PageCount \in Pages
           /\ Ranged(view, v, q, i + 1, flags) =
                [Ranged(view, v, q, i, flags) EXCEPT ![(v + i) % PageCount] =
                    [page |-> (q + i) % PageCount, flags |-> flags]]
  <1>1. PageCount \in Nat \ {0} /\ Pages = 0..(PageCount - 1) /\ i \in Int
    BY PageFacts
  <1>a. v + i \in Int /\ q + i \in Int
    BY <1>1
  <1>b. (v + i) % PageCount \in Pages /\ (q + i) % PageCount \in Pages
    BY <1>1, <1>a, ModRange
  <1>2. PICK at \in Pages : at = (v + i) % PageCount
    BY <1>b
  <1>3. (q + i) % PageCount \in Pages
    BY <1>b
  <1>4. ASSUME NEW w \in Pages
        PROVE  /\ (w - v) % PageCount \in Int
               /\ (w - v) % PageCount = i <=> w = at
    <2>1. w \in Int /\ at \in Int /\ w - v \in Int /\ v + i \in Int
      BY <1>1, <1>a, <1>2
    <2>2. PICK x \in Int, r \in 0..(PageCount - 1) : w - v = x * PageCount + r /\ (w - v) % PageCount = r
      BY <1>1, <2>1, DivMod, Zenon
    <2>3. PICK y \in Int, z \in 0..(PageCount - 1) : v + i = y * PageCount + z /\ (v + i) % PageCount = z
      BY <1>1, <2>1, DivMod, Zenon
    <2>4. ASSUME r = i PROVE w = z
      <3>1. w = (x + y) * PageCount + z /\ x + y \in Int
        BY <1>1, <2>1, <2>2, <2>3, <2>4, Z3
      <3>2. w = 0 * PageCount + w /\ w \in 0..(PageCount - 1)
        BY <1>1, Z3
      <3>3. w % PageCount = z
        BY <1>1, <2>1, <3>1, ModUnique
      <3>4. w % PageCount = w
        BY <1>1, <2>1, <3>2, ModUnique
      <3> QED
        BY <3>3, <3>4
    <2>5. ASSUME w = z PROVE r = i
      <3>1. w - v = (0 - y) * PageCount + i /\ 0 - y \in Int
        BY <1>1, <2>1, <2>3, <2>5, Z3
      <3>2. (w - v) % PageCount = i
        BY <1>1, <2>1, <3>1, ModUnique
      <3> QED
        BY <2>2, <3>2
    <2>6. at = z /\ r \in Int
      BY <1>2, <2>3
    <2> QED
      BY <2>2, <2>4, <2>5, <2>6
  <1>5. PICK before : before = Ranged(view, v, q, i, flags)
    OBVIOUS
  <1>6. before \in [Pages -> Entry]
    BY <1>5, RangedType
  <1>7. ASSUME NEW w \in Pages
        PROVE  Ranged(view, v, q, i + 1, flags)[w] =
                  [before EXCEPT ![at] = [page |-> (q + i) % PageCount, flags |-> flags]][w]
    <2>1. PICK x \in Int : x = (w - v) % PageCount
      BY <1>4
    <2>2. Ranged(view, v, q, i + 1, flags)[w] =
            IF x < i + 1 THEN [page |-> (q + x) % PageCount, flags |-> flags] ELSE view[w]
      BY <2>1 DEF Ranged
    <2>3. before[w] = IF x < i THEN [page |-> (q + x) % PageCount, flags |-> flags] ELSE view[w]
      BY <1>5, <2>1 DEF Ranged
    <2>4. CASE x = i
      <3>1. w = at
        BY <1>4, <2>1, <2>4
      <3> QED
        BY <1>1, <1>6, <2>2, <2>4, <3>1
    <2>5. CASE x # i
      <3>1. w # at
        BY <1>4, <2>1, <2>5
      <3>2. x < i + 1 <=> x < i
        BY <1>1, <2>5
      <3> QED
        BY <1>6, <2>2, <2>3, <3>1, <3>2
    <2> QED
      BY <2>4, <2>5
  <1>8. Ranged(view, v, q, i + 1, flags) =
            [before EXCEPT ![at] = [page |-> (q + i) % PageCount, flags |-> flags]]
    <2>1. Ranged(view, v, q, i + 1, flags) \in [Pages -> Entry]
      BY RangedType
    <2> QED
      BY <1>6, <1>7, <2>1
  <1> QED
    BY <1>2, <1>3, <1>5, <1>8

LEMMA RangedNone ==
    ASSUME NEW view \in [Pages -> Entry], NEW v \in Int, NEW q, NEW count \in Int, count =< 0, NEW flags
    PROVE  Ranged(view, v, q, count, flags) = view
  <1>1. ASSUME NEW w \in Pages PROVE ~((w - v) % PageCount < count)
    <2>1. PageCount \in Nat \ {0} /\ w - v \in Int
      BY PageFacts
    <2>2. (w - v) % PageCount \in 0..(PageCount - 1)
      BY <2>1, ModScale
    <2> QED
      BY <2>2
  <1> QED
    BY <1>1 DEF Ranged

\* paging_map_range maps page after page of the space, and only that space.
LEMMA MapRange ==
    ASSUME NEW m, MemOK(m), NEW l \in Loads \cup {Kernel}, NEW c, NEW d, NEW t,
           NEW view \in [Pages -> Entry], SpaceAt(m, l, c, d, t, view),
           NEW v \in Int, NEW q \in Int, NEW count \in 0..PageCount, NEW flags \in SUBSET PageFlags,
           NEW o, o = paging_map_range(m, c, v * PageSize, q * PageSize, count, flags)
    PROVE  Redrawn(m, o, t) /\ SpaceAt(o, l, c, d, t, Ranged(view, v, q, count, flags))
  <1> DEFINE n == count
             E(x, i) == paging_map(x, c, (v * PageSize + (i - 1) * PageSize) % Word,
                                         (q * PageSize + (i - 1) * PageSize) % Word, flags)
             T == {x \in Memory : Redrawn(m, x, t)
                                  /\ \E w \in [Pages -> Entry] : SpaceAt(x, l, c, d, t, w)}
             step == [i \in 1..n |-> [x \in T |-> E(x, i)]]
             Loop(f) == f = [i \in 0..n |-> IF i = 0 THEN m ELSE E(f[i - 1], i)]
             after == CHOOSE f : Loop(f)
  <1>a. n \in Nat /\ m \in T
    <2>1. Redrawn(m, m, t) /\ m \in Memory
      BY DEF Redrawn, MemOK
    <2>2. n \in Nat
      BY PageFacts
    <2> QED
      BY <2>1, <2>2
  <1>b. ASSUME NEW i \in 1..n, NEW x
        PROVE  /\ (v + (i - 1)) % PageCount \in Pages /\ (q + (i - 1)) % PageCount \in Pages
               /\ E(x, i) = paging_map(x, c, ((v + (i - 1)) % PageCount) * PageSize,
                                             ((q + (i - 1)) % PageCount) * PageSize, flags)
    <2>1. PICK k \in 0..(PageCount - 1) : k = i - 1
      BY PageFacts
    <2>2. /\ PageSize \in Nat \ {0} /\ PageCount \in Nat \ {0} /\ v + k \in Int /\ q + k \in Int
          /\ k \in Int /\ Word = PageCount * PageSize /\ Pages = 0..(PageCount - 1)
      BY PageFacts
    <2>3. v * PageSize + k * PageSize = (v + k) * PageSize
          /\ q * PageSize + k * PageSize = (q + k) * PageSize
      BY <2>2, Z3
    <2>4. /\ ((v + k) * PageSize) % Word = ((v + k) % PageCount) * PageSize
          /\ (v + k) % PageCount \in Pages
      BY <2>2, ModScale
    <2>5. /\ ((q + k) * PageSize) % Word = ((q + k) % PageCount) * PageSize
          /\ (q + k) % PageCount \in Pages
      BY <2>2, ModScale
    <2> QED
      BY <2>1, <2>3, <2>4, <2>5
  <1>c. ASSUME NEW i \in 1..n, NEW x \in Memory, Redrawn(m, x, t),
               NEW w \in [Pages -> Entry], SpaceAt(x, l, c, d, t, w)
        PROVE  /\ Redrawn(m, E(x, i), t)
               /\ SpaceAt(E(x, i), l, c, d, t,
                          [w EXCEPT ![(v + (i - 1)) % PageCount] =
                                [page |-> (q + (i - 1)) % PageCount, flags |-> flags]])
    <2>1. PICK y \in Pages, z \in Pages : y = (v + (i - 1)) % PageCount /\ z = (q + (i - 1)) % PageCount
      BY <1>b
    <2>2. PICK u : u = E(x, i)
      OBVIOUS
    <2>3. u = paging_map(x, c, y * PageSize, z * PageSize, flags)
      BY <1>b, <2>1, <2>2
    <2>4. MemOK(x)
      BY <1>c, RedrawnOK
    <2>5. Redrawn(x, u, t) /\ SpaceAt(u, l, c, d, t, [w EXCEPT ![y] = [page |-> z, flags |-> flags]])
      BY <1>c, <2>3, <2>4, MapPage
    <2>6. Redrawn(m, u, t)
      BY <1>c, <2>5, RedrawnTwice
    <2> QED
      BY <2>1, <2>2, <2>5, <2>6
  <1> HIDE DEF E
  <1>1. step \in [1..n -> [T -> T]]
    <2>1. ASSUME NEW i \in 1..n, NEW x \in T PROVE E(x, i) \in T
      <3>1. PICK w \in [Pages -> Entry] : SpaceAt(x, l, c, d, t, w)
        OBVIOUS
      <3>2. PICK y \in Pages, z \in Pages : y = (v + (i - 1)) % PageCount /\ z = (q + (i - 1)) % PageCount
        BY <1>b
      <3>3. PICK val \in Entry : val = [page |-> z, flags |-> flags]
        BY DEF Entry
      <3>4. PICK w2 \in [Pages -> Entry] : w2 = [w EXCEPT ![y] = val]
        OBVIOUS
      <3>5. Redrawn(m, E(x, i), t) /\ SpaceAt(E(x, i), l, c, d, t, w2)
        BY <1>c, <3>1, <3>2, <3>3, <3>4
      <3>6. E(x, i) \in Memory
        BY <3>5 DEF Redrawn
      <3> QED
        BY <3>5, <3>6
    <2> HIDE DEF T
    <2> QED
      BY <2>1
  <1> HIDE DEF T
  <1>2. PICK f \in [0..n -> T] : IsLoop(f, n, m, step)
    <2> HIDE DEF step, n
    <2> QED
      BY <1>a, <1>1, LoopDefined, Zenon
  <1>3. Loop(f)
    <2>1. ASSUME NEW i \in 0..n
          PROVE  f[i] = IF i = 0 THEN m ELSE E(f[i - 1], i)
      <3>1. f[i] = IF i = 0 THEN m ELSE step[i][f[i - 1]]
        BY <1>2 DEF IsLoop
      <3>2. i # 0 => i \in 1..n /\ f[i - 1] \in T
        BY <1>a, <1>2
      <3> QED
        BY <3>1, <3>2
    <2> QED
      BY <1>2, <2>1
  <1>4. Loop(after)
    <2> HIDE DEF Loop
    <2> QED
      BY <1>3, Zenon
  <1>5. o = after[n]
    BY Zenon DEF paging_map_range, E
  <1> HIDE DEF after
  <1>6. after[0] = m /\ \A i \in 1..n : after[i] = E(after[i - 1], i)
    BY <1>a, <1>4
  <1> DEFINE Done(i) == /\ Redrawn(m, after[i], t)
                        /\ SpaceAt(after[i], l, c, d, t, Ranged(view, v, q, i, flags))
             S == {i \in 0..n : Done(i)}
  <1>7. 0 \in S
    <2>1. Ranged(view, v, q, 0, flags) = view
      BY RangedNone
    <2>2. Redrawn(m, m, t)
      BY DEF Redrawn, MemOK
    <2> QED
      BY <1>6, <2>1, <2>2, PageFacts
  <1>8. ASSUME NEW r \in 0..(n - 1), r \in S
        PROVE  r + 1 \in S
    <2>1. r + 1 \in 1..n /\ (r + 1) - 1 = r /\ r \in 0..(PageCount - 1)
      BY PageFacts
    <2>2. PICK i \in 1..n : i = r + 1 /\ i - 1 = r
      BY <2>1
    <2>3. PICK x : x = after[r]
      OBVIOUS
    <2>4. PICK w \in [Pages -> Entry] : w = Ranged(view, v, q, r, flags)
      BY RangedType
    <2>5. Redrawn(m, x, t) /\ SpaceAt(x, l, c, d, t, w) /\ x \in Memory
      BY <1>8, <2>3, <2>4 DEF Redrawn
    <2>6. after[i] = E(x, i)
      BY <1>6, <2>2, <2>3
    <2>7. /\ Redrawn(m, E(x, i), t)
          /\ SpaceAt(E(x, i), l, c, d, t,
                     [w EXCEPT ![(v + r) % PageCount] = [page |-> (q + r) % PageCount, flags |-> flags]])
      BY <1>c, <2>2, <2>5
    <2>8. Ranged(view, v, q, r + 1, flags) =
            [w EXCEPT ![(v + r) % PageCount] = [page |-> (q + r) % PageCount, flags |-> flags]]
      <3>1. Ranged(view, v, q, r + 1, flags) =
              [Ranged(view, v, q, r, flags) EXCEPT ![(v + r) % PageCount] =
                    [page |-> (q + r) % PageCount, flags |-> flags]]
        BY <2>1, RangedMore
      <3> QED
        BY <2>4, <3>1
    <2>9. Ranged(view, v, q, i, flags) =
            [w EXCEPT ![(v + r) % PageCount] = [page |-> (q + r) % PageCount, flags |-> flags]]
      BY <2>2, <2>8
    <2> QED
      BY <2>1, <2>2, <2>6, <2>7, <2>9
  <1> HIDE DEF S
  <1>9. 0..n \subseteq S
    <2> HIDE DEF n
    <2> QED
      BY <1>a, <1>7, <1>8, SetInduction, Zenon
  <1>10. n \in S
    BY <1>9, <1>a
  <1> QED
    BY <1>5, <1>10 DEF S

\* The bytes of memory
Bytes == 0..(Word - 1)

LEMMA LowerPage ==
    ASSUME NEW x \in Bytes
    PROVE  /\ PageOf(x) \in Pages /\ paging_align_to_lower_page(x) = PageOf(x) * PageSize
           /\ x \in Int
           /\ \E r \in 0..(PageSize - 1) : x = PageOf(x) * PageSize + r /\ x % PageSize = r
  <1>1. x \in Int /\ x >= 0 /\ x < PageCount * PageSize /\ PageSize \in Nat \ {0} /\ PageCount \in Nat \ {0}
    BY PageFacts DEF Bytes
  <1>2. PICK q \in Int, r \in 0..(PageSize - 1) : x = q * PageSize + r /\ PageOf(x) = q /\ x % PageSize = r
    BY <1>1, PageSplit
  <1>3. r \in Int /\ r >= 0 /\ r < PageSize
    BY <1>1
  <1>4. q >= 0 /\ q < PageCount
    BY <1>1, <1>2, <1>3, Z3
  <1>5. PICK z \in Int : z = q * PageSize
    BY <1>1, Z3
  <1> QED
    BY <1>1, <1>2, <1>3, <1>4, <1>5, PageFacts DEF paging_align_to_lower_page

\* The page that an address is rounded up to
UpperPage(x) == IF x % PageSize = 0 THEN PageOf(x) ELSE (PageOf(x) + 1) % PageCount

LEMMA RoundUp ==
    ASSUME NEW x \in Bytes
    PROVE  UpperPage(x) \in Pages /\ paging_align_address(x) = UpperPage(x) * PageSize
  <1>1. PICK q \in Pages, r \in 0..(PageSize - 1) :
            /\ x = q * PageSize + r /\ PageOf(x) = q /\ x % PageSize = r /\ q \in Int /\ x \in Int
    BY LowerPage, PageFacts
  <1>2. /\ PageSize \in Nat \ {0} /\ PageCount \in Nat \ {0} /\ Word = PageCount * PageSize
        /\ Pages = 0..(PageCount - 1)
    BY PageFacts
  <1>3. CASE r = 0
    BY <1>1, <1>2, <1>3 DEF UpperPage, paging_align_address, paging_is_aligned
  <1>4. CASE r # 0
    <2>1. x + PageSize - r = (q + 1) * PageSize /\ q + 1 \in Int
      BY <1>1, <1>2, Z3
    <2>2. /\ ((q + 1) * PageSize) % (PageCount * PageSize) = ((q + 1) % PageCount) * PageSize
          /\ (q + 1) % PageCount \in 0..(PageCount - 1)
      BY <1>2, <2>1, ModScale
    <2>3. paging_align_address(x) = ((q + 1) * PageSize) % Word
      BY <1>1, <1>4, <2>1 DEF paging_align_address, paging_is_aligned
    <2>4. UpperPage(x) = (q + 1) % PageCount
      BY <1>1, <1>4 DEF UpperPage
    <2> QED
      BY <1>2, <2>2, <2>3, <2>4
  <1> QED
    BY <1>3, <1>4

LEMMA ModByte ==
    ASSUME NEW x \in Int
    PROVE  x % Word \in Bytes
  <1>1. Word \in Nat \ {0}
    BY PageFacts
  <1> QED
    BY <1>1, DivMod DEF Bytes

\* The end that process.c computes, in pages
LEMMA EndPage ==
    ASSUME NEW phys \in Bytes, NEW n \in Nat
    PROVE  \E e \in Pages : /\ e = UpperPage((phys + n) % Word)
                            /\ EndOf(phys, n) = e * PageSize
                            /\ CountOf(phys, n) = e - PageOf(phys)
                            /\ Accepts(phys, n) <=> e >= PageOf(phys)
  <1>1. PICK y \in Bytes : y = (phys + n) % Word
    BY LowerPage, ModByte
  <1>2. PICK e \in Pages : e = UpperPage(y) /\ EndOf(phys, n) = e * PageSize
    BY <1>1, RoundUp DEF EndOf
  <1>3. PICK q \in Pages : q = PageOf(phys) /\ paging_align_to_lower_page(phys) = q * PageSize
    BY LowerPage
  <1>4. PageSize \in Nat \ {0} /\ e \in Int /\ q \in Int /\ e - q \in Int
    BY PageFacts
  <1>5. e * PageSize - q * PageSize = (e - q) * PageSize
    BY <1>4, Z3
  <1>6. ((e - q) * PageSize) \div PageSize = e - q
    BY <1>4, Multiple
  <1>7. CountOf(phys, n) = e - q
    BY <1>2, <1>3, <1>5, <1>6 DEF CountOf
  <1>8. e * PageSize >= q * PageSize <=> e >= q
    BY <1>4, Z3
  <1> QED
    BY <1>1, <1>2, <1>3, <1>7, <1>8 DEF Accepts

\* paging_map_to, as process.c calls it
LEMMA MapTo ==
    ASSUME NEW m, MemOK(m), NEW l \in Loads \cup {Kernel}, NEW c, NEW d, NEW t,
           NEW view \in [Pages -> Entry], SpaceAt(m, l, c, d, t, view),
           NEW virt \in Bytes, NEW phys \in Bytes, NEW n \in Nat, NEW flags \in SUBSET PageFlags,
           NEW r, r = paging_map_to(m, c, paging_align_to_lower_page(virt),
                                    paging_align_to_lower_page(phys), EndOf(phys, n), flags)
    PROVE  /\ r.ok \in BOOLEAN /\ r = [mem |-> r.mem, ok |-> r.ok]
           /\ r.ok <=> Accepts(phys, n)
           /\ Redrawn(m, r.mem, t)
           /\ Mapped(view, virt, phys, n, flags) \in [Pages -> Entry]
           /\ SpaceAt(r.mem, l, c, d, t, Mapped(view, virt, phys, n, flags))
  <1>1. PICK v \in Pages : v = PageOf(virt) /\ paging_align_to_lower_page(virt) = v * PageSize
    BY LowerPage
  <1>2. PICK q \in Pages : q = PageOf(phys) /\ paging_align_to_lower_page(phys) = q * PageSize
    BY LowerPage
  <1>3. PICK e \in Pages : /\ EndOf(phys, n) = e * PageSize /\ CountOf(phys, n) = e - q
                           /\ Accepts(phys, n) <=> e >= q
    BY <1>2, EndPage
  <1>4. PageSize \in Nat \ {0} /\ e \in Int /\ q \in Int /\ e - q \in Int /\ v \in Int
    BY PageFacts
  <1>5. \A a \in {v * PageSize, q * PageSize, e * PageSize} : paging_is_aligned(a)
    BY <1>4, PageOfPage DEF paging_is_aligned
  <1>6. e * PageSize < q * PageSize <=> ~(e >= q)
    BY <1>4, Z3
  <1>7. (e * PageSize - q * PageSize) \div PageSize = e - q
    <2>1. e * PageSize - q * PageSize = (e - q) * PageSize
      BY <1>4, Z3
    <2> QED
      BY <1>4, <2>1, Multiple
  <1>8. r = [mem |-> IF e >= q THEN paging_map_range(m, c, v * PageSize, q * PageSize, e - q, flags)
                     ELSE m,
             ok |-> e >= q]
    <2>1. PICK refused \in BOOLEAN :
                refused = (\/ \E a \in {v * PageSize, q * PageSize, e * PageSize} : ~paging_is_aligned(a)
                           \/ e * PageSize < q * PageSize)
      OBVIOUS
    <2>2. refused = ~(e >= q)
      BY <1>5, <1>6, <2>1
    <2>3. r = [mem |-> IF refused THEN m
                       ELSE paging_map_range(m, c, v * PageSize, q * PageSize,
                                             (e * PageSize - q * PageSize) \div PageSize, flags),
               ok |-> ~refused]
      BY <1>1, <1>2, <1>3, <2>1, Zenon DEF paging_map_to
    <2>4. refused = ~(e >= q) /\ ~refused = (e >= q)
      BY <2>2, Zenon
    <2>5. CASE refused
      <3>1. r = [mem |-> m, ok |-> ~refused]
        BY <2>3, <2>5, Zenon
      <3>2. r = [mem |-> m, ok |-> e >= q]
        <4>1. (e >= q) = FALSE
          <5>1. ~(e >= q)
            BY <2>2, <2>5, Zenon
          <5> QED
            BY <1>4, <5>1
        <4>2. (~refused) = FALSE
          BY <2>5
        <4> QED
          BY <3>1, <4>1, <4>2
      <3>3. m = IF e >= q THEN paging_map_range(m, c, v * PageSize, q * PageSize, e - q, flags) ELSE m
        BY <2>4, <2>5, Zenon
      <3> QED
        BY <3>2, <3>3, Zenon
    <2>6. CASE ~refused
      BY <1>7, <2>3, <2>4, <2>6, Zenon
    <2> QED
      BY <2>5, <2>6
  <1>9. PICK w : w = Mapped(view, virt, phys, n, flags)
    OBVIOUS
  <1>10. w = Ranged(view, v, q, e - q, flags)
    BY <1>1, <1>2, <1>3, <1>9 DEF Mapped
  <1>11. w \in [Pages -> Entry]
    BY <1>4, <1>10, RangedType
  <1>12. CASE e >= q
    <2>1. e - q \in 0..PageCount
      BY <1>12, PageFacts
    <2>2. PICK o : o = paging_map_range(m, c, v * PageSize, q * PageSize, e - q, flags)
      OBVIOUS
    <2>3. Redrawn(m, o, t) /\ SpaceAt(o, l, c, d, t, w)
      BY <1>4, <1>10, <2>1, <2>2, MapRange
    <2>4. r = [mem |-> o, ok |-> TRUE]
      BY <1>8, <1>12, <2>2
    <2>5. r.mem = o /\ r.ok = TRUE /\ r = [mem |-> r.mem, ok |-> r.ok]
      BY <2>4
    <2>6. Redrawn(m, r.mem, t) /\ SpaceAt(r.mem, l, c, d, t, w)
      BY <2>3, <2>5, Zenon
    <2>7. r.ok \in BOOLEAN /\ (r.ok <=> Accepts(phys, n))
      BY <1>3, <1>12, <2>5
    <2> QED
      BY <1>9, <1>11, <2>5, <2>6, <2>7, Zenon
  <1>13. CASE ~(e >= q)
    <2>1. w = view
      BY <1>4, <1>10, <1>13, RangedNone
    <2>2. r = [mem |-> m, ok |-> FALSE]
      <3>1. (e >= q) = FALSE
        BY <1>4, <1>13
      <3> QED
        BY <1>8, <3>1, Zenon
    <2>3. Redrawn(m, m, t)
      BY DEF Redrawn, MemOK
    <2>4. r.mem = m /\ r.ok = FALSE /\ r = [mem |-> r.mem, ok |-> r.ok]
      BY <2>2
    <2>5. Redrawn(m, r.mem, t) /\ SpaceAt(r.mem, l, c, d, t, w)
      BY <2>1, <2>3, <2>4, Zenon
    <2>6. r.ok \in BOOLEAN /\ (r.ok <=> Accepts(phys, n))
      BY <1>3, <1>13, <2>4
    <2> QED
      BY <1>9, <1>11, <2>4, <2>5, <2>6, Zenon
  <1> QED
    BY <1>12, <1>13

LEMMA AlignedIsLower ==
    ASSUME NEW x \in Int, paging_is_aligned(x)
    PROVE  paging_align_to_lower_page(x) = x
  BY DEF paging_is_aligned, paging_align_to_lower_page

\* An aligned range of the memory
LEMMA MapBytesView ==
    ASSUME NEW m, MemOK(m), NEW l \in Loads \cup {Kernel}, NEW c, NEW d, NEW t,
           NEW view \in [Pages -> Entry], SpaceAt(m, l, c, d, t, view),
           NEW virt \in Bytes, NEW phys \in Bytes, paging_is_aligned(virt), paging_is_aligned(phys),
           NEW n \in Nat, NEW o, o = MapBytes(m, c, virt, phys, n)
    PROVE  /\ Redrawn(m, o, t)
           /\ Mapped(view, virt, phys, n, UserWritable) \in [Pages -> Entry]
           /\ SpaceAt(o, l, c, d, t, Mapped(view, virt, phys, n, UserWritable))
  <1>1. paging_align_to_lower_page(virt) = virt /\ paging_align_to_lower_page(phys) = phys
    BY AlignedIsLower DEF Bytes
  <1>2. PICK flags \in SUBSET PageFlags : flags = UserWritable
    BY DEF UserWritable, UserFlags, PageFlags
  <1>3. PICK r : r = paging_map_to(m, c, paging_align_to_lower_page(virt),
                                   paging_align_to_lower_page(phys), EndOf(phys, n), flags)
    OBVIOUS
  <1>4. o = r.mem
    BY <1>1, <1>2, <1>3 DEF MapBytes, EndOf
  <1>5. /\ Redrawn(m, r.mem, t)
        /\ Mapped(view, virt, phys, n, flags) \in [Pages -> Entry]
        /\ SpaceAt(r.mem, l, c, d, t, Mapped(view, virt, phys, n, flags))
    BY <1>3, MapTo
  <1> QED
    BY <1>2, <1>4, <1>5

-----------------------------------------------------------------------------
(* process_map_memory                                                      *)

LEMMA FileFacts ==
    ASSUME NEW f \in FileSet
    PROVE  /\ f.size \in Bytes /\ f.size \in Nat /\ f.exists \in BOOLEAN /\ f.whole \in BOOLEAN
           /\ f.phdrs \in Seq(Phdr) /\ Len(f.phdrs) \in Nat /\ DOMAIN f.phdrs = 1..Len(f.phdrs)
           /\ BlocksFor(f.size) \in 0..Slack
           /\ \A i \in 1..Len(f.phdrs) :
                /\ f.phdrs[i] \in Phdr
                /\ f.phdrs[i].offset \in Bytes /\ f.phdrs[i].vaddr \in Bytes
                /\ f.phdrs[i].filesz \in Bytes /\ f.phdrs[i].memsz \in Bytes
                /\ f.phdrs[i].offset \in Nat /\ f.phdrs[i].vaddr \in Nat
                /\ f.phdrs[i].filesz \in Nat /\ f.phdrs[i].memsz \in Nat
                /\ f.phdrs[i].w \in BOOLEAN /\ f.phdrs[i].type \in Nat
  <1>1. f \in File /\ BlocksFor(f.size) \in 0..Slack
    BY ElfAssumption
  <1>2. f.phdrs \in Seq(Phdr) /\ f.size \in Bytes /\ f.exists \in BOOLEAN /\ f.whole \in BOOLEAN
    BY <1>1 DEF File, Bytes
  <1>3. Len(f.phdrs) \in Nat /\ DOMAIN f.phdrs = 1..Len(f.phdrs)
        /\ \A i \in 1..Len(f.phdrs) : f.phdrs[i] \in Phdr
    BY <1>2
  <1>4. ASSUME NEW h \in Phdr
        PROVE  /\ h.offset \in Bytes /\ h.vaddr \in Bytes /\ h.filesz \in Bytes /\ h.memsz \in Bytes
               /\ h.w \in BOOLEAN /\ h.type \in Nat
    BY DEF Phdr, Bytes
  <1>5. \A x \in Bytes : x \in Nat
    BY PageFacts DEF Bytes
  <1> QED
    BY <1>1, <1>2, <1>3, <1>4, <1>5

LEMMA PlaceFacts ==
    ASSUME NEW a \in Places
    PROVE  a \in Bytes /\ a \in Nat /\ paging_is_aligned(a) /\ a = PageOf(a) * PageSize /\ PageOf(a) \in Pages
  <1>1. CASE a = NULL
    <2>1. a = 0 /\ PageOf(a) = 0 /\ PageSize \in Nat \ {0} /\ 0 \in Pages /\ Word \in Nat \ {0}
      BY <1>1, NullPage, PageFacts
    <2>2. 0 = 0 * PageSize /\ 0 % PageSize = 0 /\ 0 \in 0..(Word - 1)
      BY <2>1, Z3
    <2> QED
      BY <2>1, <2>2 DEF Bytes, paging_is_aligned
  <1>2. CASE a \in Addresses
    <2>1. /\ a = PageOf(a) * PageSize /\ PageOf(a) \in FirstPage..(FirstPage + Total - 1)
          /\ a \in Nat /\ a % PageSize = 0
      BY <1>2, AddressPage
    <2>2. PageOf(a) \in Nat /\ PageOf(a) < PageCount /\ PageSize \in Nat \ {0} /\ PageCount \in Nat
      BY <2>1, PageFacts
    <2>3. a < PageCount * PageSize
      BY <2>1, <2>2, Z3
    <2> QED
      BY <2>1, <2>2, <2>3, PageFacts DEF Bytes, paging_is_aligned
  <1> QED
    BY <1>1, <1>2 DEF Places

LEMMA PhysByte ==
    ASSUME NEW a \in Places, NEW ph, ph.offset \in Nat
    PROVE  PhysOf(a, ph) \in Bytes
  BY PlaceFacts, ModByte DEF PhysOf

LEMMA UserFlagsType ==
    /\ UserFlags \in SUBSET PageFlags /\ UserWritable \in SUBSET PageFlags
    /\ \A ph : SegmentFlags(ph) \in SUBSET PageFlags
  BY DEF UserFlags, UserWritable, PageFlags, SegmentFlags

LEMMA PlainType ==
    ASSUME NEW flags \in SUBSET PageFlags
    PROVE  PlainView(flags) \in [Pages -> Entry]
  BY DEF PlainView, Plain, Entry

LEMMA MappedType ==
    ASSUME NEW view \in [Pages -> Entry], NEW virt \in Bytes, NEW phys \in Bytes, NEW n,
           NEW flags \in SUBSET PageFlags
    PROVE  Mapped(view, virt, phys, n, flags) \in [Pages -> Entry]
  <1>1. PageOf(virt) \in Int /\ PageOf(phys) \in Int
    BY LowerPage, PageFacts
  <1> QED
    BY <1>1, RangedType DEF Mapped

\* The view after each segment
Segmented(view, memory, ph) ==
    Mapped(view, ph.vaddr, PhysOf(memory, ph), ph.memsz, SegmentFlags(ph))

LEMMA ElfViewLoop ==
    ASSUME NEW file \in FileSet, NEW memory \in Places
    PROVE  \E g \in [0..Len(file.phdrs) -> [Pages -> Entry]] :
                /\ g[0] = PlainView(UserFlags)
                /\ \A i \in 1..Len(file.phdrs) : g[i] = Segmented(g[i - 1], memory, file.phdrs[i])
                /\ ElfView(file, memory) = g[Len(file.phdrs)]
  <1> DEFINE n == Len(file.phdrs)
             m == PlainView(UserFlags)
             E(x, i) == Segmented(x, memory, file.phdrs[i])
             T == [Pages -> Entry]
             step == [i \in 1..n |-> [x \in T |-> E(x, i)]]
             Loop(f) == f = [i \in 0..n |-> IF i = 0 THEN m ELSE E(f[i - 1], i)]
             after == CHOOSE f : Loop(f)
  <1>0. n \in Nat /\ m \in T
    BY FileFacts, PlainType, UserFlagsType
  <1>1. step \in [1..n -> [T -> T]]
    <2>1. ASSUME NEW i \in 1..n, NEW x \in T PROVE E(x, i) \in T
      <3>1. PICK ph : ph = file.phdrs[i]
        OBVIOUS
      <3>2. ph.offset \in Nat /\ ph.vaddr \in Bytes
        BY <3>1, FileFacts
      <3>3. PhysOf(memory, ph) \in Bytes /\ SegmentFlags(ph) \in SUBSET PageFlags
        BY <3>2, PhysByte, UserFlagsType
      <3>4. Segmented(x, memory, ph) \in T
        BY <3>2, <3>3, MappedType DEF Segmented
      <3> QED
        BY <3>1, <3>4
    <2> HIDE DEF T, E
    <2> QED
      BY <2>1
  <1> HIDE DEF T, E
  <1>2. PICK f \in [0..n -> T] : IsLoop(f, n, m, step)
    <2> HIDE DEF step, n, m
    <2> QED
      BY <1>0, <1>1, LoopDefined, Zenon
  <1>3. Loop(f)
    <2>1. ASSUME NEW i \in 0..n
          PROVE  f[i] = IF i = 0 THEN m ELSE E(f[i - 1], i)
      <3>1. f[i] = IF i = 0 THEN m ELSE step[i][f[i - 1]]
        BY <1>2 DEF IsLoop
      <3>2. i # 0 => i \in 1..n /\ f[i - 1] \in T
        BY <1>0, <1>2
      <3> QED
        BY <3>1, <3>2
    <2> QED
      BY <1>2, <2>1
  <1>4. Loop(after)
    <2> HIDE DEF Loop
    <2> QED
      BY <1>3, Zenon
  <1>5. ElfView(file, memory) = after[n]
    BY Zenon DEF ElfView, E, Segmented
  <1> HIDE DEF after
  <1>6. after[0] = m /\ \A i \in 1..n : after[i] = E(after[i - 1], i)
    <2>1. n \in Nat
      BY <1>0
    <2> HIDE DEF n, m, T, E
    <2> QED
      BY <1>4, <2>1
  <1>7. after \in [0..n -> T]
    <2> DEFINE S == {i \in 0..n : after[i] \in T}
    <2>1. 0 \in S
      BY <1>0, <1>6
    <2>2. ASSUME NEW k \in 0..(n - 1), k \in S PROVE k + 1 \in S
      <3>1. k + 1 \in 1..n /\ (k + 1) - 1 = k
        BY <1>0
      <3>2. step[k + 1] \in [T -> T] /\ step[k + 1][after[k]] = E(after[k], k + 1)
        BY <1>1, <2>2, <3>1
      <3>3. after[k + 1] = E(after[k], k + 1)
        BY <1>6, <3>1
      <3>4. after[k + 1] \in T
        BY <2>2, <3>2, <3>3
      <3> QED
        BY <3>1, <3>4
    <2> HIDE DEF S
    <2>3. 0..n \subseteq S
      <3> HIDE DEF n
      <3> QED
        BY <1>0, <2>1, <2>2, SetInduction, Zenon
    <2>4. after = [i \in 0..n |-> after[i]]
      BY <1>4
    <2> QED
      BY <2>3, <2>4 DEF S
  <1> QED
    BY <1>5, <1>6, <1>7 DEF T, E

LEMMA ElfViewType ==
    ASSUME NEW f \in FileSet, NEW memory \in Places
    PROVE  ElfView(f, memory) \in [Pages -> Entry]
  <1>1. PICK g \in [0..Len(f.phdrs) -> [Pages -> Entry]] : ElfView(f, memory) = g[Len(f.phdrs)]
    BY ElfViewLoop
  <1>2. Len(f.phdrs) \in 0..Len(f.phdrs)
    BY FileFacts
  <1> QED
    BY <1>1, <1>2

\* One round of process_map_elf
LEMMA MapSegment ==
    ASSUME NEW m, MemOK(m), NEW l \in Loads \cup {Kernel}, NEW c, NEW d, NEW t,
           NEW view \in [Pages -> Entry], SpaceAt(m, l, c, d, t, view),
           NEW memory \in Places, NEW f \in FileSet, NEW i \in 1..Len(f.phdrs),
           NEW r, r = map_segment(m, c, memory, f.phdrs[i])
    PROVE  /\ r.ok \in BOOLEAN /\ r = [mem |-> r.mem, ok |-> r.ok]
           /\ r.ok <=> Accepts(PhysOf(memory, f.phdrs[i]), f.phdrs[i].memsz)
           /\ Redrawn(m, r.mem, t)
           /\ Segmented(view, memory, f.phdrs[i]) \in [Pages -> Entry]
           /\ SpaceAt(r.mem, l, c, d, t, Segmented(view, memory, f.phdrs[i]))
  <1>1. PICK ph : ph = f.phdrs[i]
    OBVIOUS
  <1>2. ph.offset \in Nat /\ ph.vaddr \in Bytes /\ ph.memsz \in Nat
    BY <1>1, FileFacts
  <1>3. PICK phys \in Bytes : phys = PhysOf(memory, ph)
    BY <1>2, PhysByte
  <1>4. PICK flags \in SUBSET PageFlags : flags = SegmentFlags(ph)
    BY UserFlagsType
  <1>5. r = paging_map_to(m, c, paging_align_to_lower_page(ph.vaddr),
                          paging_align_to_lower_page(phys), EndOf(phys, ph.memsz), flags)
    BY <1>1, <1>3, <1>4, Zenon DEF map_segment, EndOf, PhysOf
  <1>6. PICK virt \in Bytes, n \in Nat : virt = ph.vaddr /\ n = ph.memsz
    BY <1>2
  <1>7. r = paging_map_to(m, c, paging_align_to_lower_page(virt),
                          paging_align_to_lower_page(phys), EndOf(phys, n), flags)
    BY <1>5, <1>6
  <1>8. /\ r.ok \in BOOLEAN /\ r = [mem |-> r.mem, ok |-> r.ok]
        /\ r.ok <=> Accepts(phys, n)
        /\ Redrawn(m, r.mem, t)
        /\ Mapped(view, virt, phys, n, flags) \in [Pages -> Entry]
        /\ SpaceAt(r.mem, l, c, d, t, Mapped(view, virt, phys, n, flags))
    BY <1>7, MapTo
  <1>9. Segmented(view, memory, ph) = Mapped(view, virt, phys, n, flags)
    BY <1>3, <1>4, <1>6 DEF Segmented
  <1> QED
    BY <1>1, <1>3, <1>6, <1>8, <1>9

\* process_map_elf draws the space of the file or stops at a header it
\* refuses; it touches nothing but the tables.
LEMMA MapElf ==
    ASSUME NEW m, MemOK(m), NEW l \in Loads \cup {Kernel}, NEW c, NEW d, NEW t,
           SpaceAt(m, l, c, d, t, PlainView(UserFlags)),
           NEW p, p.file \in FileSet, p.memory \in Places,
           NEW r, r = process_map_elf(m, c, p)
    PROVE  /\ r.ok \in BOOLEAN /\ r = [mem |-> r.mem, ok |-> r.ok]
           /\ Redrawn(m, r.mem, t)
           /\ \E w \in [Pages -> Entry] : SpaceAt(r.mem, l, c, d, t, w)
           /\ r.ok => /\ SpaceAt(r.mem, l, c, d, t, ElfView(p.file, p.memory))
                      /\ \A j \in DOMAIN p.file.phdrs :
                            Accepts(PhysOf(p.memory, p.file.phdrs[j]), p.file.phdrs[j].memsz)
  <1>a. PICK file \in FileSet, memory \in Places : file = p.file /\ memory = p.memory
    OBVIOUS
  <1> DEFINE n == Len(p.file.phdrs)
             base == [mem |-> m, ok |-> TRUE]
             E(x, i) == IF x.ok THEN map_segment(x.mem, c, p.memory, p.file.phdrs[i]) ELSE x
             T == {x \in [mem : Memory, ok : BOOLEAN] :
                        /\ Redrawn(m, x.mem, t)
                        /\ \E w \in [Pages -> Entry] : SpaceAt(x.mem, l, c, d, t, w)}
             step == [i \in 1..n |-> [x \in T |-> E(x, i)]]
             Loop(f) == f = [i \in 0..n |-> IF i = 0 THEN base ELSE E(f[i - 1], i)]
             after == CHOOSE f : Loop(f)
             Ok(i) == Accepts(PhysOf(p.memory, p.file.phdrs[i]), p.file.phdrs[i].memsz)
  <1>0. n \in Nat /\ base \in T
    <2>1. n \in Nat
      BY FileFacts
    <2>2. m \in Memory /\ Redrawn(m, m, t)
      BY DEF Redrawn, MemOK
    <2>3. PICK w \in [Pages -> Entry] : w = PlainView(UserFlags)
      BY PlainType, UserFlagsType
    <2>4. SpaceAt(m, l, c, d, t, w)
      BY <2>3
    <2> QED
      BY <2>1, <2>2, <2>4
  <1>b. ASSUME NEW i \in 1..n, NEW x \in T, x.ok, NEW w \in [Pages -> Entry], SpaceAt(x.mem, l, c, d, t, w)
        PROVE  /\ E(x, i) \in T /\ (E(x, i).ok <=> Ok(i))
               /\ SpaceAt(E(x, i).mem, l, c, d, t, Segmented(w, p.memory, p.file.phdrs[i]))
    <2>1. PICK u : u = x.mem
      OBVIOUS
    <2>2. PICK y : y = E(x, i)
      OBVIOUS
    <2>3. y = map_segment(u, c, memory, file.phdrs[i]) /\ i \in 1..Len(file.phdrs)
      BY <1>a, <1>b, <2>1, <2>2
    <2>4. Redrawn(m, u, t) /\ MemOK(u)
      BY <2>1, RedrawnOK
    <2>5. /\ y.ok \in BOOLEAN /\ y = [mem |-> y.mem, ok |-> y.ok]
          /\ y.ok <=> Accepts(PhysOf(memory, file.phdrs[i]), file.phdrs[i].memsz)
          /\ Redrawn(u, y.mem, t)
          /\ Segmented(w, memory, file.phdrs[i]) \in [Pages -> Entry]
          /\ SpaceAt(y.mem, l, c, d, t, Segmented(w, memory, file.phdrs[i]))
      <3>1. MemOK(u) /\ SpaceAt(u, l, c, d, t, w) /\ i \in 1..Len(file.phdrs)
        BY <1>b, <2>1, <2>3, <2>4
      <3>2. y = map_segment(u, c, memory, file.phdrs[i])
        BY <2>3
      <3> HIDE DEF E, T, n
      <3> QED
        BY <3>1, <3>2, MapSegment
    <2>6. Redrawn(m, y.mem, t) /\ y.mem \in Memory
      <3>1. Redrawn(m, y.mem, t)
        BY <2>4, <2>5, RedrawnTwice
      <3> QED
        BY <3>1 DEF Redrawn
    <2>7. y \in [mem : Memory, ok : BOOLEAN]
      BY <2>5, <2>6
    <2>8. y \in T
      BY <2>5, <2>6, <2>7
    <2> HIDE DEF E, T
    <2> QED
      BY <1>a, <2>2, <2>5, <2>8
  <1>1. step \in [1..n -> [T -> T]]
    <2>1. ASSUME NEW i \in 1..n, NEW x \in T PROVE E(x, i) \in T
      <3>1. CASE x.ok
        <4>1. PICK w \in [Pages -> Entry] : SpaceAt(x.mem, l, c, d, t, w)
          OBVIOUS
        <4> HIDE DEF E, T
        <4> QED
          BY <1>b, <3>1, <4>1
      <3>2. CASE ~x.ok
        BY <3>2
      <3> QED
        BY <3>1, <3>2
    <2> HIDE DEF T, E
    <2> QED
      BY <2>1
  <1>c. ASSUME NEW x \in T
        PROVE  /\ x.ok \in BOOLEAN /\ x = [mem |-> x.mem, ok |-> x.ok]
               /\ Redrawn(m, x.mem, t)
               /\ \E w \in [Pages -> Entry] : SpaceAt(x.mem, l, c, d, t, w)
    OBVIOUS
  <1>d. ASSUME NEW i, NEW x, ~x.ok PROVE E(x, i) = x
    BY <1>d
  <1> HIDE DEF T, E
  <1>2. PICK f \in [0..n -> T] : IsLoop(f, n, base, step)
    <2> HIDE DEF step, n, base
    <2> QED
      BY <1>0, <1>1, LoopDefined, Zenon
  <1>3. Loop(f)
    <2>1. ASSUME NEW i \in 0..n
          PROVE  f[i] = IF i = 0 THEN base ELSE E(f[i - 1], i)
      <3>1. f[i] = IF i = 0 THEN base ELSE step[i][f[i - 1]]
        BY <1>2 DEF IsLoop
      <3>2. i # 0 => i \in 1..n /\ f[i - 1] \in T
        BY <1>0, <1>2
      <3> QED
        BY <3>1, <3>2
    <2> QED
      BY <1>2, <2>1
  <1>4. Loop(after)
    <2> HIDE DEF Loop
    <2> QED
      BY <1>3, Zenon
  <1>5. r = after[n]
    BY Zenon DEF process_map_elf, E
  <1> HIDE DEF after
  <1>6. after[0] = base /\ \A i \in 1..n : after[i] = E(after[i - 1], i)
    <2>1. n \in Nat
      BY <1>0
    <2> HIDE DEF base, n
    <2> QED
      BY <1>4, <2>1
  <1>7. PICK g \in [0..n -> [Pages -> Entry]] :
                /\ g[0] = PlainView(UserFlags)
                /\ \A i \in 1..n : g[i] = Segmented(g[i - 1], p.memory, p.file.phdrs[i])
                /\ ElfView(p.file, p.memory) = g[n]
    BY <1>a, ElfViewLoop
  <1> DEFINE Done(i) == /\ after[i] \in T
                        /\ after[i].ok => /\ SpaceAt(after[i].mem, l, c, d, t, g[i])
                                          /\ \A j \in 1..i : Ok(j)
             S == {i \in 0..n : Done(i)}
  <1> HIDE DEF Ok
  <1>8. 0 \in S
    <2>1. after[0].mem = m /\ 1..0 = {}
      BY <1>6
    <2> HIDE DEF base
    <2> QED
      BY <1>0, <1>6, <1>7, <2>1
  <1>9. ASSUME NEW k \in 0..(n - 1), k \in S
        PROVE  k + 1 \in S
    <2>1. k + 1 \in 1..n /\ (k + 1) - 1 = k /\ k \in 0..n /\ k + 1 \in 0..n
      BY <1>0
    <2>2. PICK i \in 1..n : i = k + 1 /\ i - 1 = k
      BY <2>1
    <2>3. PICK x \in T : x = after[k]
      BY <1>9
    <2>4. after[i] = E(x, i)
      BY <1>6, <2>2, <2>3
    <2>5. CASE x.ok
      <3>1. PICK w \in [Pages -> Entry] : w = g[k]
        BY <1>7, <2>1
      <3>2. SpaceAt(x.mem, l, c, d, t, w)
        BY <1>9, <2>3, <2>5, <3>1
      <3>3. /\ E(x, i) \in T /\ (E(x, i).ok <=> Ok(i))
            /\ SpaceAt(E(x, i).mem, l, c, d, t, Segmented(w, p.memory, p.file.phdrs[i]))
        BY <1>b, <2>5, <3>2
      <3>4. g[i] = Segmented(w, p.memory, p.file.phdrs[i])
        BY <1>7, <2>2, <3>1
      <3>5. E(x, i).ok => \A j \in 1..i : Ok(j)
        <4> SUFFICES ASSUME E(x, i).ok, NEW j \in 1..i PROVE Ok(j)
          OBVIOUS
        <4>1. CASE j = i
          BY <3>3, <4>1
        <4>2. CASE j # i
          <5>1. j \in 1..k
            BY <2>2, <4>2
          <5> QED
            BY <1>9, <2>3, <2>5, <5>1
        <4> QED
          BY <4>1, <4>2
      <3>6. Done(i)
        BY <2>4, <3>3, <3>4, <3>5
      <3> HIDE DEF Done
      <3> QED
        BY <2>1, <2>2, <3>6
    <2>6. CASE ~x.ok
      <3>1. E(x, i) = x
        BY <1>d, <2>6
      <3>2. Done(i)
        BY <2>4, <2>6, <3>1
      <3> HIDE DEF Done
      <3> QED
        BY <2>1, <2>2, <3>2
    <2> QED
      BY <2>5, <2>6
  <1> HIDE DEF S
  <1>10. 0..n \subseteq S
    <2> HIDE DEF n
    <2> QED
      BY <1>0, <1>8, <1>9, SetInduction, Zenon
  <1>11. Done(n)
    BY <1>0, <1>10 DEF S
  <1>12. DOMAIN p.file.phdrs = 1..n
    BY FileFacts
  <1>13. r \in T /\ (r.ok => SpaceAt(r.mem, l, c, d, t, g[n]) /\ \A j \in 1..n : Ok(j))
    BY <1>5, <1>11
  <1> QED
    BY <1>7, <1>12, <1>13, <1>c DEF Ok

LEMMA Layout ==
    /\ ProgramAddress \in Bytes /\ paging_is_aligned(ProgramAddress)
    /\ StackEnd \in Bytes /\ paging_is_aligned(StackEnd)
    /\ VideoAddress \in Bytes /\ paging_is_aligned(VideoAddress)
    /\ StackSize \in Nat \ {0} /\ VideoSize \in Nat \ {0}
    /\ BlocksFor(StackSize) \in 1..Slack
  BY LoadingAssumption DEF Bytes

\* process_map_memory draws the view of the process, or stops at a header.
LEMMA MapMemory ==
    ASSUME NEW m, MemOK(m), NEW l \in Loads \cup {Kernel}, NEW c, NEW d, NEW t,
           SpaceAt(m, l, c, d, t, PlainView(UserFlags)),
           NEW p, p.file \in FileSet, p.memory \in Places, p.stack \in Places,
           NEW r, r = process_map_memory(m, c, p)
    PROVE  /\ r.ok \in BOOLEAN
           /\ Redrawn(m, r.mem, t)
           /\ \E w \in [Pages -> Entry] : SpaceAt(r.mem, l, c, d, t, w)
           /\ r.ok => /\ SpaceAt(r.mem, l, c, d, t, ViewOf(p))
                      /\ p.filetype = "ELF" => \A j \in DOMAIN p.file.phdrs :
                            Accepts(PhysOf(p.memory, p.file.phdrs[j]), p.file.phdrs[j].memsz)
  <1>a. PICK file \in FileSet, memory \in Places, stack \in Places :
            file = p.file /\ memory = p.memory /\ stack = p.stack
    OBVIOUS
  <1>b. memory \in Bytes /\ paging_is_aligned(memory) /\ stack \in Bytes /\ paging_is_aligned(stack)
    BY PlaceFacts
  <1>c. file.size \in Nat
    BY FileFacts
  <1>1. PICK x : x = IF p.filetype = "ELF" THEN process_map_elf(m, c, p) ELSE process_map_binary(m, c, p)
    OBVIOUS
  <1>2. r = IF x.ok THEN [x EXCEPT !.mem = MapBytes(x.mem, c, StackEnd, p.stack, StackSize)] ELSE x
    BY <1>1 DEF process_map_memory
  <1>3. PICK program : program = IF p.filetype = "ELF" THEN ElfView(p.file, p.memory)
                                                       ELSE BinaryView(p.file, p.memory)
    OBVIOUS
  <1>4. /\ x.ok \in BOOLEAN /\ x = [mem |-> x.mem, ok |-> x.ok]
        /\ Redrawn(m, x.mem, t)
        /\ \E w \in [Pages -> Entry] : SpaceAt(x.mem, l, c, d, t, w)
        /\ program \in [Pages -> Entry]
        /\ x.ok => /\ SpaceAt(x.mem, l, c, d, t, program)
                   /\ p.filetype = "ELF" => \A j \in DOMAIN p.file.phdrs :
                         Accepts(PhysOf(p.memory, p.file.phdrs[j]), p.file.phdrs[j].memsz)
    <2>1. CASE p.filetype = "ELF"
      <3>1. x = process_map_elf(m, c, p) /\ program = ElfView(p.file, p.memory)
        BY <1>1, <1>3, <2>1
      <3>2. program \in [Pages -> Entry]
        BY <3>1, ElfViewType
      <3>3. /\ x.ok \in BOOLEAN /\ x = [mem |-> x.mem, ok |-> x.ok]
            /\ Redrawn(m, x.mem, t)
            /\ \E w \in [Pages -> Entry] : SpaceAt(x.mem, l, c, d, t, w)
            /\ x.ok => /\ SpaceAt(x.mem, l, c, d, t, ElfView(p.file, p.memory))
                       /\ \A j \in DOMAIN p.file.phdrs :
                             Accepts(PhysOf(p.memory, p.file.phdrs[j]), p.file.phdrs[j].memsz)
        BY <3>1, MapElf
      <3> QED
        BY <3>1, <3>2, <3>3
    <2>2. CASE p.filetype # "ELF"
      <3>1. PICK w1 \in [Pages -> Entry] : w1 = PlainView(UserFlags)
        BY PlainType, UserFlagsType
      <3>2. PICK y : y = MapBytes(m, c, ProgramAddress, memory, file.size)
        OBVIOUS
      <3>3. PICK w2 : w2 = Mapped(w1, ProgramAddress, memory, file.size, UserWritable)
        OBVIOUS
      <3>4. Redrawn(m, y, t) /\ w2 \in [Pages -> Entry] /\ SpaceAt(y, l, c, d, t, w2)
        <4>1. SpaceAt(m, l, c, d, t, w1)
          BY <3>1
        <4> QED
          BY <1>b, <1>c, <3>2, <3>3, <4>1, Layout, MapBytesView
      <3>5. MemOK(y)
        BY <3>4, RedrawnOK
      <3>6. PICK z : z = MapBytes(y, c, VideoAddress, VideoAddress, VideoSize)
        OBVIOUS
      <3>7. PICK w3 : w3 = Mapped(w2, VideoAddress, VideoAddress, VideoSize, UserWritable)
        OBVIOUS
      <3>8. Redrawn(y, z, t) /\ w3 \in [Pages -> Entry] /\ SpaceAt(z, l, c, d, t, w3)
        BY <3>4, <3>5, <3>6, <3>7, Layout, MapBytesView
      <3>9. Redrawn(m, z, t)
        BY <3>4, <3>8, RedrawnTwice
      <3>10. x = [mem |-> z, ok |-> TRUE]
        BY <1>1, <1>a, <2>2, <3>2, <3>6, Zenon DEF process_map_binary
      <3>11. program = w3
        BY <1>3, <1>a, <2>2, <3>1, <3>3, <3>7 DEF BinaryView
      <3> QED
        BY <2>2, <3>8, <3>9, <3>10, <3>11
    <2> QED
      BY <2>1, <2>2
  <1>5. CASE ~x.ok
    BY <1>2, <1>4, <1>5
  <1>6. CASE x.ok
    <2>1. PICK u : u = x.mem
      OBVIOUS
    <2>2. PICK y : y = MapBytes(u, c, StackEnd, stack, StackSize)
      OBVIOUS
    <2>3. PICK w : w = Mapped(program, StackEnd, stack, StackSize, UserWritable)
      OBVIOUS
    <2>4. Redrawn(u, y, t) /\ w \in [Pages -> Entry] /\ SpaceAt(y, l, c, d, t, w)
      <3>1. SpaceAt(u, l, c, d, t, program) /\ Redrawn(m, u, t)
        BY <1>4, <1>6, <2>1
      <3>2. MemOK(u)
        BY <3>1, RedrawnOK
      <3>3. program \in [Pages -> Entry]
        BY <1>4
      <3> QED
        BY <1>b, <2>2, <2>3, <3>1, <3>2, <3>3, Layout, MapBytesView
    <2>5. Redrawn(m, y, t)
      BY <1>4, <2>1, <2>4, RedrawnTwice
    <2>6. r.ok = TRUE /\ r.mem = y
      <3>1. r = [x EXCEPT !.mem = y]
        BY <1>2, <1>6, <1>a, <2>1, <2>2
      <3> QED
        BY <1>4, <1>6, <3>1
    <2>7. ViewOf(p) = w
      BY <1>3, <1>a, <2>3 DEF ViewOf
    <2> QED
      BY <1>4, <1>6, <2>4, <2>5, <2>6, <2>7
  <1> QED
    BY <1>4, <1>5, <1>6

LEMMA ViewType ==
    ASSUME NEW p, p.file \in FileSet, p.memory \in Places, p.stack \in Places
    PROVE  ViewOf(p) \in [Pages -> Entry]
  <1>a. p.memory \in Bytes /\ p.stack \in Bytes
    BY PlaceFacts
  <1>1. ElfView(p.file, p.memory) \in [Pages -> Entry]
    BY ElfViewType
  <1>2. Mapped(PlainView(UserFlags), ProgramAddress, p.memory, p.file.size, UserWritable) \in [Pages -> Entry]
    BY <1>a, MappedType, PlainType, UserFlagsType, Layout
  <1>3. BinaryView(p.file, p.memory) \in [Pages -> Entry]
    BY <1>2, MappedType, UserFlagsType, Layout DEF BinaryView
  <1> QED
    BY <1>a, <1>1, <1>3, MappedType, UserFlagsType, Layout DEF ViewOf

-----------------------------------------------------------------------------
(* paging_new_4gb and paging_free_4gb                                      *)

\* A page is one block.
LEMMA OneBlock == BlocksFor(PageSize) = 1 /\ BlocksFor(1) = 1 /\ 1 \in 1..Slack
  <1>1. BlockSize \in Nat \ {0} /\ PageSize = BlockSize /\ PageCount \in Nat \ {0}
        /\ Word = PageCount * BlockSize /\ PageCount > 1
    BY PageFacts
  <1>2. 1 \in 1..Slack
    BY Layout, PageFacts
  <1>3. BlockSize % BlockSize = 0 /\ BlockSize \div BlockSize = 1
    BY <1>1, Z3
  <1>4. BlocksFor(PageSize) = 1
    BY <1>1, <1>3 DEF BlocksFor, heap_align_value_to_upper
  <1>5. CASE BlockSize = 1
    BY <1>1, <1>2, <1>4, <1>5
  <1>6. CASE BlockSize # 1
    <2>1. 1 = 0 * BlockSize + 1 /\ 1 \in 0..(BlockSize - 1)
      BY <1>1, <1>6, Z3
    <2>2. 1 % BlockSize = 1
      BY <1>1, <2>1, ModUnique
    <2>3. BlockSize = 0 * Word + BlockSize /\ BlockSize \in 0..(Word - 1) /\ Word \in Nat \ {0}
      BY <1>1, PageFacts, Z3
    <2>4. BlockSize % Word = BlockSize
      BY <1>1, <2>3, ModUnique
    <2>5. heap_align_value_to_upper(1) = BlockSize
      BY <1>1, <2>2, <2>4 DEF heap_align_value_to_upper
    <2> QED
      BY <1>2, <1>3, <1>4, <2>5 DEF BlocksFor
  <1> QED
    BY <1>2, <1>4, <1>5, <1>6

\* The blocks from k on are free.
Low(t, k) == \A b \in Blocks : b >= k => IsFree(t, b)

\* n is m after allocations that took at most the next j blocks: when all
\* from k on were free, all from k + j on still are.
Uses(m, n, j) == \A k \in Nat : Low(m.entries, k) /\ k + j =< Total => Low(n.entries, k + j)

\* The last j blocks or more are free.
HasRoom(m, j) == \E k \in Nat : Low(m.entries, k) /\ k + j =< Total

LEMMA UsesMore ==
    ASSUME NEW m, NEW n, NEW i \in Nat, NEW j \in Nat, i =< j, Uses(m, n, i)
    PROVE  Uses(m, n, j)
  <1> SUFFICES ASSUME NEW k \in Nat, Low(m.entries, k), k + j =< Total, NEW b \in Blocks, b >= k + j
               PROVE  IsFree(n.entries, b)
    BY DEF Uses, Low
  <1>1. k + i =< Total /\ b >= k + i
    BY CellsFacts, PageFacts
  <1> QED
    BY <1>1 DEF Uses, Low

LEMMA UsesTwice ==
    ASSUME NEW m, NEW x, NEW y, NEW i \in Nat, NEW j \in Nat, Uses(m, x, i), Uses(x, y, j)
    PROVE  Uses(m, y, i + j)
  <1> SUFFICES ASSUME NEW k \in Nat, Low(m.entries, k), k + (i + j) =< Total
               PROVE  Low(y.entries, k + (i + j))
    BY DEF Uses
  <1>1. k + i \in Nat /\ k + i =< Total /\ (k + i) + j =< Total /\ (k + i) + j = k + (i + j)
    BY PageFacts
  <1>2. Low(x.entries, k + i)
    BY <1>1 DEF Uses
  <1>3. Low(y.entries, (k + i) + j)
    BY <1>1, <1>2 DEF Uses
  <1> QED
    BY <1>1, <1>3

\* Of room for i + j blocks, i have been used.
LEMMA RoomLeft ==
    ASSUME NEW m, NEW x, NEW i \in Nat, NEW j \in Nat, Uses(m, x, i), HasRoom(m, i + j)
    PROVE  HasRoom(x, j)
  <1>1. PICK k \in Nat : Low(m.entries, k) /\ k + (i + j) =< Total
    BY DEF HasRoom
  <1>2. k + i =< Total /\ (k + i) + j =< Total /\ k + i \in Nat
    BY <1>1, PageFacts
  <1>3. Low(x.entries, k + i)
    BY <1>1, <1>2 DEF Uses
  <1> QED
    BY <1>2, <1>3 DEF HasRoom

LEMMA RoomLess ==
    ASSUME NEW m, NEW i \in Nat, NEW j \in Nat, j =< i, HasRoom(m, i)
    PROVE  HasRoom(m, j)
  <1>1. PICK k \in Nat : Low(m.entries, k) /\ k + i =< Total
    BY DEF HasRoom
  <1>2. k + j =< Total
    BY <1>1, PageFacts
  <1> QED
    BY <1>1, <1>2 DEF HasRoom

LEMMA UsesNothing ==
    ASSUME NEW m
    PROVE  Uses(m, m, 0)
  <1>1. \A k \in Nat : k + 0 = k
    OBVIOUS
  <1> QED
    BY <1>1 DEF Uses

\* kzalloc takes the first blocks that fit, so it finds room where all blocks
\* from some place on are free.
LEMMA UsesKzalloc ==
    ASSUME NEW m, NEW size, NEW n \in 1..Slack, n = BlocksFor(size),
           NEW l, NEW kind, NEW r, r = kzalloc(m, size, [load |-> l, kind |-> kind])
    PROVE  /\ Uses(m, r.mem, n)
           /\ \A k \in Nat : Low(m.entries, k) /\ k + n =< Total => r.ptr # NULL
  <1> SUFFICES ASSUME NEW k \in Nat, Low(m.entries, k), k + n =< Total
               PROVE  r.ptr # NULL /\ Low(r.mem.entries, k + n)
    BY DEF Uses
  <1>1. PICK s : s = heap_get_start_block(m.entries, n)
    OBVIOUS
  <1>2. n \in Nat /\ n > 0 /\ Total \in Nat
    BY PageFacts
  <1>3. s \in Blocks /\ s \in Nat /\ s =< k
    <2>1. k \in Fits(m.entries, n)
      <3>1. k \in Blocks /\ \A i \in k..(k + n - 1) : i \in Blocks /\ i >= k
        BY <1>2, CellsFacts
      <3> QED
        BY <3>1 DEF Fits, Low
    <2>2. Fits(m.entries, n) \subseteq Nat /\ Fits(m.entries, n) \subseteq Blocks
      BY CellsFacts DEF Fits
    <2>3. s = Min(Fits(m.entries, n))
      BY <1>1, <1>2, <2>1 DEF heap_get_start_block
    <2>4. s \in Fits(m.entries, n) /\ \A y \in Fits(m.entries, n) : s =< y
      BY <2>1, <2>2, <2>3, MinIsLeast
    <2> QED
      BY <2>1, <2>2, <2>4
  <1>4. PICK p : p = heap_block_to_address(s)
    OBVIOUS
  <1>5. r = [mem |-> Got(m, s, n, l, kind), ptr |-> p]
    <2>1. ~(s < 0)
      BY <1>3
    <2> QED
      BY <1>1, <1>4, <2>1, KzallocCases
  <1>6. r.ptr # NULL
    <2>1. p \in Addresses
      BY <1>3, <1>4, AddressOfBlock
    <2> QED
      BY <1>5, <2>1, AddressPage
  <1>7. r.mem.entries = heap_mark_blocks_taken(m.entries, s, n)
    BY <1>5 DEF Got
  <1>8. ASSUME NEW b \in Blocks, b >= k + n PROVE IsFree(r.mem.entries, b)
    <2>1. b \in Cells /\ b \notin s..(s + n - 1) /\ b >= k
      BY <1>2, <1>3, <1>8, CellsFacts
    <2>2. r.mem.entries[b] = m.entries[b]
      BY <1>7, <2>1 DEF heap_mark_blocks_taken
    <2> QED
      BY <2>1, <2>2 DEF IsFree, Low
  <1> QED
    BY <1>6, <1>8 DEF Low

\* kfree takes nothing.
LEMMA UsesKfree ==
    ASSUME NEW m \in Memory, NEW p
    PROVE  Uses(m, kfree(m, p), 0)
  <1>1. PICK n : n = kfree(m, p)
    OBVIOUS
  <1>2. n.entries = heap_mark_blocks_free(m.entries, heap_address_to_block(p))
    BY <1>1, MemoryFields DEF kfree
  <1>3. \A b \in Blocks : IsFree(m.entries, b) => IsFree(n.entries, b)
    <2>1. \A b \in Blocks : b \in Cells
      BY CellsFacts
    <2>2. \A b \in Blocks : n.entries[b] = {} \/ n.entries[b] = m.entries[b]
      BY <1>2, <2>1 DEF heap_mark_blocks_free
    <2> QED
      BY <2>2 DEF IsFree
  <1>4. \A k \in Nat : k + 0 = k
    OBVIOUS
  <1> QED
    BY <1>1, <1>3, <1>4 DEF Uses, Low

\* What a round of paging_new_4gb writes for the i-th table, at p
TableLinked(u, d, i, p, flags) ==
    [u EXCEPT !.ram[PageOf(p)] = PlainTable(i, flags),
              !.ram[PageOf(d)][i] = [page |-> PageOf(p), flags |-> flags \cup {"WRITEABLE"}]]

LEMMA LinkedFacts ==
    ASSUME NEW u \in Memory, NEW d \in Places, NEW i \in Indexes, NEW p \in Places,
           NEW flags \in SUBSET PageFlags, NEW n, n = TableLinked(u, d, i, p, flags)
    PROVE  /\ n \in Memory /\ n.entries = u.entries /\ n.held = u.held
           /\ \A x \in Pages : x # PageOf(p) /\ x # PageOf(d) => n.ram[x] = u.ram[x]
           /\ PageOf(p) # PageOf(d) =>
                /\ n.ram[PageOf(p)] = PlainTable(i, flags)
                /\ n.ram[PageOf(d)][i].page = PageOf(p)
                /\ \A e \in Indexes : e # i => n.ram[PageOf(d)][e] = u.ram[PageOf(d)][e]
  <1>1. PICK pd \in Pages, pp \in Pages : pd = PageOf(d) /\ pp = PageOf(p)
    BY PlaceFacts
  <1>2. PlainTable(i, flags) \in [Indexes -> Entry]
    <2>1. \A b \in Indexes : [page |-> i * Entries + b, flags |-> flags] \in Entry
      BY SlotOf DEF Entry
    <2> QED
      BY <2>1 DEF PlainTable
  <1>3. PICK pt \in [Indexes -> Entry] : pt = PlainTable(i, flags)
    BY <1>2
  <1>4. PICK link \in Entry : link = [page |-> PageOf(p), flags |-> flags \cup {"WRITEABLE"}]
    <2>1. flags \cup {"WRITEABLE"} \in SUBSET PageFlags
      BY DEF PageFlags
    <2> QED
      BY <1>1, <2>1 DEF Entry
  <1>5. PICK w1 : w1 = [u.ram EXCEPT ![pp] = pt]
    OBVIOUS
  <1>6. PICK w2 : w2 = [w1 EXCEPT ![pd][i] = link]
    OBVIOUS
  <1>7. u.ram \in [Pages -> [Indexes -> Entry]]
    BY MemoryFields
  <1>8. /\ w2 \in [Pages -> [Indexes -> Entry]]
        /\ \A x \in Pages : x # pp /\ x # pd => w2[x] = u.ram[x]
        /\ pp # pd => /\ w2[pp] = pt /\ w2[pd][i] = link
                      /\ \A e \in Indexes : e # i => w2[pd][e] = u.ram[pd][e]
    <2>1. w1 \in [Pages -> [Indexes -> Entry]]
      BY <1>5, <1>7
    <2>2. w2 \in [Pages -> [Indexes -> Entry]]
      BY <1>6, <2>1
    <2> QED
      BY <1>5, <1>6, <1>7, <2>1, <2>2
  <1>9. n = [u EXCEPT !.ram = w2]
    BY <1>1, <1>3, <1>4, <1>5, <1>6 DEF TableLinked
  <1>10. n \in Memory /\ n.entries = u.entries /\ n.held = u.held /\ n.ram = w2
    BY <1>8, <1>9 DEF Memory
  <1>11. link.page = PageOf(p)
    BY <1>4
  <1> QED
    BY <1>1, <1>3, <1>8, <1>10, <1>11

\* The i-th table that directory d names
TableAt(x, d, j) == x.ram[PageOf(d)][j].page * PageSize

PartPieces(x, l, d, i) ==
    {Piece(l, "directory", d, 1)} \cup {Piece(l, "table", TableAt(x, d, j), 1) : j \in 0..(i - 1)}

\* paging_new_4gb has made directory d and its first i tables.
Part(m, x, l, d, i, flags) ==
    /\ d \in Addresses
    /\ Grown(m, x, PartPieces(x, l, d, i))
    /\ \A j \in 0..(i - 1) : /\ TableAt(x, d, j) \in Addresses
                             /\ x.ram[PageOf(d)][j].page = PageOf(TableAt(x, d, j))
                             /\ x.ram[PageOf(TableAt(x, d, j))] = PlainTable(j, flags)
    /\ \A j, k \in 0..(i - 1) : TableAt(x, d, j) = TableAt(x, d, k) => j = k

PagingKinds == {"directory", "table", "chunk"}

\* paging_new_4gb has met a full heap and goes on writing to address 0.
Stuck(m, x, l, d) ==
    /\ Full(x.entries)
    /\ d \in Places
    /\ \E D : /\ Grown(m, x, D)
              /\ \A a \in D : a.owner.load = l /\ a.owner.kind \in PagingKinds
              /\ d # NULL => Piece(l, "directory", d, 1) \in D

\* A page of a kind, as paging_new_4gb asks for it
PageFor(m, l, kind) == kzalloc(m, PageSize, [load |-> l, kind |-> kind])

PageGrant(m, g, l, kind) ==
    /\ g.ptr \in Addresses /\ Piece(l, kind, g.ptr, 1) \in Pieces
    /\ Grown(m, g.mem, {Piece(l, kind, g.ptr, 1)})
    /\ \A q \in Pages : g.mem.ram[q] =
         IF q \in PagesHeld(Piece(l, kind, g.ptr, 1)) THEN ZeroPage ELSE m.ram[q]
    /\ \A a \in m.held : PagesHeld(a) \cap PagesHeld(Piece(l, kind, g.ptr, 1)) = {}
    /\ \A a \in m.held : a.ptr # g.ptr

LEMMA PageGranted ==
    ASSUME NEW m, MemOK(m), NEW l \in Loads \cup {Kernel}, NEW kind \in Kinds0,
           NEW g, g = PageFor(m, l, kind), g.ptr # NULL
    PROVE  PageGrant(m, g, l, kind)
  <1>1. 1 \in 1..Slack /\ 1 = BlocksFor(PageSize)
    BY OneBlock
  <1>2. /\ g.ptr \in Addresses /\ Piece(l, kind, g.ptr, 1) \in Pieces
        /\ Grown(m, g.mem, {Piece(l, kind, g.ptr, 1)})
        /\ \A q \in Pages : g.mem.ram[q] =
             IF q \in PagesHeld(Piece(l, kind, g.ptr, 1)) THEN ZeroPage ELSE m.ram[q]
        /\ \A a \in m.held : PagesHeld(a) \cap PagesHeld(Piece(l, kind, g.ptr, 1)) = {}
        /\ \A a \in m.held : a.ptr # g.ptr
    BY <1>1, KzallocGrows DEF PageFor
  <1> QED
    BY <1>2 DEF PageGrant

LEMMA PartStep ==
    ASSUME NEW m, NEW x, NEW l \in Loads \cup {Kernel}, NEW d, NEW i \in Indexes,
           NEW flags \in SUBSET PageFlags, Part(m, x, l, d, i, flags),
           NEW g, g = kzalloc(x, PageSize, [load |-> l, kind |-> "table"]), g.ptr # NULL,
           NEW y, y = TableLinked(g.mem, d, i, g.ptr, flags)
    PROVE  Part(m, y, l, d, i + 1, flags)
  <1>0. MemOK(x) /\ i \in Nat /\ i \in Int
    BY PageFacts DEF Part, Grown
  <1>1. PICK u : u = g.mem
    OBVIOUS
  <1>2. PICK p : p = g.ptr
    OBVIOUS
  <1>3. PICK new : new = Piece(l, "table", p, 1)
    OBVIOUS
  <1>4. /\ p \in Addresses /\ new \in Pieces /\ Grown(x, u, {new})
        /\ \A q \in Pages : u.ram[q] = IF q \in PagesHeld(new) THEN ZeroPage ELSE x.ram[q]
        /\ \A a \in x.held : PagesHeld(a) \cap PagesHeld(new) = {} /\ a.ptr # p
    <2>1. 1 \in 1..Slack /\ 1 = BlocksFor(PageSize) /\ "table" \in Kinds0
      BY OneBlock DEF Kinds0
    <2>2. /\ g.ptr \in Addresses /\ Piece(l, "table", g.ptr, 1) \in Pieces
          /\ Grown(x, g.mem, {Piece(l, "table", g.ptr, 1)})
          /\ \A q \in Pages : g.mem.ram[q] =
                IF q \in PagesHeld(Piece(l, "table", g.ptr, 1)) THEN ZeroPage ELSE x.ram[q]
          /\ \A a \in x.held : PagesHeld(a) \cap PagesHeld(Piece(l, "table", g.ptr, 1)) = {}
          /\ \A a \in x.held : a.ptr # g.ptr
      <3>1. g = PageFor(x, l, "table")
        BY DEF PageFor
      <3>2. PageGrant(x, g, l, "table")
        BY <1>0, <2>1, <3>1, PageGranted
      <3> QED
        BY <3>2 DEF PageGrant
    <2> QED
      BY <1>1, <1>2, <1>3, <2>2
  <1>5. d \in Addresses /\ Piece(l, "directory", d, 1) \in x.held
    BY DEF Part, Grown, PartPieces
  <1>6. PagesHeld(new) = {PageOf(p)}
    <2>1. PageOf(p) \in Int
      BY <1>4, AddressPage, PageFacts
    <2> QED
      BY <1>3, <2>1 DEF Piece, PagesHeld
  <1>7. PageOf(d) \in Pages /\ PageOf(p) \in Pages /\ PageOf(d) # PageOf(p)
    <2>1. PageOf(d) \in Pages /\ PageOf(p) \in Pages
      BY <1>4, <1>5, PlaceFacts DEF Places
    <2>2. d # p
      BY <1>4, <1>5 DEF Piece
    <2> QED
      BY <1>4, <1>5, <2>1, <2>2, AddressPage
  <1>8. u \in Memory
    BY <1>4 DEF Grown, MemOK
  <1>9. /\ y \in Memory /\ y.entries = u.entries /\ y.held = u.held
        /\ \A q \in Pages : q # PageOf(p) /\ q # PageOf(d) => y.ram[q] = u.ram[q]
        /\ y.ram[PageOf(p)] = PlainTable(i, flags)
        /\ y.ram[PageOf(d)][i].page = PageOf(p)
        /\ \A e \in Indexes : e # i => y.ram[PageOf(d)][e] = u.ram[PageOf(d)][e]
    <2>1. d \in Places /\ p \in Places /\ y = TableLinked(u, d, i, p, flags)
      BY <1>1, <1>2, <1>4, <1>5 DEF Places
    <2> QED
      BY <1>7, <1>8, <2>1, LinkedFacts
  <1>10. TableAt(y, d, i) = p /\ y.ram[PageOf(d)][i].page = PageOf(p)
    BY <1>4, <1>9, AddressPage DEF TableAt
  <1>11. ASSUME NEW j \in 0..(i - 1)
         PROVE  /\ TableAt(y, d, j) = TableAt(x, d, j) /\ TableAt(x, d, j) \in Addresses
                /\ y.ram[PageOf(d)][j].page = PageOf(TableAt(x, d, j))
                /\ TableAt(x, d, j) # p
                /\ y.ram[PageOf(TableAt(x, d, j))] = PlainTable(j, flags)
    <2>1. j \in Indexes /\ j # i
      BY <1>0, PageFacts
    <2>2. PICK tj \in Addresses : tj = TableAt(x, d, j)
      BY DEF Part
    <2>3. y.ram[PageOf(d)][j] = x.ram[PageOf(d)][j]
      BY <1>4, <1>6, <1>7, <1>9, <2>1
    <2>4. x.ram[PageOf(d)][j].page = PageOf(tj) /\ x.ram[PageOf(tj)] = PlainTable(j, flags)
      BY <2>2 DEF Part
    <2>5. Piece(l, "table", tj, 1) \in x.held
      BY <2>2 DEF Part, Grown, PartPieces
    <2>6. tj # p
      BY <1>4, <2>5 DEF Piece
    <2>7. tj # d
      <3>1. Piece(l, "table", tj, 1) # Piece(l, "directory", d, 1)
        BY DEF Piece
      <3>2. \A a, b \in x.held : a.ptr = b.ptr => a = b
        BY <1>0 DEF MemOK
      <3>3. Piece(l, "table", tj, 1).ptr = tj /\ Piece(l, "directory", d, 1).ptr = d
        BY DEF Piece
      <3> QED
        BY <1>5, <2>5, <3>1, <3>2, <3>3
    <2>8. PageOf(tj) \in Pages /\ PageOf(tj) # PageOf(p) /\ PageOf(tj) # PageOf(d)
      <3>1. PageOf(tj) \in Pages
        BY PlaceFacts DEF Places
      <3> QED
        BY <1>4, <1>5, <2>6, <2>7, <3>1, AddressPage
    <2>9. y.ram[PageOf(tj)] = PlainTable(j, flags)
      BY <1>4, <1>6, <1>9, <2>4, <2>8
    <2> QED
      BY <2>2, <2>3, <2>4, <2>6, <2>9 DEF TableAt
  <1>12. 0..((i + 1) - 1) = 0..(i - 1) \cup {i} /\ i \notin 0..(i - 1)
    BY <1>0
  <1>13. PartPieces(y, l, d, i + 1) = PartPieces(x, l, d, i) \cup {new}
    <2>1. {Piece(l, "table", TableAt(y, d, j), 1) : j \in 0..((i + 1) - 1)}
            = {Piece(l, "table", TableAt(y, d, j), 1) : j \in 0..(i - 1)} \cup {new}
      BY <1>3, <1>10, <1>12
    <2>2. {Piece(l, "table", TableAt(y, d, j), 1) : j \in 0..(i - 1)}
            = {Piece(l, "table", TableAt(x, d, j), 1) : j \in 0..(i - 1)}
      BY <1>11
    <2> QED
      BY <2>1, <2>2 DEF PartPieces
  <1>14. PICK D : D = PartPieces(x, l, d, i)
    OBVIOUS
  <1>15. Grown(m, u, D \cup {new})
    <2>1. Grown(m, x, D)
      BY <1>14 DEF Part
    <2> QED
      BY <1>4, <2>1, GrownTwice
  <1>16. Grown(m, y, D \cup {new})
    <2>1. Piece(l, "directory", d, 1) \in D
      BY <1>14 DEF PartPieces
    <2>2. PageOf(d) \in PagesHeld(Piece(l, "directory", d, 1))
      BY <1>7, PageFacts DEF Piece, PagesHeld
    <2>3. \A q \in Pages : q # 0 /\ (\A a \in D \cup {new} : q \notin PagesHeld(a)) => y.ram[q] = u.ram[q]
      BY <1>6, <1>9, <2>1, <2>2
    <2> QED
      BY <1>9, <1>15, <2>3, GrownWritten
  <1>17. Grown(m, y, PartPieces(y, l, d, i + 1))
    BY <1>13, <1>14, <1>16
  <1>18. \A j \in 0..((i + 1) - 1) :
            /\ TableAt(y, d, j) \in Addresses
            /\ y.ram[PageOf(d)][j].page = PageOf(TableAt(y, d, j))
            /\ y.ram[PageOf(TableAt(y, d, j))] = PlainTable(j, flags)
    BY <1>4, <1>9, <1>10, <1>11, <1>12
  <1>19. \A j, k \in 0..((i + 1) - 1) : TableAt(y, d, j) = TableAt(y, d, k) => j = k
    <2>1. \A j, k \in 0..(i - 1) : TableAt(x, d, j) = TableAt(x, d, k) => j = k
      BY DEF Part
    <2> QED
      BY <1>10, <1>11, <1>12, <2>1
  <1> QED
    BY <1>5, <1>17, <1>18, <1>19 DEF Part

LEMMA StuckStep ==
    ASSUME NEW m, NEW x, NEW l \in Loads \cup {Kernel}, NEW d, NEW i \in Indexes,
           NEW flags \in SUBSET PageFlags, Stuck(m, x, l, d),
           NEW g, g = kzalloc(x, PageSize, [load |-> l, kind |-> "table"]),
           NEW y, y = TableLinked(g.mem, d, i, g.ptr, flags)
    PROVE  Stuck(m, y, l, d)
  <1>1. PICK D : /\ Grown(m, x, D)
                 /\ \A a \in D : a.owner.load = l /\ a.owner.kind \in PagingKinds
                 /\ d # NULL => Piece(l, "directory", d, 1) \in D
    BY DEF Stuck
  <1>2. g.ptr = NULL /\ g.mem = x
    <2>1. g.ptr = NULL
      BY OneBlock, RefusedIsFull DEF Stuck
    <2> QED
      BY <2>1, OneBlock, KzallocRefused
  <1>3. x \in Memory /\ d \in Places /\ NULL \in Places
    BY <1>1 DEF Grown, MemOK, Stuck, Places
  <1>4. y = TableLinked(x, d, i, NULL, flags)
    BY <1>2
  <1>5. /\ y \in Memory /\ y.entries = x.entries /\ y.held = x.held
        /\ \A q \in Pages : q # PageOf(NULL) /\ q # PageOf(d) => y.ram[q] = x.ram[q]
    BY <1>3, <1>4, LinkedFacts
  <1>6. \A q \in Pages : q # 0 /\ (\A a \in D : q \notin PagesHeld(a)) => y.ram[q] = x.ram[q]
    <2>1. PageOf(d) = 0 \/ \E a \in D : PageOf(d) \in PagesHeld(a)
      <3>1. CASE d = NULL
        BY <3>1, NullPage
      <3>2. CASE d # NULL
        <4>1. PageOf(d) \in Int
          BY <1>3, PlaceFacts, PageFacts
        <4>2. PageOf(d) \in PagesHeld(Piece(l, "directory", d, 1))
          BY <4>1 DEF Piece, PagesHeld
        <4> QED
          BY <1>1, <3>2, <4>2
      <3> QED
        BY <3>1, <3>2
    <2> QED
      BY <1>5, <2>1, NullPage
  <1>7. Grown(m, y, D)
    BY <1>1, <1>5, <1>6, GrownWritten
  <1>8. Full(y.entries)
    BY <1>5 DEF Stuck
  <1> QED
    BY <1>1, <1>3, <1>7, <1>8 DEF Stuck

\* A directory or a table that is refused has met a full heap.
LEMMA PartStuck ==
    ASSUME NEW m, NEW x, NEW l, NEW d, NEW i \in Nat, NEW flags, Part(m, x, l, d, i, flags), Full(x.entries)
    PROVE  Stuck(m, x, l, d)
  <1>1. Grown(m, x, PartPieces(x, l, d, i)) /\ d \in Addresses
    BY DEF Part
  <1>2. \A a \in PartPieces(x, l, d, i) : a.owner.load = l /\ a.owner.kind \in PagingKinds
    BY DEF PartPieces, Piece, PagingKinds
  <1>3. Piece(l, "directory", d, 1) \in PartPieces(x, l, d, i)
    BY DEF PartPieces
  <1> QED
    BY <1>1, <1>2, <1>3 DEF Stuck, Places

\* The rounds of paging_new_4gb, and what it makes of its directory
TablesFrom(now, d, flags, l) ==
    LET after[i \in 0..Entries] ==
            IF i = 0 THEN now
            ELSE TableLinked(kzalloc(after[i - 1], PageSize, [load |-> l, kind |-> "table"]).mem, d, i - 1,
                             kzalloc(after[i - 1], PageSize, [load |-> l, kind |-> "table"]).ptr, flags)
    IN  after[Entries]

SpaceFrom(dir, flags, l) ==
    LET chunk == kzalloc(TablesFrom(dir.mem, dir.ptr, flags, l), PageSize, [load |-> l, kind |-> "chunk"])
    IN  [chunk EXCEPT !.mem.ram[PageOf(chunk.ptr)][0] = [page |-> PageOf(dir.ptr), flags |-> {}]]

ChunkWritten(u, c, d) == [u EXCEPT !.ram[PageOf(c)][0] = [page |-> PageOf(d), flags |-> {}]]

LEMMA ChunkFacts ==
    ASSUME NEW u \in Memory, NEW c \in Places, NEW d \in Places,
           NEW y, y = ChunkWritten(u, c, d)
    PROVE  /\ y \in Memory /\ y.entries = u.entries /\ y.held = u.held
           /\ \A q \in Pages : q # PageOf(c) => y.ram[q] = u.ram[q]
           /\ y.ram[PageOf(c)][0] = [page |-> PageOf(d), flags |-> {}]
  <1>1. PICK p \in Pages, b \in Indexes : p = PageOf(c) /\ b = 0
    BY PlaceFacts, PageFacts
  <1>2. PICK val \in Entry : val = [page |-> PageOf(d), flags |-> {}]
    BY PlaceFacts DEF Entry
  <1>3. y = [u EXCEPT !.ram[p][b] = val]
    BY <1>1, <1>2 DEF ChunkWritten
  <1>4. /\ y \in Memory /\ y.entries = u.entries /\ y.held = u.held
        /\ \A x \in Pages : x # p => y.ram[x] = u.ram[x]
        /\ y.ram[p][b] = val
    <2>1. u.ram \in [Pages -> [Indexes -> Entry]]
      BY MemoryFields
    <2>2. PICK w : w = [u.ram EXCEPT ![p][b] = val]
      OBVIOUS
    <2>3. /\ w \in [Pages -> [Indexes -> Entry]]
          /\ \A x \in Pages : x # p => w[x] = u.ram[x]
          /\ w[p][b] = val
      BY <2>1, <2>2
    <2>4. y = [u EXCEPT !.ram = w]
      BY <1>3, <2>2
    <2>5. y \in Memory /\ y.entries = u.entries /\ y.held = u.held /\ y.ram = w
      BY <2>3, <2>4 DEF Memory
    <2> QED
      BY <2>3, <2>5
  <1> QED
    BY <1>1, <1>2, <1>4

LEMMA SpaceUnfolded ==
    ASSUME NEW m, NEW flags, NEW l
    PROVE  paging_new_4gb(m, flags, l) =
                SpaceFrom(kzalloc(m, PageSize, [load |-> l, kind |-> "directory"]), flags, l)
  BY Zenon DEF paging_new_4gb, SpaceFrom, TablesFrom, TableLinked

\* paging_new_4gb: a plain space of the load's own, or a null pointer and
\* what was allocated on the way; nobody else's memory is touched.
LEMMA NewSpace ==
    ASSUME NEW m, MemOK(m), NEW l \in Loads \cup {Kernel}, NEW flags \in SUBSET PageFlags,
           NEW r, r = paging_new_4gb(m, flags, l)
    PROVE  /\ r.ptr \in Places
           /\ \E D : /\ Grown(m, r.mem, D)
                     /\ \A a \in D : a.owner.load = l /\ a.owner.kind \in PagingKinds
                     /\ r.ptr # NULL => \E d, t :
                            /\ D = SpacePieces(l, r.ptr, d, t)
                            /\ SpaceAt(r.mem, l, r.ptr, d, t, PlainView(flags))
           /\ Uses(m, r.mem, Entries + 2)
           /\ \A k \in Nat : Low(m.entries, k) /\ k + (Entries + 2) =< Total => r.ptr # NULL
  <1>a. PICK dir : dir = kzalloc(m, PageSize, [load |-> l, kind |-> "directory"])
    OBVIOUS
  <1> DEFINE n == Entries
             base == dir.mem
             E(x, i) == TableLinked(kzalloc(x, PageSize, [load |-> l, kind |-> "table"]).mem, dir.ptr, i - 1,
                                    kzalloc(x, PageSize, [load |-> l, kind |-> "table"]).ptr, flags)
             step == [i \in 1..n |-> [x \in Memory |-> E(x, i)]]
             Loop(f) == f = [i \in 0..n |-> IF i = 0 THEN base ELSE E(f[i - 1], i)]
             after == CHOOSE f : Loop(f)
  <1>b. {"directory", "table", "chunk"} \subseteq Kinds0 /\ 1 \in 1..Slack /\ 1 = BlocksFor(PageSize)
        /\ BlocksFor(PageSize) \in 1..Slack
    BY OneBlock DEF Kinds0
  <1>c. dir.mem \in Memory /\ dir.ptr \in Places /\ m \in Memory
    BY <1>a, <1>b, KzallocType DEF MemOK, Places
  <1>d. n \in Nat /\ base \in Memory /\ \A i \in 1..n : i - 1 \in Indexes
    BY <1>c, PageFacts
  <1>1. step \in [1..n -> [Memory -> Memory]]
    <2>1. ASSUME NEW i \in 1..n, NEW x \in Memory PROVE E(x, i) \in Memory
      <3>1. PICK g : g = kzalloc(x, PageSize, [load |-> l, kind |-> "table"])
        OBVIOUS
      <3>2. g.mem \in Memory /\ g.ptr \in Places
        BY <1>b, <3>1, KzallocType DEF Places
      <3>3. TableLinked(g.mem, dir.ptr, i - 1, g.ptr, flags) \in Memory
        BY <1>c, <1>d, <3>2, LinkedFacts
      <3> QED
        BY <3>1, <3>3
    <2> HIDE DEF E
    <2> QED
      BY <2>1
  <1> HIDE DEF E
  <1>2. PICK f \in [0..n -> Memory] : IsLoop(f, n, base, step)
    <2> HIDE DEF step, n, base
    <2> QED
      BY <1>d, <1>1, LoopDefined, Zenon
  <1>3. Loop(f)
    <2>1. ASSUME NEW i \in 0..n
          PROVE  f[i] = IF i = 0 THEN base ELSE E(f[i - 1], i)
      <3>1. f[i] = IF i = 0 THEN base ELSE step[i][f[i - 1]]
        BY <1>2 DEF IsLoop
      <3>2. i # 0 => i \in 1..n /\ f[i - 1] \in Memory
        BY <1>d, <1>2
      <3> QED
        BY <3>1, <3>2
    <2> QED
      BY <1>2, <2>1
  <1>4. Loop(after)
    <2> HIDE DEF Loop
    <2> QED
      BY <1>3, Zenon
  <1>5. PICK chunk : chunk = kzalloc(after[n], PageSize, [load |-> l, kind |-> "chunk"])
    OBVIOUS
  <1>6. r = [chunk EXCEPT !.mem.ram[PageOf(chunk.ptr)][0] = [page |-> PageOf(dir.ptr), flags |-> {}]]
    <2>1. r = SpaceFrom(dir, flags, l)
      BY <1>a, SpaceUnfolded
    <2>2. after[n] = TablesFrom(dir.mem, dir.ptr, flags, l)
      BY Zenon DEF TablesFrom, E
    <2> HIDE DEF after
    <2> QED
      BY <1>5, <2>1, <2>2 DEF SpaceFrom
  <1> HIDE DEF after
  <1>7. after[0] = base /\ \A i \in 1..n : after[i] = E(after[i - 1], i)
    BY <1>d, <1>4
  <1> DEFINE Done(i) == /\ after[i] \in Memory
                        /\ \/ Part(m, after[i], l, dir.ptr, i, flags)
                           \/ Stuck(m, after[i], l, dir.ptr)
                        /\ Uses(m, after[i], i + 1)
             S == {i \in 0..n : Done(i)}
  <1>8. 0 \in S
    <2>1. Uses(m, dir.mem, 0 + 1)
      <3>1. Uses(m, dir.mem, 1)
        BY <1>a, <1>b, UsesKzalloc
      <3> QED
        BY <3>1
    <2>2. \/ Part(m, dir.mem, l, dir.ptr, 0, flags)
          \/ Stuck(m, dir.mem, l, dir.ptr)
      <3>1. CASE dir.ptr = NULL
        <4>1. dir.mem = m /\ Full(m.entries)
          BY <1>a, <1>b, <3>1, KzallocRefused, RefusedIsFull
        <4>2. Grown(m, m, {})
          BY GrownSelf
        <4> QED
          BY <1>c, <3>1, <4>1, <4>2 DEF Stuck
      <3>2. CASE dir.ptr # NULL
        <4>1. PICK p, u : p = dir.ptr /\ u = dir.mem
          OBVIOUS
        <4>2. p \in Addresses /\ Grown(m, u, {Piece(l, "directory", p, 1)})
          BY <1>a, <1>b, <3>2, <4>1, KzallocGrows
        <4>3. 0..(0 - 1) = {}
          OBVIOUS
        <4>4. PartPieces(u, l, p, 0) = {Piece(l, "directory", p, 1)}
          BY <4>3 DEF PartPieces
        <4>5. Part(m, u, l, p, 0, flags)
          BY <4>2, <4>3, <4>4 DEF Part
        <4> QED
          BY <4>1, <4>5
      <3> QED
        BY <3>1, <3>2
    <2> QED
      BY <1>d, <1>7, <2>1, <2>2
  <1>9. ASSUME NEW k \in 0..(n - 1), k \in S
        PROVE  k + 1 \in S
    <2>1. k + 1 \in 1..n /\ (k + 1) - 1 = k /\ k + 1 \in 0..n /\ k \in Indexes /\ k \in Nat
      BY <1>d, PageFacts
    <2>2. PICK x \in Memory : x = after[k]
      BY <1>9
    <2>3. PICK g : g = kzalloc(x, PageSize, [load |-> l, kind |-> "table"])
      OBVIOUS
    <2>4. PICK d \in Places : d = dir.ptr
      BY <1>c
    <2>5. PICK y : y = TableLinked(g.mem, d, k, g.ptr, flags)
      OBVIOUS
    <2>6. after[k + 1] = y
      BY <1>7, <2>1, <2>2, <2>3, <2>4, <2>5 DEF E
    <2>7. g.mem \in Memory /\ g.ptr \in Places
      BY <1>b, <2>3, KzallocType DEF Places
    <2>8. y \in Memory /\ y.entries = g.mem.entries
      BY <2>1, <2>5, <2>7, LinkedFacts
    <2>9. Part(m, y, l, d, k + 1, flags) \/ Stuck(m, y, l, d)
      <3>1. CASE Stuck(m, x, l, d)
        BY <2>1, <2>3, <2>5, <3>1, StuckStep
      <3>2. CASE Part(m, x, l, d, k, flags)
        <4>1. CASE g.ptr # NULL
          BY <2>1, <2>3, <2>5, <3>2, <4>1, PartStep
        <4>2. CASE g.ptr = NULL
          <5>1. Full(x.entries)
            BY <1>b, <2>3, <4>2, RefusedIsFull
          <5>2. Stuck(m, x, l, d)
            BY <2>1, <3>2, <5>1, PartStuck
          <5> QED
            BY <2>1, <2>3, <2>5, <5>2, StuckStep
        <4> QED
          BY <4>1, <4>2
      <3> QED
        BY <1>9, <2>2, <2>4, <3>1, <3>2
    <2>10. Uses(m, y, (k + 1) + 1)
      <3>1. Uses(m, x, k + 1) /\ k + 1 \in Nat
        BY <1>9, <2>1, <2>2
      <3>2. Uses(x, g.mem, 1)
        BY <1>b, <2>3, UsesKzalloc
      <3>3. Uses(m, g.mem, (k + 1) + 1)
        BY <3>1, <3>2, UsesTwice
      <3> QED
        BY <2>8, <3>3 DEF Uses
    <2>11. Done(k + 1)
      BY <2>4, <2>6, <2>8, <2>9, <2>10
    <2> HIDE DEF Done
    <2> QED
      BY <2>1, <2>11
  <1> HIDE DEF S
  <1>10. 0..n \subseteq S
    <2> HIDE DEF n
    <2> QED
      BY <1>d, <1>8, <1>9, SetInduction, Zenon
  <1>11. Done(n)
    BY <1>d, <1>10 DEF S
  <1>12. PICK x \in Memory : x = after[n]
    BY <1>11
  <1>13. PICK d \in Places : d = dir.ptr
    BY <1>c
  <1>14. /\ Part(m, x, l, d, Entries, flags) \/ Stuck(m, x, l, d)
         /\ Uses(m, x, Entries + 1)
    BY <1>11, <1>12, <1>13
  <1>15. PICK u, c : u = chunk.mem /\ c = chunk.ptr
    OBVIOUS
  <1>16. chunk = kzalloc(x, PageSize, [load |-> l, kind |-> "chunk"])
    BY <1>5, <1>12
  <1>17. u \in Memory /\ c \in Places /\ chunk = [mem |-> u, ptr |-> c]
    BY <1>b, <1>15, <1>16, KzallocType DEF Places
  <1>18. PICK val \in Entry : val = [page |-> PageOf(d), flags |-> {}]
    BY PlaceFacts DEF Entry
  <1>19. PICK y : y = ChunkWritten(u, c, d)
    OBVIOUS
  <1>20. r.mem = y /\ r.ptr = c
    <2>1. r = [chunk EXCEPT !.mem = y]
      BY <1>6, <1>13, <1>15, <1>19 DEF ChunkWritten
    <2> QED
      BY <1>17, <2>1
  <1>21. PageOf(c) \in Pages /\ 0 \in Indexes
    BY <1>17, PlaceFacts, PageFacts
  <1>22. /\ y \in Memory /\ y.entries = u.entries /\ y.held = u.held
         /\ \A q \in Pages : q # PageOf(c) => y.ram[q] = u.ram[q]
         /\ y.ram[PageOf(c)][0] = val
    BY <1>17, <1>18, <1>19, ChunkFacts
  <1>23. /\ Uses(m, y, Entries + 2)
         /\ \A k \in Nat : Low(m.entries, k) /\ k + (Entries + 2) =< Total => c # NULL
    <2>1. Entries + 1 \in Nat /\ (Entries + 1) + 1 = Entries + 2
      BY PageFacts
    <2>2. /\ Uses(x, u, 1)
          /\ \A k \in Nat : Low(x.entries, k) /\ k + 1 =< Total => c # NULL
      BY <1>15, <1>16, <1>b, UsesKzalloc
    <2>3. Uses(m, u, (Entries + 1) + 1)
      BY <1>14, <2>1, <2>2, UsesTwice
    <2>4. ASSUME NEW k \in Nat, Low(m.entries, k), k + (Entries + 2) =< Total PROVE c # NULL
      <3>1. k + (Entries + 1) \in Nat /\ k + (Entries + 1) =< Total /\ (k + (Entries + 1)) + 1 =< Total
        BY <2>1, <2>4, PageFacts
      <3>2. Low(x.entries, k + (Entries + 1))
        BY <1>14, <2>4, <3>1 DEF Uses
      <3> QED
        BY <2>2, <3>1, <3>2
    <2> QED
      BY <1>22, <2>1, <2>3, <2>4 DEF Uses
  <1>24. CASE c = NULL
    <2>1. u = x /\ Full(x.entries)
      BY <1>15, <1>16, <1>24, <1>b, KzallocRefused, RefusedIsFull
    <2>2. Stuck(m, x, l, d)
      BY <1>14, <1>d, <2>1, PartStuck
    <2>3. PICK D : /\ Grown(m, x, D)
                   /\ \A a \in D : a.owner.load = l /\ a.owner.kind \in PagingKinds
      BY <2>2 DEF Stuck
    <2>4. Grown(m, y, D)
      <3>1. \A q \in Pages : q # 0 /\ (\A a \in D : q \notin PagesHeld(a)) => y.ram[q] = x.ram[q]
        BY <1>22, <1>24, <2>1, NullPage
      <3> QED
        BY <1>22, <2>1, <2>3, <3>1, GrownWritten
    <2> QED
      BY <1>17, <1>20, <1>23, <1>24, <2>3, <2>4
  <1>25. CASE c # NULL
    <2>1. PICK new : new = Piece(l, "chunk", c, 1)
      OBVIOUS
    <2>2. ~Full(x.entries)
      BY <1>15, <1>16, <1>25, <1>b, RefusedIsFull
    <2>3. Part(m, x, l, d, Entries, flags)
      BY <1>14, <2>2 DEF Stuck
    <2>4. MemOK(x)
      BY <2>3 DEF Part, Grown
    <2>5. /\ c \in Addresses /\ Grown(x, u, {new})
          /\ \A q \in Pages : u.ram[q] = IF q \in PagesHeld(new) THEN ZeroPage ELSE x.ram[q]
          /\ \A a \in x.held : PagesHeld(a) \cap PagesHeld(new) = {}
          /\ \A a \in x.held : a.ptr # c
      <3>1. chunk.ptr # NULL /\ 1 \in 1..Slack /\ 1 = BlocksFor(PageSize) /\ "chunk" \in Kinds0
        BY <1>15, <1>25, <1>b
      <3>2. /\ chunk.ptr \in Addresses
            /\ Grown(x, chunk.mem, {Piece(l, "chunk", chunk.ptr, 1)})
            /\ \A q \in Pages : chunk.mem.ram[q] =
                    IF q \in PagesHeld(Piece(l, "chunk", chunk.ptr, 1)) THEN ZeroPage ELSE x.ram[q]
            /\ \A a \in x.held : PagesHeld(a) \cap PagesHeld(Piece(l, "chunk", chunk.ptr, 1)) = {}
            /\ \A a \in x.held : a.ptr # chunk.ptr
        <4>1. chunk = PageFor(x, l, "chunk")
          BY <1>16 DEF PageFor
        <4>2. PageGrant(x, chunk, l, "chunk")
          BY <2>4, <3>1, <4>1, PageGranted
        <4> QED
          BY <4>2 DEF PageGrant
      <3> QED
        BY <1>15, <2>1, <3>2
    <2>6. PagesHeld(new) = {PageOf(c)}
      <3>1. PageOf(c) \in Int
        BY <1>21, PageFacts
      <3> QED
        BY <2>1, <3>1 DEF Piece, PagesHeld
    <2>7. PICK t : t = [j \in Indexes |-> TableAt(x, d, j)]
      OBVIOUS
    <2>8. Indexes = 0..(Entries - 1) /\ d \in Addresses
      BY <2>3, PageFacts DEF Part
    <2>9. PartPieces(x, l, d, Entries) = {Piece(l, "directory", d, 1)} \cup {Piece(l, "table", t[j], 1) : j \in Indexes}
      BY <2>7, <2>8 DEF PartPieces
    <2>10. PICK D : D = PartPieces(x, l, d, Entries) \cup {new}
      OBVIOUS
    <2>11. D = SpacePieces(l, c, d, t)
      BY <2>1, <2>9, <2>10 DEF SpacePieces
    <2>12. Grown(m, u, D)
      <3>1. Grown(m, x, PartPieces(x, l, d, Entries))
        BY <2>3 DEF Part
      <3> QED
        BY <2>5, <2>10, <3>1, GrownTwice
    <2>13. Grown(m, y, D)
      <3>1. \A q \in Pages : q # 0 /\ (\A a \in D : q \notin PagesHeld(a)) => y.ram[q] = u.ram[q]
        BY <1>22, <2>6, <2>10
      <3> QED
        BY <1>22, <2>12, <3>1, GrownWritten
    <2>14. \A a \in D : a.owner.load = l /\ a.owner.kind \in PagingKinds
      BY <2>11 DEF SpacePieces, Piece, PagingKinds
    <2>15. ASSUME NEW a \in x.held, a.blocks = 1, a.ptr \in Addresses
           PROVE  y.ram[PageOf(a.ptr)] = x.ram[PageOf(a.ptr)] /\ PageOf(a.ptr) \in Pages
      <3>1. PageOf(a.ptr) \in Pages
        BY <2>15, PlaceFacts DEF Places
      <3>2. PageOf(a.ptr) # PageOf(c)
        BY <2>5, <2>15, AddressPage
      <3> QED
        BY <1>22, <2>5, <2>6, <3>1, <3>2
    <2>16. PartPieces(x, l, d, Entries) \subseteq x.held
      BY <2>3 DEF Part, Grown
    <2>17. y.ram[PageOf(d)] = x.ram[PageOf(d)]
      <3>1. Piece(l, "directory", d, 1) \in x.held
        BY <2>9, <2>16
      <3>2. Piece(l, "directory", d, 1).ptr = d /\ Piece(l, "directory", d, 1).blocks = 1
        BY DEF Piece
      <3> QED
        BY <2>8, <2>15, <3>1, <3>2
    <2>18. ASSUME NEW j \in Indexes
           PROVE  /\ t[j] \in Addresses /\ x.ram[PageOf(d)][j].page = PageOf(t[j])
                  /\ y.ram[PageOf(t[j])] = PlainTable(j, flags)
      <3>1. /\ t[j] \in Addresses /\ x.ram[PageOf(d)][j].page = PageOf(t[j])
            /\ x.ram[PageOf(t[j])] = PlainTable(j, flags)
        BY <2>3, <2>7, <2>8 DEF Part
      <3>2. Piece(l, "table", t[j], 1) \in x.held
        BY <2>9, <2>16
      <3>3. Piece(l, "table", t[j], 1).ptr = t[j] /\ Piece(l, "table", t[j], 1).blocks = 1
        BY DEF Piece
      <3>4. y.ram[PageOf(t[j])] = x.ram[PageOf(t[j])]
        BY <2>15, <3>1, <3>2, <3>3
      <3> QED
        BY <3>1, <3>4
    <2>19. t \in [Indexes -> Addresses]
      BY <2>7, <2>18
    <2>20. \A j, k \in Indexes : t[j] = t[k] => j = k
      BY <2>3, <2>7, <2>8 DEF Part
    <2>21. ASSUME NEW j \in Indexes, NEW b \in Indexes
           PROVE  y.ram[PageOf(t[j])][b] = PlainView(flags)[j * Entries + b]
      <3>1. j * Entries + b \in Pages
        BY SlotOf
      <3> QED
        BY <2>18, <3>1 DEF PlainTable, PlainView, Plain
    <2>22. val.page = PageOf(d)
      BY <1>18
    <2>23. SpacePieces(l, c, d, t) \subseteq y.held
      BY <2>11, <2>13 DEF Grown
    <2>24. SpaceAt(y, l, c, d, t, PlainView(flags))
      BY <1>22, <2>17, <2>18, <2>19, <2>20, <2>21, <2>22, <2>23 DEF SpaceAt
    <2> QED
      BY <1>17, <1>20, <1>23, <2>11, <2>13, <2>14, <2>24
  <1> QED
    BY <1>24, <1>25

\* paging_free_4gb frees the tables, the directory and the chunk, each once.
LEMMA FreeSpace ==
    ASSUME NEW m, MemOK(m), NEW l \in Loads \cup {Kernel}, NEW c, NEW d, NEW t, NEW view,
           SpaceAt(m, l, c, d, t, view), NEW o, o = paging_free_4gb(m, c)
    PROVE  MemOK(o) /\ o.held = m.held \ SpacePieces(l, c, d, t) /\ o.ram = m.ram
  <1> DEFINE n == Entries
             E(x, i) == kfree(x, m.ram[PageOf(directory_entry(m, c))][i - 1].page * PageSize)
             step == [i \in 1..n |-> [x \in Memory |-> E(x, i)]]
             Loop(f) == f = [i \in 0..n |-> IF i = 0 THEN m ELSE E(f[i - 1], i)]
             after == CHOOSE f : Loop(f)
  <1>a. Dir(m, c) = d /\ Tables(m, c) = t
    BY SpaceFacts
  <1>b. directory_entry(m, c) = d /\ \A j \in Indexes : m.ram[PageOf(directory_entry(m, c))][j].page * PageSize = t[j]
    BY <1>a DEF Dir, Tables
  <1>0. n \in Nat /\ m \in Memory
    BY PageFacts DEF MemOK
  <1>1. step \in [1..n -> [Memory -> Memory]]
    BY KfreeType
  <1> HIDE DEF E
  <1>2. PICK f \in [0..n -> Memory] : IsLoop(f, n, m, step)
    <2> HIDE DEF step, n
    <2> QED
      BY <1>0, <1>1, LoopDefined, Zenon
  <1>3. Loop(f)
    <2>1. ASSUME NEW i \in 0..n
          PROVE  f[i] = IF i = 0 THEN m ELSE E(f[i - 1], i)
      <3>1. f[i] = IF i = 0 THEN m ELSE step[i][f[i - 1]]
        BY <1>2 DEF IsLoop
      <3>2. i # 0 => i \in 1..n /\ f[i - 1] \in Memory
        BY <1>0, <1>2
      <3> QED
        BY <3>1, <3>2
    <2> QED
      BY <1>2, <2>1
  <1>4. Loop(after)
    <2> HIDE DEF Loop
    <2> QED
      BY <1>3, Zenon
  <1>5. o = kfree(kfree(after[n], directory_entry(m, c)), c)
    BY Zenon DEF paging_free_4gb, E
  <1> HIDE DEF after
  <1>6. after[0] = m /\ \A i \in 1..n : after[i] = E(after[i - 1], i)
    BY <1>0, <1>4
  <1> DEFINE Gone(i) == {Piece(l, "table", t[j], 1) : j \in 0..(i - 1)}
             Done(i) == MemOK(after[i]) /\ after[i].held = m.held \ Gone(i) /\ after[i].ram = m.ram
             S == {i \in 0..n : Done(i)}
  <1>7. 0 \in S
    <2>1. 0..(0 - 1) = {}
      OBVIOUS
    <2>2. Gone(0) = {}
      BY <2>1
    <2> QED
      BY <1>0, <1>6, <2>2
  <1>c. /\ \A j \in Indexes : Piece(l, "table", t[j], 1) \in m.held
        /\ Piece(l, "chunk", c, 1) \in m.held /\ Piece(l, "directory", d, 1) \in m.held
        /\ \A j, k \in Indexes : t[j] = t[k] => j = k
    BY DEF SpaceAt, SpacePieces
  <1>d. \A kind, p : Piece(l, kind, p, 1).ptr = p /\ Piece(l, kind, p, 1).owner.kind = kind
    BY DEF Piece
  <1>8. ASSUME NEW k \in 0..(n - 1), k \in S
        PROVE  k + 1 \in S
    <2>1. k + 1 \in 1..n /\ (k + 1) - 1 = k /\ k + 1 \in 0..n /\ k \in Indexes /\ k \in Int
      BY <1>0, PageFacts
    <2>2. PICK x : x = after[k]
      OBVIOUS
    <2>3. MemOK(x) /\ x.held = m.held \ Gone(k) /\ x.ram = m.ram
      BY <1>8, <2>2
    <2>4. PICK a : a = Piece(l, "table", t[k], 1)
      OBVIOUS
    <2>5. a \in x.held
      <3>1. ASSUME NEW j \in 0..(k - 1) PROVE a # Piece(l, "table", t[j], 1)
        <4>1. j \in Indexes /\ j # k
          BY <2>1, PageFacts
        <4>2. t[j] # t[k]
          BY <1>c, <2>1, <4>1
        <4> QED
          BY <1>d, <2>4, <4>2
      <3> QED
        BY <1>c, <2>1, <2>3, <2>4, <3>1
    <2>6. after[k + 1] = kfree(x, a.ptr)
      <3>1. after[k + 1] = kfree(x, t[k])
        BY <1>6, <1>b, <2>1, <2>2 DEF E
      <3>2. a.ptr = t[k]
        BY <1>d, <2>4
      <3> QED
        BY <3>1, <3>2
    <2>7. PICK y : y = kfree(x, a.ptr)
      OBVIOUS
    <2>8. MemOK(y) /\ y.held = x.held \ {a} /\ y.ram = x.ram
      BY <2>3, <2>5, <2>7, KfreePiece
    <2>9. Gone(k + 1) = Gone(k) \cup {a}
      <3>1. 0..((k + 1) - 1) = 0..(k - 1) \cup {k}
        BY <2>1
      <3> QED
        BY <2>4, <3>1
    <2> HIDE DEF Gone
    <2>10. y.held = m.held \ Gone(k + 1)
      BY <2>3, <2>8, <2>9
    <2> QED
      BY <2>1, <2>3, <2>6, <2>7, <2>8, <2>10
  <1> HIDE DEF S
  <1>9. 0..n \subseteq S
    <2> HIDE DEF n
    <2> QED
      BY <1>0, <1>7, <1>8, SetInduction, Zenon
  <1>10. Done(n)
    BY <1>0, <1>9 DEF S
  <1>11. PICK x : x = after[n]
    OBVIOUS
  <1>12. MemOK(x) /\ x.held = m.held \ Gone(n) /\ x.ram = m.ram
    BY <1>10, <1>11
  <1>13. PICK a, b : a = Piece(l, "directory", d, 1) /\ b = Piece(l, "chunk", c, 1)
    OBVIOUS
  <1>14. a.ptr = d /\ b.ptr = c /\ a # b /\ a \notin Gone(n) /\ b \notin Gone(n)
    BY <1>13, <1>d
  <1>15. Gone(n) \cup {a, b} = SpacePieces(l, c, d, t)
    BY <1>13, PageFacts DEF SpacePieces
  <1> HIDE DEF Gone
  <1>16. a \in x.held /\ b \in x.held
    BY <1>c, <1>12, <1>13, <1>14
  <1>17. PICK y : y = kfree(x, a.ptr)
    OBVIOUS
  <1>18. MemOK(y) /\ y.held = x.held \ {a} /\ y.ram = x.ram
    BY <1>12, <1>16, <1>17, KfreePiece
  <1>19. b \in y.held
    BY <1>14, <1>16, <1>18
  <1>20. PICK z : z = kfree(y, b.ptr)
    OBVIOUS
  <1>21. MemOK(z) /\ z.held = y.held \ {b} /\ z.ram = y.ram
    BY <1>18, <1>19, <1>20, KfreePiece
  <1>22. o = z
    BY <1>5, <1>b, <1>11, <1>14, <1>17, <1>20
  <1>23. z.held = m.held \ (Gone(n) \cup {a, b})
    BY <1>12, <1>18, <1>21
  <1> QED
    BY <1>12, <1>15, <1>18, <1>21, <1>22, <1>23

\* task_free
LEMMA TaskFree ==
    ASSUME NEW m, MemOK(m), NEW l \in Loads \cup {Kernel}, NEW c, NEW d, NEW t, NEW view,
           SpaceAt(m, l, c, d, t, view), NEW p, Piece(l, "task", p, 1) \in m.held,
           NEW o, o = task_free(m, p, c)
    PROVE  /\ MemOK(o) /\ o.ram = m.ram
           /\ o.held = m.held \ (SpacePieces(l, c, d, t) \cup {Piece(l, "task", p, 1)})
  <1>1. PICK x : x = paging_free_4gb(m, c)
    OBVIOUS
  <1>2. MemOK(x) /\ x.held = m.held \ SpacePieces(l, c, d, t) /\ x.ram = m.ram
    <2>1. \A y : y = paging_free_4gb(m, c) =>
                MemOK(y) /\ y.held = m.held \ SpacePieces(l, c, d, t) /\ y.ram = m.ram
      BY FreeSpace
    <2> QED
      BY <1>1, <2>1
  <1>3. PICK a : a = Piece(l, "task", p, 1)
    OBVIOUS
  <1>4. a.ptr = p /\ a \notin SpacePieces(l, c, d, t)
    BY <1>3 DEF Piece, SpacePieces
  <1>5. a \in x.held
    BY <1>2, <1>3, <1>4
  <1>6. o = kfree(x, a.ptr)
    BY <1>1, <1>4 DEF task_free
  <1>7. MemOK(o) /\ o.held = x.held \ {a} /\ o.ram = x.ram
    BY <1>2, <1>5, <1>6, KfreePiece
  <1> QED
    BY <1>2, <1>3, <1>7

\* Changing one's own tables disturbs no other load.
LEMMA RedrawnFrame ==
    ASSUME NEW m, MemOK(m), NEW l \in Loads \cup {Kernel}, NEW c, NEW d, NEW t, NEW view,
           SpaceAt(m, l, c, d, t, view), NEW n, Redrawn(m, n, t)
    PROVE  Frame(m, n, l)
  <1>1. ASSUME NEW k \in Loads \cup {Kernel}, k # l, NEW a \in Mine(m, k), NEW q \in PagesHeld(a)
        PROVE  n.ram[q] = m.ram[q]
    <2>1. a \in m.held /\ a.owner.load = k
      BY DEF Mine
    <2>2. q \in Pages
      BY <2>1, HeldPages
    <2>3. ASSUME NEW j \in Indexes PROVE q # PageOf(t[j])
      <3>1. PICK b : b = Piece(l, "table", t[j], 1)
        OBVIOUS
      <3>2. b \in m.held /\ b.owner.load = l
        BY <3>1 DEF SpaceAt, SpacePieces, Piece
      <3>3. PagesHeld(a) \cap PagesHeld(b) = {}
        BY <1>1, <2>1, <3>2, HeldDisjoint
      <3>4. PageOf(t[j]) \in PagesHeld(b)
        <4>1. PageOf(t[j]) \in Int
          BY SpaceFacts, PageFacts
        <4> QED
          BY <3>1, <4>1 DEF Piece, PagesHeld
      <3> QED
        BY <3>3, <3>4
    <2> QED
      BY <2>2, <2>3 DEF Redrawn
  <1> QED
    BY <1>1 DEF Frame, Mine, Redrawn

LEMMA FrameTwice ==
    ASSUME NEW m, NEW n, NEW o, NEW l, Frame(m, n, l), Frame(n, o, l)
    PROVE  Frame(m, o, l)
  BY DEF Frame

\* Freeing one's own pieces disturbs no other load.
LEMMA ReleasedFrame ==
    ASSUME NEW m, NEW n, NEW F, NEW l, n.held = m.held \ F, n.ram = m.ram, \A a \in F : a.owner.load = l
    PROVE  Frame(m, n, l)
  BY DEF Frame, Mine

\* What another load does leaves a space as it is.
LEMMA FrameSpace ==
    ASSUME NEW m, MemOK(m), NEW n, MemOK(n), NEW k \in Loads \cup {Kernel}, NEW l, k # l, Frame(m, n, l),
           NEW c, NEW view, Space(m, k, c, view)
    PROVE  Space(n, k, c, view) /\ Dir(n, c) = Dir(m, c) /\ Tables(n, c) = Tables(m, c)
  <1>1. PICK d, t : d = Dir(m, c) /\ t = Tables(m, c)
    OBVIOUS
  <1>2. SpaceAt(m, k, c, d, t, view)
    BY <1>1 DEF Space
  <1>3. /\ c \in Addresses /\ d \in Addresses /\ \A j \in Indexes : t[j] \in Addresses
    BY <1>2, SpaceFacts
  <1>4. ASSUME NEW kind, NEW p \in Addresses, Piece(k, kind, p, 1) \in m.held
        PROVE  Piece(k, kind, p, 1) \in n.held /\ n.ram[PageOf(p)] = m.ram[PageOf(p)]
    <2>1. PICK a : a = Piece(k, kind, p, 1)
      OBVIOUS
    <2>2. a \in Mine(m, k)
      BY <1>4, <2>1 DEF Mine, Piece
    <2>3. PageOf(p) \in PagesHeld(a)
      <3>1. PageOf(p) \in Int
        BY AddressPage, PageFacts
      <3> QED
        BY <2>1, <3>1 DEF Piece, PagesHeld
    <2> QED
      BY <2>1, <2>2, <2>3 DEF Frame, Mine
  <1>5. /\ Piece(k, "chunk", c, 1) \in m.held /\ Piece(k, "directory", d, 1) \in m.held
        /\ \A j \in Indexes : Piece(k, "table", t[j], 1) \in m.held
    BY <1>2 DEF SpaceAt, SpacePieces
  <1>6. SpacePieces(k, c, d, t) \subseteq n.held
    BY <1>3, <1>4, <1>5 DEF SpacePieces
  <1>7. /\ n.ram[PageOf(c)] = m.ram[PageOf(c)] /\ n.ram[PageOf(d)] = m.ram[PageOf(d)]
        /\ \A j \in Indexes : n.ram[PageOf(t[j])] = m.ram[PageOf(t[j])]
    BY <1>3, <1>4, <1>5
  <1>8. SpaceAt(n, k, c, d, t, view)
    BY <1>2, <1>6, <1>7 DEF SpaceAt
  <1>9. Dir(n, c) = d /\ Tables(n, c) = t
    BY <1>8, SpaceFacts
  <1> QED
    BY <1>1, <1>8, <1>9 DEF Space

LEMMA FrameStatus ==
    ASSUME NEW m, MemOK(m), NEW n, MemOK(n), NEW k \in Loads, NEW l, k # l, Frame(m, n, l),
           NEW p \in Process, NEW crash, Status(m, k, p, FALSE)
    PROVE  Status(n, k, p, crash)
  <1>1. Mine(n, k) = Mine(m, k) /\ k \in Loads \cup {Kernel}
    BY DEF Frame
  <1>2. p.state \in {"none", "running", "failed", "ended"}
    BY DEF Process
  <1>3. CASE p.state = "none"
    BY <1>1, <1>3 DEF Status
  <1>4. CASE p.state = "running"
    <2>1. Alive(m, k, p)
      BY <1>4 DEF Status
    <2>2. /\ Space(n, k, p.chunk, ViewOf(p))
          /\ Dir(n, p.chunk) = Dir(m, p.chunk) /\ Tables(n, p.chunk) = Tables(m, p.chunk)
      BY <1>1, <2>1, FrameSpace DEF Alive
    <2>3. LoadPieces(k, p) \subseteq n.held
      <3>1. \A a \in LoadPieces(k, p) : a.owner.load = k
        BY DEF LoadPieces, DataPieces, Piece
      <3> QED
        BY <1>1, <2>1, <3>1 DEF Alive, Mine
    <2>4. Alive(n, k, p)
      BY <1>1, <2>1, <2>2, <2>3 DEF Alive
    <2> QED
      BY <1>4, <2>4 DEF Status
  <1>5. CASE p.state = "ended"
    BY <1>1, <1>5 DEF Status
  <1>6. CASE p.state = "failed"
    BY <1>1, <1>6 DEF Status
  <1> QED
    BY <1>2, <1>3, <1>4, <1>5, <1>6

-----------------------------------------------------------------------------
(* The loaders                                                             *)

\* A piece of n blocks that load l has been given, if it was
Granted(l, kind, p, n) == {a \in {Piece(l, kind, p, n)} : a.ptr # NULL}

\* kzalloc of at least one block, whatever it answers
LEMMA KzallocGranted ==
    ASSUME NEW m, MemOK(m), NEW size, NEW n \in 1..Slack, n = BlocksFor(size),
           NEW l \in Loads \cup {Kernel}, NEW kind \in Kinds0,
           NEW r, r = kzalloc(m, size, [load |-> l, kind |-> kind])
    PROVE  /\ r.ptr \in Places /\ r = [mem |-> r.mem, ptr |-> r.ptr]
           /\ Grown(m, r.mem, Granted(l, kind, r.ptr, n))
           /\ r.ptr # NULL => Granted(l, kind, r.ptr, n) = {Piece(l, kind, r.ptr, n)}
           /\ r.ptr = NULL => Granted(l, kind, r.ptr, n) = {}
  <1>1. r.ptr \in Places /\ r = [mem |-> r.mem, ptr |-> r.ptr]
    BY KzallocType DEF MemOK, Places
  <1>2. /\ r.ptr # NULL => Granted(l, kind, r.ptr, n) = {Piece(l, kind, r.ptr, n)}
        /\ r.ptr = NULL => Granted(l, kind, r.ptr, n) = {}
    BY DEF Granted, Piece
  <1>3. CASE r.ptr = NULL
    <2>1. r.mem = m
      BY <1>3, KzallocRefused
    <2> QED
      BY <1>1, <1>2, <1>3, <2>1, GrownSelf
  <1>4. CASE r.ptr # NULL
    <2>1. Grown(m, r.mem, {Piece(l, kind, r.ptr, n)})
      BY <1>4, KzallocGrows
    <2> QED
      BY <1>1, <1>2, <1>4, <2>1
  <1> QED
    BY <1>3, <1>4

\* kzalloc of nothing marks nothing.
LEMMA KzallocNothing ==
    ASSUME NEW m, MemOK(m), NEW size, BlocksFor(size) = 0,
           NEW l, NEW kind, NEW r, r = kzalloc(m, size, [load |-> l, kind |-> kind])
    PROVE  /\ r.ptr \in Places /\ r = [mem |-> r.mem, ptr |-> r.ptr]
           /\ Grown(m, r.mem, {}) /\ r.mem = m
  <1>1. PICK s : s = heap_get_start_block(m.entries, 0)
    OBVIOUS
  <1>2. s \in Blocks \cup {ENOMEM}
    BY <1>1, StartType
  <1>3. PICK p : p = heap_block_to_address(s)
    OBVIOUS
  <1>4. PICK u : u = [entries |-> heap_mark_blocks_taken(m.entries, s, 0),
                      ram |-> [q \in Pages |-> IF q - PageOf(p) \in 0..(0 - 1) THEN ZeroPage ELSE m.ram[q]],
                      held |-> m.held \cup {[ptr |-> p, blocks |-> k, owner |-> [load |-> l, kind |-> kind]] :
                                                k \in {0} \ {0}}]
    OBVIOUS
  <1>5. r = IF s < 0 THEN [mem |-> m, ptr |-> NULL] ELSE [mem |-> u, ptr |-> p]
    BY <1>1, <1>3, <1>4, Zenon DEF kzalloc
  <1>6. CASE s < 0
    <2>1. r = [mem |-> m, ptr |-> NULL]
      BY <1>5, <1>6
    <2> QED
      BY <2>1, GrownSelf DEF Places
  <1>7. CASE ~(s < 0)
    <2>1. s \in Blocks /\ s \in Int
      BY <1>2, <1>7, CellsFacts DEF ENOMEM
    <2>2. p \in Addresses
      BY <1>3, <2>1, AddressOfBlock
    <2>3. m \in Memory /\ m.entries \in [Cells -> SUBSET Flags] /\ m.ram \in [Pages -> [Indexes -> Entry]]
      BY MemoryFields DEF MemOK
    <2>4. u.entries = m.entries
      <3>1. s..(s + 0 - 1) = {}
        BY <2>1
      <3>2. heap_mark_blocks_taken(m.entries, s, 0) = m.entries
        BY <2>3, <3>1 DEF heap_mark_blocks_taken
      <3> QED
        BY <1>4, <3>2
    <2>5. u.ram = m.ram
      <3>1. \A q : q \notin 0..(0 - 1)
        OBVIOUS
      <3>2. [q \in Pages |-> IF q - PageOf(p) \in 0..(0 - 1) THEN ZeroPage ELSE m.ram[q]] = m.ram
        BY <2>3, <3>1
      <3> QED
        BY <1>4, <3>2
    <2>6. u.held = m.held
      BY <1>4
    <2>7. u = [entries |-> m.entries, ram |-> m.ram, held |-> m.held]
      BY <1>4, <2>4, <2>5, <2>6
    <2>8. u = m
      BY <2>3, <2>7, MemoryFields
    <2>9. r = [mem |-> m, ptr |-> p]
      BY <1>5, <1>7, <2>8
    <2> QED
      BY <2>2, <2>9, GrownSelf DEF Places
  <1> QED
    BY <1>6, <1>7

\* One round of elf_process_pheaders
Bounded(b, memory, ph) == IF ph.type = PT_LOAD THEN elf_process_phdr_pt_load(b, memory, ph) ELSE b

LEMMA BoundsLoop ==
    ASSUME NEW file \in FileSet, NEW memory \in Places
    PROVE  \E g \in [0..Len(file.phdrs) -> Bounds] :
                /\ g[0] = NoBounds
                /\ \A i \in 1..Len(file.phdrs) : g[i] = Bounded(g[i - 1], memory, file.phdrs[i])
                /\ elf_process_pheaders(file, memory) = g[Len(file.phdrs)]
  <1> DEFINE n == Len(file.phdrs)
             E(x, i) == Bounded(x, memory, file.phdrs[i])
             step == [i \in 1..n |-> [x \in Bounds |-> E(x, i)]]
             Loop(f) == f = [i \in 0..n |-> IF i = 0 THEN NoBounds ELSE E(f[i - 1], i)]
             after == CHOOSE f : Loop(f)
  <1>0. n \in Nat /\ NoBounds \in Bounds
    BY FileFacts DEF NoBounds, Bounds
  <1>1. step \in [1..n -> [Bounds -> Bounds]]
    <2>1. ASSUME NEW i \in 1..n, NEW x \in Bounds PROVE E(x, i) \in Bounds
      <3>1. PICK ph : ph = file.phdrs[i]
        OBVIOUS
      <3>2. ph.offset \in Nat /\ ph.vaddr \in Nat /\ ph.filesz \in Nat /\ memory \in Nat
        BY <3>1, FileFacts, PlaceFacts
      <3>3. /\ (ph.vaddr + ph.filesz) % Word \in Bytes
            /\ (memory + ph.offset) % Word \in Bytes
            /\ (memory + ph.offset + ph.filesz) % Word \in Bytes
        BY <3>2, ModByte
      <3>4. \A y \in Bytes : y \in Nat
        BY PageFacts DEF Bytes
      <3>5. Bounded(x, memory, ph) \in Bounds
        BY <3>2, <3>3, <3>4 DEF Bounded, elf_process_phdr_pt_load, Bounds
      <3> QED
        BY <3>1, <3>5
    <2> HIDE DEF E
    <2> QED
      BY <2>1
  <1> HIDE DEF E
  <1>2. PICK f \in [0..n -> Bounds] : IsLoop(f, n, NoBounds, step)
    <2> HIDE DEF step, n
    <2> QED
      BY <1>0, <1>1, LoopDefined, Zenon
  <1>3. Loop(f)
    <2>1. ASSUME NEW i \in 0..n
          PROVE  f[i] = IF i = 0 THEN NoBounds ELSE E(f[i - 1], i)
      <3>1. f[i] = IF i = 0 THEN NoBounds ELSE step[i][f[i - 1]]
        BY <1>2 DEF IsLoop
      <3>2. i # 0 => i \in 1..n /\ f[i - 1] \in Bounds
        BY <1>0, <1>2
      <3> QED
        BY <3>1, <3>2
    <2> QED
      BY <1>2, <2>1
  <1>4. Loop(after)
    <2> HIDE DEF Loop
    <2> QED
      BY <1>3, Zenon
  <1>5. elf_process_pheaders(file, memory) = after[n]
    BY Zenon DEF elf_process_pheaders, E, Bounded
  <1> HIDE DEF after
  <1>6. after[0] = NoBounds /\ \A i \in 1..n : after[i] = E(after[i - 1], i)
    <2>1. n \in Nat
      BY <1>0
    <2> HIDE DEF n, E
    <2> QED
      BY <1>4, <2>1
  <1>7. after \in [0..n -> Bounds]
    <2> DEFINE S == {i \in 0..n : after[i] \in Bounds}
    <2>1. 0 \in S
      BY <1>0, <1>6
    <2>2. ASSUME NEW k \in 0..(n - 1), k \in S PROVE k + 1 \in S
      <3>1. k + 1 \in 1..n /\ (k + 1) - 1 = k
        BY <1>0
      <3>2. step[k + 1] \in [Bounds -> Bounds] /\ step[k + 1][after[k]] = E(after[k], k + 1)
        BY <1>1, <2>2, <3>1
      <3>3. after[k + 1] = E(after[k], k + 1)
        BY <1>6, <3>1
      <3>4. after[k + 1] \in Bounds
        BY <2>2, <3>2, <3>3
      <3> QED
        BY <3>1, <3>4
    <2> HIDE DEF S
    <2>3. 0..n \subseteq S
      <3> HIDE DEF n
      <3> QED
        BY <1>0, <2>1, <2>2, SetInduction, Zenon
    <2>4. after = [i \in 0..n |-> after[i]]
      BY <1>4
    <2> QED
      BY <2>3, <2>4 DEF S
  <1> QED
    BY <1>5, <1>6, <1>7 DEF E

LEMMA BoundsType ==
    ASSUME NEW f \in FileSet, NEW memory \in Places
    PROVE  elf_process_pheaders(f, memory) \in Bounds
  <1>1. PICK g \in [0..Len(f.phdrs) -> Bounds] : elf_process_pheaders(f, memory) = g[Len(f.phdrs)]
    BY BoundsLoop
  <1>2. Len(f.phdrs) \in 0..Len(f.phdrs)
    BY FileFacts
  <1> QED
    BY <1>1, <1>2

LEMMA FileBlocks ==
    ASSUME NonzeroFiles, NEW f \in FileSet
    PROVE  /\ f.size > 0 => BlocksFor(f.size) \in 1..Slack
           /\ f.size = 0 => BlocksFor(f.size) = 0
           /\ fread(f) < 0 <=> f.size = 0
           /\ f.size = 0 \/ f.size > 0
  <1>1. f.size \in Nat /\ f.whole \in BOOLEAN /\ BlocksFor(f.size) \in 0..Slack /\ Slack \in Nat
    BY FileFacts, PageFacts
  <1>2. f.size = 0 => BlocksFor(f.size) = 0
    <2>1. BlockSize \in Nat \ {0}
      BY PageFacts
    <2>2. 0 % BlockSize = 0 /\ 0 \div BlockSize = 0
      BY <2>1, Z3
    <2> QED
      BY <2>2 DEF BlocksFor, heap_align_value_to_upper
  <1>3. fread(f) < 0 <=> f.size = 0
    BY <1>1 DEF fread
  <1> QED
    BY <1>1, <1>2, <1>3 DEF NonzeroFiles

\* A block for the file layer, whatever kzalloc answers
Taken(m, r, l, kind, G) ==
    /\ r.ptr \in Places /\ r = [mem |-> r.mem, ptr |-> r.ptr]
    /\ Grown(m, r.mem, G) /\ MemOK(r.mem)
    /\ r.ptr # NULL => G = {Piece(l, kind, r.ptr, 1)}
    /\ r.ptr = NULL => G = {}
    /\ Uses(m, r.mem, 1)
    /\ r.ptr = NULL <=> Full(m.entries)

LEMMA TakeFacts ==
    ASSUME NEW m, MemOK(m), NEW l \in Loads, NEW kind \in Kinds0, NEW r, r = Take(m, l, kind)
    PROVE  Taken(m, r, l, kind, Granted(l, kind, r.ptr, 1))
  <1>1. r = kzalloc(m, PageSize, [load |-> l, kind |-> kind])
    BY DEF Take
  <1>2. 1 \in 1..Slack /\ 1 = BlocksFor(PageSize) /\ 1 =< Slack /\ l \in Loads \cup {Kernel}
    BY OneBlock, PageFacts
  <1>3. /\ r.ptr \in Places /\ r = [mem |-> r.mem, ptr |-> r.ptr]
        /\ Grown(m, r.mem, Granted(l, kind, r.ptr, 1))
        /\ r.ptr # NULL => Granted(l, kind, r.ptr, 1) = {Piece(l, kind, r.ptr, 1)}
        /\ r.ptr = NULL => Granted(l, kind, r.ptr, 1) = {}
    BY <1>1, <1>2, KzallocGranted
  <1>4. Uses(m, r.mem, 1)
    BY <1>1, <1>2, UsesKzalloc
  <1>5. r.ptr = NULL <=> Full(m.entries)
    BY <1>1, <1>2, RefusedIsFull
  <1>6. MemOK(r.mem)
    BY <1>3 DEF Grown
  <1> QED
    BY <1>3, <1>4, <1>5, <1>6 DEF Taken

\* The pieces P are of paths that load l has parsed.
Paths(l, P) == \A a \in P : a.owner.load = l /\ a.owner.kind = "path"

LEMMA PathGranted ==
    ASSUME NEW l, NEW p, NEW n
    PROVE  Paths(l, Granted(l, "path", p, n))
  BY DEF Paths, Granted, Piece

\* What the parser has made of memory m when it has asked for at most j blocks
Pathed(m, x, l, j) ==
    /\ x.ptr \in Places
    /\ Uses(m, x.mem, j)
    /\ Full(m.entries) => x.ptr = NULL
    /\ \E P : Grown(m, x.mem, P) /\ Paths(l, P) /\ (Full(m.entries) \/ P # {})

\* One part of a path: two blocks, or one, or none
LEMMA PathPart ==
    ASSUME NEW m, MemOK(m), NEW l \in Loads, NEW r, r = pathparser_parse_path_part(m, l)
    PROVE  Pathed(m, r, l, 2)
  <1>1. PICK string : string = Take(m, l, "path")
    OBVIOUS
  <1>2. PICK part : part = Take(string.mem, l, "path")
    OBVIOUS
  <1>3. r = IF string.ptr = NULL THEN string ELSE part
    BY <1>1, <1>2, Zenon DEF pathparser_parse_path_part
  <1>4. "path" \in Kinds0
    BY DEF Kinds0
  <1>5. PICK P : P = Granted(l, "path", string.ptr, 1)
    OBVIOUS
  <1>6. /\ string.ptr \in Places /\ Grown(m, string.mem, P) /\ MemOK(string.mem)
        /\ Uses(m, string.mem, 1) /\ (string.ptr = NULL <=> Full(m.entries)) /\ Paths(l, P)
        /\ string.ptr # NULL => P # {}
    <2>1. Taken(m, string, l, "path", P)
      BY <1>1, <1>4, <1>5, TakeFacts
    <2>2. Paths(l, P)
      BY <1>5, PathGranted
    <2> QED
      BY <2>1, <2>2 DEF Taken
  <1>7. CASE string.ptr = NULL
    <2>1. Uses(m, string.mem, 2)
      BY <1>6, UsesMore
    <2> QED
      BY <1>3, <1>6, <1>7, <2>1 DEF Pathed
  <1>8. CASE string.ptr # NULL
    <2>1. PICK Q : Q = Granted(l, "path", part.ptr, 1)
      OBVIOUS
    <2>2. /\ part.ptr \in Places /\ Grown(string.mem, part.mem, Q) /\ Uses(string.mem, part.mem, 1)
          /\ Paths(l, Q)
      <3>1. Taken(string.mem, part, l, "path", Q)
        BY <1>2, <1>4, <1>6, <2>1, TakeFacts
      <3>2. Paths(l, Q)
        BY <2>1, PathGranted
      <3> QED
        BY <3>1, <3>2 DEF Taken
    <2>3. Grown(m, part.mem, P \cup Q)
      BY <1>6, <2>2, GrownTwice
    <2>4. Uses(m, part.mem, 1 + 1)
      BY <1>6, <2>2, UsesTwice
    <2>5. Paths(l, P \cup Q) /\ P \cup Q # {} /\ 1 + 1 = 2
      BY <1>6, <1>8, <2>2 DEF Paths
    <2>6. r = part /\ Uses(m, part.mem, 2)
      BY <1>3, <1>8, <2>4, <2>5
    <2> QED
      BY <1>6, <1>8, <2>2, <2>3, <2>5, <2>6 DEF Pathed
  <1> QED
    BY <1>7, <1>8

\* The string for the end of the path comes and goes.
LEMMA PathEnd ==
    ASSUME NEW m, MemOK(m), NEW l \in Loads, NEW n, n = EndOfPath(m, l)
    PROVE  Grown(m, n, {}) /\ Uses(m, n, 1)
  <1>1. PICK string : string = Take(m, l, "path")
    OBVIOUS
  <1>2. n = kfree(string.mem, string.ptr)
    BY <1>1, Zenon DEF EndOfPath
  <1>3. "path" \in Kinds0
    BY DEF Kinds0
  <1>4. PICK P : P = Granted(l, "path", string.ptr, 1)
    OBVIOUS
  <1>5. /\ Grown(m, string.mem, P) /\ MemOK(string.mem) /\ Uses(m, string.mem, 1)
        /\ string.ptr # NULL => P = {Piece(l, "path", string.ptr, 1)}
        /\ string.ptr = NULL => P = {}
    <2>1. Taken(m, string, l, "path", P)
      BY <1>1, <1>3, <1>4, TakeFacts
    <2> QED
      BY <2>1 DEF Taken
  <1>6. Uses(m, n, 1)
    <2>1. Uses(string.mem, n, 0)
      BY <1>2, <1>5, UsesKfree DEF MemOK
    <2>2. Uses(m, n, 1 + 0) /\ 1 + 0 = 1
      BY <1>5, <2>1, UsesTwice
    <2> QED
      BY <2>2
  <1>7. CASE string.ptr = NULL
    <2>1. MemOK(n) /\ n.held = string.mem.held /\ n.ram = string.mem.ram
      BY <1>2, <1>5, <1>7, KfreeNull
    <2> QED
      BY <1>5, <1>6, <1>7, <2>1 DEF Grown
  <1>8. CASE string.ptr # NULL
    <2>1. PICK a : a = Piece(l, "path", string.ptr, 1)
      OBVIOUS
    <2>2. a \in P /\ a.ptr = string.ptr /\ P \ {a} = {}
      BY <1>5, <1>8, <2>1 DEF Piece
    <2>3. Grown(m, kfree(string.mem, a.ptr), P \ {a})
      BY <1>5, <2>2, GrownFreed
    <2> QED
      BY <1>2, <1>6, <2>2, <2>3
  <1> QED
    BY <1>7, <1>8

\* A round of pathparser_parse
PathRound(x, l) == IF x.ptr = NULL THEN x ELSE pathparser_parse_path_part(x.mem, l)

\* pathparser_parse once it has its root
ParsedFrom(root, n, l) ==
    LET after[i \in 0..n] == IF i = 0 THEN root ELSE PathRound(after[i - 1], l)
    IN  [mem |-> IF after[n].ptr = NULL THEN after[n].mem ELSE EndOfPath(after[n].mem, l),
         first |-> n > 0 /\ after[1].ptr # NULL]

\* Any answer of kzalloc, for any content of the memory
Answers == [mem : Memory, ptr : Places]

LEMMA PathRoundType ==
    ASSUME NEW x \in Answers, NEW l \in Loads
    PROVE  PathRound(x, l) \in Answers
  <1>1. \A m \in Memory : Take(m, l, "path") \in Answers
    <2> SUFFICES ASSUME NEW m \in Memory PROVE Take(m, l, "path") \in Answers
      OBVIOUS
    <2>1. PICK r : r = kzalloc(m, PageSize, [load |-> l, kind |-> "path"])
      OBVIOUS
    <2>2. "path" \in Kinds0 /\ BlocksFor(PageSize) \in 1..Slack /\ l \in Loads \cup {Kernel}
      BY OneBlock DEF Kinds0
    <2>3. r.mem \in Memory /\ r.ptr \in Addresses \cup {NULL} /\ r = [mem |-> r.mem, ptr |-> r.ptr]
      BY <2>1, <2>2, KzallocType
    <2> QED
      BY <2>1, <2>3 DEF Take, Answers, Places
  <1>2. PICK string : string = Take(x.mem, l, "path")
    OBVIOUS
  <1>3. x.mem \in Memory
    BY DEF Answers
  <1>4. string \in Answers /\ string.mem \in Memory
    BY <1>1, <1>2, <1>3 DEF Answers
  <1>5. Take(string.mem, l, "path") \in Answers
    BY <1>1, <1>4
  <1>6. pathparser_parse_path_part(x.mem, l) = IF string.ptr = NULL THEN string ELSE Take(string.mem, l, "path")
    BY <1>2, Zenon DEF pathparser_parse_path_part
  <1> QED
    BY <1>4, <1>5, <1>6 DEF PathRound

LEMMA PathRounds ==
    ASSUME NEW m, MemOK(m), NEW l \in Loads, NEW x, NEW j \in Nat, Pathed(m, x, l, j)
    PROVE  Pathed(m, PathRound(x, l), l, j + 2)
  <1>1. PICK P : Grown(m, x.mem, P) /\ Paths(l, P) /\ (Full(m.entries) \/ P # {})
    BY DEF Pathed
  <1>2. CASE x.ptr = NULL
    <2>1. j =< j + 2 /\ j + 2 \in Nat
      OBVIOUS
    <2>2. Uses(m, x.mem, j + 2)
      BY <2>1, UsesMore DEF Pathed
    <2> QED
      BY <1>2, <2>2 DEF Pathed, PathRound
  <1>3. CASE x.ptr # NULL
    <2>1. PICK r : r = pathparser_parse_path_part(x.mem, l)
      OBVIOUS
    <2>2. MemOK(x.mem)
      BY <1>1 DEF Grown
    <2>3. Pathed(x.mem, r, l, 2)
      BY <2>1, <2>2, PathPart
    <2>4. PICK Q : Grown(x.mem, r.mem, Q) /\ Paths(l, Q)
      BY <2>3 DEF Pathed
    <2>5. Grown(m, r.mem, P \cup Q) /\ Paths(l, P \cup Q)
      BY <1>1, <2>4, GrownTwice DEF Paths
    <2>6. Uses(m, r.mem, j + 2) /\ r.ptr \in Places
      BY <2>3, UsesTwice DEF Pathed
    <2>7. ~Full(m.entries)
      BY <1>3 DEF Pathed
    <2>8. PathRound(x, l) = r /\ P \cup Q # {}
      BY <1>1, <1>3, <2>1, <2>7 DEF PathRound
    <2> QED
      BY <2>5, <2>6, <2>7, <2>8 DEF Pathed
  <1> QED
    BY <1>2, <1>3

\* The blocks that pathparser_parse and fopen ask for at most: the root, two
\* for each part and one at the end; the handle and the descriptor
PathNeeds(n) == 2 * n + 2
FopenNeeds(f) == PathNeeds(f.parts) + 2

\* pathparser_parse leaves nothing but pieces of the path, and at least one
\* when it finds a first part.
LEMMA PathParse ==
    ASSUME NEW m, MemOK(m), NEW n \in Nat, NEW l \in Loads, NEW r, r = pathparser_parse(m, n, l)
    PROVE  /\ r.first \in BOOLEAN
           /\ Full(m.entries) => ~r.first
           /\ Uses(m, r.mem, PathNeeds(n))
           /\ \E P : Grown(m, r.mem, P) /\ Paths(l, P) /\ (r.first => P # {})
  <1>1. PICK root : root = Take(m, l, "path")
    OBVIOUS
  <1>2. /\ root.ptr \in Places /\ root = [mem |-> root.mem, ptr |-> root.ptr] /\ MemOK(root.mem)
        /\ Grown(m, root.mem, Granted(l, "path", root.ptr, 1))
        /\ root.ptr # NULL => Granted(l, "path", root.ptr, 1) # {}
        /\ Uses(m, root.mem, 1)
        /\ root.ptr = NULL <=> Full(m.entries)
    <2>1. "path" \in Kinds0
      BY DEF Kinds0
    <2>2. Taken(m, root, l, "path", Granted(l, "path", root.ptr, 1))
      BY <1>1, <2>1, TakeFacts
    <2> QED
      BY <2>2 DEF Taken
  <1>3. root \in Answers /\ Pathed(m, root, l, 1)
    <2>1. root \in Answers
      BY <1>2 DEF Answers, MemOK
    <2>2. Paths(l, Granted(l, "path", root.ptr, 1))
      BY PathGranted
    <2> QED
      BY <1>2, <2>1, <2>2 DEF Pathed
  <1> DEFINE E(x) == PathRound(x, l)
             T == Answers
             step == [i \in 1..n |-> [x \in T |-> E(x)]]
             Loop(f) == f = [i \in 0..n |-> IF i = 0 THEN root ELSE E(f[i - 1])]
             after == CHOOSE f : Loop(f)
  <1>4. step \in [1..n -> [T -> T]]
    <2>1. ASSUME NEW x \in T PROVE E(x) \in T
      BY PathRoundType
    <2> HIDE DEF T, E
    <2> QED
      BY <2>1
  <1>5. root \in T
    BY <1>3
  <1> HIDE DEF T, E
  <1>6. PICK f \in [0..n -> T] : IsLoop(f, n, root, step)
    <2> HIDE DEF step
    <2> QED
      BY <1>4, <1>5, LoopDefined, Zenon
  <1>7. Loop(f)
    <2>1. ASSUME NEW i \in 0..n
          PROVE  f[i] = IF i = 0 THEN root ELSE E(f[i - 1])
      <3>1. f[i] = IF i = 0 THEN root ELSE step[i][f[i - 1]]
        BY <1>6 DEF IsLoop
      <3>2. i # 0 => i \in 1..n /\ f[i - 1] \in T
        BY <1>6
      <3> QED
        BY <3>1, <3>2
    <2> QED
      BY <1>6, <2>1
  <1>8. Loop(after)
    <2> HIDE DEF Loop
    <2> QED
      BY <1>7, Zenon
  <1>9. r = [mem |-> IF after[n].ptr = NULL THEN after[n].mem ELSE EndOfPath(after[n].mem, l),
             first |-> n > 0 /\ after[1].ptr # NULL]
    <2>1. r = ParsedFrom(root, n, l)
      <3>1. r = ParsedFrom(Take(m, l, "path"), n, l)
        BY Zenon DEF pathparser_parse, ParsedFrom, PathRound
      <3> QED
        BY <1>1, <3>1, Zenon
    <2> QED
      BY <2>1, Zenon DEF ParsedFrom, E
  <1> HIDE DEF after
  <1>10. after[0] = root /\ \A i \in 1..n : after[i] = E(after[i - 1])
    BY <1>8
  <1>11. \A i \in 0..n : Pathed(m, after[i], l, 1 + 2 * i)
    <2> DEFINE S == {i \in 0..n : Pathed(m, after[i], l, 1 + 2 * i)}
    <2>1. 0 \in S
      <3>1. 1 + 2 * 0 = 1 /\ 0 \in 0..n
        OBVIOUS
      <3> QED
        BY <1>3, <1>10, <3>1
    <2>2. ASSUME NEW k \in 0..(n - 1), k \in S PROVE k + 1 \in S
      <3>1. k + 1 \in 1..n /\ (k + 1) - 1 = k /\ 1 + 2 * k \in Nat
            /\ (1 + 2 * k) + 2 = 1 + 2 * (k + 1)
        OBVIOUS
      <3>2. Pathed(m, PathRound(after[k], l), l, (1 + 2 * k) + 2)
        BY <2>2, <3>1, PathRounds
      <3>3. after[k + 1] = PathRound(after[k], l)
        BY <1>10, <3>1 DEF E
      <3> QED
        BY <3>1, <3>2, <3>3
    <2> HIDE DEF S
    <2>3. 0..n \subseteq S
      BY <2>1, <2>2, SetInduction, Zenon
    <2> QED
      BY <2>3 DEF S
  <1>12. PICK last : last = after[n]
    OBVIOUS
  <1>13. Pathed(m, last, l, 1 + 2 * n)
    <2>1. n \in 0..n
      OBVIOUS
    <2> QED
      BY <1>11, <1>12, <2>1
  <1>14. PICK P : Grown(m, last.mem, P) /\ Paths(l, P) /\ (Full(m.entries) \/ P # {})
    BY <1>13 DEF Pathed
  <1>15. PICK v : v = r.mem
    OBVIOUS
  <1>16. Grown(last.mem, v, {}) /\ Uses(last.mem, v, 1)
    <2>1. MemOK(last.mem)
      BY <1>14 DEF Grown
    <2>2. CASE last.ptr = NULL
      <3>1. v = last.mem
        BY <1>9, <1>12, <1>15, <2>2
      <3>2. Uses(v, v, 1)
        BY UsesNothing, UsesMore
      <3> QED
        BY <2>1, <3>1, <3>2, GrownSelf
    <2>3. CASE last.ptr # NULL
      <3>1. v = EndOfPath(last.mem, l)
        BY <1>9, <1>12, <1>15, <2>3
      <3> QED
        BY <2>1, <3>1, PathEnd
    <2> QED
      BY <2>2, <2>3
  <1>17. Grown(m, v, P)
    <2>1. Grown(m, v, P \cup {}) /\ P \cup {} = P
      BY <1>14, <1>16, GrownTwice
    <2> QED
      BY <2>1
  <1>18. Uses(m, v, PathNeeds(n))
    <2>1. Uses(m, last.mem, 1 + 2 * n) /\ 1 + 2 * n \in Nat /\ (1 + 2 * n) + 1 = PathNeeds(n)
      BY <1>13 DEF Pathed, PathNeeds
    <2>2. Uses(m, v, (1 + 2 * n) + 1)
      BY <1>16, <2>1, UsesTwice
    <2> QED
      BY <2>1, <2>2
  <1>19. r.first \in BOOLEAN /\ (r.first => ~Full(m.entries))
    <2>1. r.first = (n > 0 /\ after[1].ptr # NULL)
      BY <1>9
    <2>2. n > 0 => 1 \in 0..n
      OBVIOUS
    <2>3. n > 0 => (Full(m.entries) => after[1].ptr = NULL)
      BY <1>11, <2>2 DEF Pathed
    <2> QED
      BY <2>1, <2>3
  <1> QED
    BY <1>14, <1>15, <1>17, <1>18, <1>19

\* The pieces of an open file
OpenFile(l, fd) == {Piece(l, "handle", fd.handle, 1), Piece(l, "descriptor", fd.ptr, 1)}

\* What fopen leaves: the path P, and the pieces H of an open file or a
\* handle without a descriptor
Fopened(m, r, l, P, H) ==
    /\ Grown(m, r.mem, P \cup H)
    /\ Paths(l, P)
    /\ r.ptr = NULL => \A a \in H : a.owner.load = l /\ a.owner.kind = "handle"
    /\ r.ptr # NULL => H = OpenFile(l, r) /\ P # {}

LEMMA Fopen ==
    ASSUME NEW m, MemOK(m), NEW l \in Loads, NEW f \in FileSet, NEW r, r = fopen(m, f, l)
    PROVE  /\ r.ptr \in Places
           /\ Full(m.entries) => r.ptr = NULL
           /\ Uses(m, r.mem, FopenNeeds(f))
           /\ \E P, H : Fopened(m, r, l, P, H)
  <1>1. PICK path : path = pathparser_parse(m, f.parts, l)
    OBVIOUS
  <1>2. PICK handle : handle = Take(path.mem, l, "handle")
    OBVIOUS
  <1>3. PICK desc : desc = Take(handle.mem, l, "descriptor")
    OBVIOUS
  <1>4. r = IF path.first /\ f.exists
            THEN IF handle.ptr = NULL THEN [mem |-> handle.mem, handle |-> NULL, ptr |-> NULL]
                 ELSE [mem |-> desc.mem, handle |-> handle.ptr, ptr |-> desc.ptr]
            ELSE [mem |-> path.mem, handle |-> NULL, ptr |-> NULL]
    BY <1>1, <1>2, <1>3, Zenon DEF fopen
  <1>5. f.parts \in Nat /\ f.exists \in BOOLEAN
    BY ElfAssumption DEF File
  <1>6. PICK j \in Nat : j = PathNeeds(f.parts) /\ FopenNeeds(f) = j + 2
    BY <1>5 DEF PathNeeds, FopenNeeds
  <1>7. /\ path.first \in BOOLEAN /\ (Full(m.entries) => ~path.first)
        /\ Uses(m, path.mem, j)
        /\ \E P : Grown(m, path.mem, P) /\ Paths(l, P) /\ (path.first => P # {})
    BY <1>1, <1>5, <1>6, PathParse
  <1>8. PICK P : Grown(m, path.mem, P) /\ Paths(l, P) /\ (path.first => P # {})
    BY <1>7
  <1>9. MemOK(path.mem) /\ NULL \in Places /\ {"handle", "descriptor"} \subseteq Kinds0
    BY <1>8 DEF Grown, Places, Kinds0
  <1>10. j =< FopenNeeds(f) /\ j + 1 =< FopenNeeds(f) /\ j + 1 \in Nat /\ FopenNeeds(f) \in Nat
         /\ (j + 1) + 1 = FopenNeeds(f)
    BY <1>6
  <1>11. CASE ~(path.first /\ f.exists)
    <2>1. r = [mem |-> path.mem, handle |-> NULL, ptr |-> NULL]
      BY <1>4, <1>11
    <2>2. P \cup {} = P
      OBVIOUS
    <2>3. Fopened(m, r, l, P, {})
      BY <1>8, <2>1, <2>2 DEF Fopened
    <2>4. Uses(m, path.mem, FopenNeeds(f))
      BY <1>7, <1>10, UsesMore
    <2> QED
      BY <1>9, <2>1, <2>3, <2>4
  <1>12. CASE path.first /\ f.exists
    <2>1. PICK H : H = Granted(l, "handle", handle.ptr, 1)
      OBVIOUS
    <2>2. /\ Grown(path.mem, handle.mem, H) /\ MemOK(handle.mem) /\ Uses(path.mem, handle.mem, 1)
          /\ handle.ptr # NULL => H = {Piece(l, "handle", handle.ptr, 1)}
          /\ handle.ptr = NULL => H = {}
      <3>1. Taken(path.mem, handle, l, "handle", H)
        BY <1>2, <1>9, <2>1, TakeFacts
      <3> QED
        BY <3>1 DEF Taken
    <2>3. Grown(m, handle.mem, P \cup H)
      BY <1>8, <2>2, GrownTwice
    <2>4. Uses(m, handle.mem, j + 1)
      BY <1>7, <2>2, UsesTwice
    <2>5. CASE handle.ptr = NULL
      <3>1. r = [mem |-> handle.mem, handle |-> NULL, ptr |-> NULL]
        BY <1>4, <1>12, <2>5
      <3>2. Fopened(m, r, l, P, H)
        BY <1>8, <2>2, <2>3, <2>5, <3>1 DEF Fopened
      <3>3. Uses(m, handle.mem, FopenNeeds(f))
        BY <1>10, <2>4, UsesMore
      <3> QED
        BY <1>9, <3>1, <3>2, <3>3
    <2>6. CASE handle.ptr # NULL
      <3>1. r = [mem |-> desc.mem, handle |-> handle.ptr, ptr |-> desc.ptr]
        BY <1>4, <1>12, <2>6
      <3>2. PICK G : G = Granted(l, "descriptor", desc.ptr, 1)
        OBVIOUS
      <3>3. /\ desc.ptr \in Places /\ Grown(handle.mem, desc.mem, G) /\ Uses(handle.mem, desc.mem, 1)
            /\ desc.ptr # NULL => G = {Piece(l, "descriptor", desc.ptr, 1)}
            /\ desc.ptr = NULL => G = {}
        <4>1. Taken(handle.mem, desc, l, "descriptor", G)
          BY <1>3, <1>9, <2>2, <3>2, TakeFacts
        <4> QED
          BY <4>1 DEF Taken
      <3>4. Grown(m, desc.mem, P \cup (H \cup G))
        <4>1. Grown(m, desc.mem, (P \cup H) \cup G) /\ (P \cup H) \cup G = P \cup (H \cup G)
          BY <2>3, <3>3, GrownTwice
        <4> QED
          BY <4>1
      <3>5. Uses(m, desc.mem, FopenNeeds(f))
        BY <1>10, <2>4, <3>3, UsesTwice
      <3>6. H = {Piece(l, "handle", handle.ptr, 1)}
        BY <2>2, <2>6
      <3>7. desc.ptr # NULL => H \cup G = OpenFile(l, r) /\ P # {}
        BY <1>8, <1>12, <3>1, <3>3, <3>6 DEF OpenFile
      <3>8. desc.ptr = NULL => \A a \in H \cup G : a.owner.load = l /\ a.owner.kind = "handle"
        BY <3>3, <3>6 DEF Piece
      <3>9. Fopened(m, r, l, P, H \cup G)
        BY <1>8, <3>1, <3>4, <3>7, <3>8 DEF Fopened
      <3> QED
        BY <1>7, <1>12, <3>1, <3>3, <3>5, <3>9
    <2> QED
      BY <2>5, <2>6
  <1> QED
    BY <1>7, <1>11, <1>12

\* fclose gives the pieces of an open file back, and takes nothing.
LEMMA Fclose ==
    ASSUME NEW m, NEW n, NEW D, Grown(m, n, D), NEW l, NEW fd, fd.ptr # NULL, OpenFile(l, fd) \subseteq D,
           NEW j \in Nat, Uses(m, n, j), NEW o, o = fclose(n, fd)
    PROVE  Grown(m, o, D \ OpenFile(l, fd)) /\ Uses(m, o, j)
  <1>1. PICK h, d : h = Piece(l, "handle", fd.handle, 1) /\ d = Piece(l, "descriptor", fd.ptr, 1)
    OBVIOUS
  <1>2. /\ h.ptr = fd.handle /\ d.ptr = fd.ptr /\ h # d /\ h \in D /\ d \in D \ {h}
        /\ (D \ {h}) \ {d} = D \ OpenFile(l, fd)
    <2>1. h.owner.kind = "handle" /\ d.owner.kind = "descriptor" /\ h.ptr = fd.handle /\ d.ptr = fd.ptr
      BY <1>1 DEF Piece
    <2>2. OpenFile(l, fd) = {h, d}
      BY <1>1 DEF OpenFile
    <2> QED
      BY <2>1, <2>2
  <1>3. PICK u : u = kfree(n, h.ptr)
    OBVIOUS
  <1>4. Grown(m, u, D \ {h})
    BY <1>2, <1>3, GrownFreed
  <1>5. Grown(m, kfree(u, d.ptr), (D \ {h}) \ {d})
    BY <1>2, <1>4, GrownFreed
  <1>6. o = kfree(u, d.ptr)
    BY <1>2, <1>3 DEF fclose
  <1>7. n \in Memory /\ u \in Memory
    BY <1>4 DEF Grown, MemOK
  <1>8. j + 0 = j
    OBVIOUS
  <1>9. Uses(m, u, j)
    <2>1. Uses(m, u, j + 0)
      BY <1>3, <1>7, UsesKfree, UsesTwice
    <2> QED
      BY <1>8, <2>1
  <1>10. Uses(m, o, j)
    <2>1. Uses(m, o, j + 0)
      BY <1>6, <1>7, <1>9, UsesKfree, UsesTwice
    <2> QED
      BY <1>8, <2>1
  <1> QED
    BY <1>2, <1>5, <1>6, <1>10

\* The most blocks that elf_load takes, with the open file it gives back,
\* that process_load_binary does, and process_load_data, which may try both
ElfNeeds(f) == (1 + FopenNeeds(f)) + BlocksFor(f.size)
BinaryNeeds(f) == FopenNeeds(f) + BlocksFor(f.size)
DataNeeds(f) == ElfNeeds(f) + BinaryNeeds(f)

\* The most blocks a load takes: the process, its data, the stack, the task
\* and its pages
LoadNeeds(f) == 1 + DataNeeds(f) + BlocksFor(StackSize) + 1 + (Entries + 2)

LEMMA NeedsType ==
    ASSUME NEW f \in FileSet
    PROVE  /\ BlocksFor(f.size) \in Nat /\ ElfNeeds(f) \in Nat /\ BinaryNeeds(f) \in Nat
           /\ DataNeeds(f) \in Nat /\ BlocksFor(StackSize) \in Nat /\ LoadNeeds(f) \in Nat
           /\ Entries \in Nat /\ FopenNeeds(f) \in Nat
  <1>1. BlocksFor(f.size) \in Nat /\ BlocksFor(StackSize) \in Nat /\ Entries \in Nat
    BY FileFacts, Layout, PageFacts
  <1>2. f.parts \in Nat
    BY ElfAssumption DEF File
  <1>3. FopenNeeds(f) \in Nat
    BY <1>2 DEF FopenNeeds, PathNeeds
  <1> QED
    BY <1>1, <1>3 DEF ElfNeeds, BinaryNeeds, DataNeeds, LoadNeeds

ElfKinds == {"elf_file", "elf_memory"}

\* What a loader may leave of its pieces for ever
LeftKinds == {"path", "handle"} \cup ElfKinds

\* What elf_load leaves: the pieces D of the program when it succeeds, and L
ElfLoaded(m, r, l, f, D, L) ==
    /\ Grown(m, r.mem, D \cup L)
    /\ \A a \in L : a.owner.load = l /\ a.owner.kind \in LeftKinds
    /\ r.res # "OK" => D = {}
    /\ r.res = "OK" =>
            /\ D = Granted(l, "elf_file", r.file, 1)
                     \cup Granted(l, "elf_memory", r.memory, BlocksFor(f.size))
            /\ r.file # NULL
            /\ \A a \in L : a.owner.kind = "path"
    /\ r.res \in {"OK", "EINFORMAT"} =>
            /\ \A a \in L : a.owner.kind # "handle"
            /\ \E a \in L : a.owner.kind = "path"

\* elf_load holds the struct and the memory it was given, also when it fails,
\* and the path it has parsed.
LEMMA ElfLoad ==
    ASSUME NonzeroFiles, NEW m, MemOK(m), NEW l \in Loads, NEW f \in FileSet, NEW r, r = elf_load(m, f, l)
    PROVE  /\ r.res \in Results /\ r.file \in Places /\ r.memory \in Places
           /\ \E D, L : ElfLoaded(m, r, l, f, D, L)
           /\ r.res = "OK" => r.bounds = elf_process_pheaders(f, r.memory)
           /\ r.res \in {"OK", "EINFORMAT"} => f.size > 0
           /\ Uses(m, r.mem, ElfNeeds(f))
  <1>a. 1 \in 1..Slack /\ 1 = BlocksFor(PageSize) /\ {"elf_file", "elf_memory"} \subseteq Kinds0
        /\ l \in Loads \cup {Kernel} /\ 1 =< Slack
    BY OneBlock, PageFacts DEF Kinds0
  <1>1. PICK elf : elf = kzalloc(m, PageSize, [load |-> l, kind |-> "elf_file"])
    OBVIOUS
  <1>2. PICK G1 : G1 = Granted(l, "elf_file", elf.ptr, 1)
    OBVIOUS
  <1>3. elf.ptr \in Places /\ Grown(m, elf.mem, G1) /\ MemOK(elf.mem)
    BY <1>1, <1>2, <1>a, KzallocGranted DEF Grown
  <1>4. PICK fd : fd = fopen(elf.mem, f, l)
    OBVIOUS
  <1>5. fd.ptr \in Places /\ (Full(elf.mem.entries) => fd.ptr = NULL)
    BY <1>3, <1>4, Fopen
  <1>d. PICK P, H : Fopened(elf.mem, fd, l, P, H)
    BY <1>3, <1>4, Fopen
  <1>e. /\ Grown(elf.mem, fd.mem, P \cup H) /\ Paths(l, P)
        /\ fd.ptr = NULL => \A a \in H : a.owner.load = l /\ a.owner.kind = "handle"
        /\ fd.ptr # NULL => H = OpenFile(l, fd) /\ P # {}
    BY <1>d DEF Fopened
  <1>6. PICK memory : memory = kzalloc(fd.mem, f.size, [load |-> l, kind |-> "elf_memory"])
    OBVIOUS
  <1>7. PICK res : res = IF fread(f) < 0 THEN "EINVARG"
                         ELSE IF elf_validate_loaded(f) THEN "OK" ELSE "EINFORMAT"
    OBVIOUS
  <1>8. r = IF fd.ptr = NULL
            THEN [mem |-> fd.mem, res |-> "EIO", file |-> elf.ptr, memory |-> NULL,
                  bounds |-> IF "EIO" = "OK" THEN elf_process_pheaders(f, NULL) ELSE NoBounds]
            ELSE [mem |-> fclose(memory.mem, fd), res |-> res, file |-> elf.ptr, memory |-> memory.ptr,
                  bounds |-> IF res = "OK" THEN elf_process_pheaders(f, memory.ptr) ELSE NoBounds]
    BY <1>1, <1>4, <1>6, <1>7, Zenon DEF elf_load
  <1>b. PICK j \in Nat : j = FopenNeeds(f)
    BY NeedsType
  <1>c. /\ Uses(m, fd.mem, 1 + j) /\ BlocksFor(f.size) \in Nat /\ ElfNeeds(f) = (1 + j) + BlocksFor(f.size)
        /\ 1 + j \in Nat /\ 1 + j =< ElfNeeds(f) /\ ElfNeeds(f) \in Nat
    <2>1. Uses(m, elf.mem, 1) /\ Uses(elf.mem, fd.mem, j)
      BY <1>1, <1>3, <1>4, <1>a, <1>b, UsesKzalloc, Fopen
    <2>2. Uses(m, fd.mem, 1 + j)
      BY <2>1, UsesTwice
    <2>3. BlocksFor(f.size) \in Nat /\ ElfNeeds(f) = (1 + j) + BlocksFor(f.size)
      BY <1>b, NeedsType DEF ElfNeeds
    <2> QED
      BY <2>2, <2>3
  <1>9. \A a \in G1 : a.owner.load = l /\ a.owner.kind = "elf_file"
    BY <1>2 DEF Granted, Piece
  <1>f. Grown(m, fd.mem, G1 \cup (P \cup H))
    BY <1>3, <1>e, GrownTwice
  <1>10. CASE fd.ptr = NULL
    <2>1. r.mem = fd.mem /\ r.res = "EIO" /\ r.file = elf.ptr /\ r.memory = NULL
      BY <1>8, <1>10
    <2>2. PICK L : L = G1 \cup (P \cup H)
      OBVIOUS
    <2>3. \A a \in L : a.owner.load = l /\ a.owner.kind \in LeftKinds
      BY <1>9, <1>10, <1>e, <2>2 DEF Paths, LeftKinds, ElfKinds
    <2>4. Grown(m, r.mem, {} \cup L)
      BY <1>f, <2>1, <2>2
    <2>5. ElfLoaded(m, r, l, f, {}, L)
      BY <2>1, <2>3, <2>4 DEF ElfLoaded
    <2>6. Uses(m, r.mem, ElfNeeds(f))
      BY <1>c, <2>1, UsesMore
    <2> QED
      BY <1>3, <2>1, <2>5, <2>6 DEF Results, Places
  <1>11. CASE fd.ptr # NULL
    <2>1. /\ r.mem = fclose(memory.mem, fd) /\ r.res = res /\ r.file = elf.ptr /\ r.memory = memory.ptr
          /\ r.res = "OK" => r.bounds = elf_process_pheaders(f, memory.ptr)
      BY <1>8, <1>11
    <2>2. H = OpenFile(l, fd) /\ P # {}
      BY <1>11, <1>e
    <2>3. elf.ptr # NULL
      <3>1. ASSUME elf.ptr = NULL PROVE FALSE
        <4>1. Full(m.entries) /\ elf.mem = m
          BY <1>1, <1>a, <3>1, RefusedIsFull, KzallocRefused
        <4> QED
          BY <1>5, <1>11, <4>1
      <3> QED
        BY <3>1
    <2>4. MemOK(fd.mem)
      BY <1>f DEF Grown
    <2>5. PICK G2 : G2 = IF f.size = 0 THEN {} ELSE Granted(l, "elf_memory", memory.ptr, BlocksFor(f.size))
      OBVIOUS
    <2>6. memory.ptr \in Places /\ Grown(fd.mem, memory.mem, G2) /\ Uses(fd.mem, memory.mem, BlocksFor(f.size))
      <3>1. CASE f.size = 0
        <4>1. BlocksFor(f.size) = 0
          BY <3>1, FileBlocks
        <4>2. memory.ptr \in Places /\ Grown(fd.mem, memory.mem, {}) /\ memory.mem = fd.mem
          BY <1>6, <2>4, <4>1, KzallocNothing
        <4> QED
          BY <2>5, <3>1, <4>1, <4>2, UsesNothing
      <3>2. CASE f.size # 0
        <4>1. PICK n \in 1..Slack : n = BlocksFor(f.size)
          BY <3>2, FileBlocks
        <4>2. memory.ptr \in Places /\ Grown(fd.mem, memory.mem, Granted(l, "elf_memory", memory.ptr, n))
          BY <1>6, <1>a, <2>4, <4>1, KzallocGranted
        <4>3. Uses(fd.mem, memory.mem, n)
          BY <1>6, <4>1, UsesKzalloc
        <4> QED
          BY <2>5, <3>2, <4>1, <4>2, <4>3
      <3> QED
        BY <3>1, <3>2
    <2>7. PICK D : D = (G1 \cup (P \cup H)) \cup G2
      OBVIOUS
    <2>8. Grown(m, memory.mem, D)
      BY <1>f, <2>6, <2>7, GrownTwice
    <2>9. Uses(m, memory.mem, ElfNeeds(f))
      BY <1>c, <2>6, UsesTwice
    <2>10. Grown(m, r.mem, D \ H) /\ Uses(m, r.mem, ElfNeeds(f))
      <3>1. OpenFile(l, fd) \subseteq D
        BY <2>2, <2>7
      <3> QED
        BY <1>11, <1>c, <2>1, <2>2, <2>8, <2>9, <3>1, Fclose
    <2>11. \A a \in G2 : a.owner.load = l /\ a.owner.kind = "elf_memory"
      BY <2>5 DEF Granted, Piece
    <2>12. \A a \in H : a.owner.kind \in {"handle", "descriptor"}
      BY <2>2 DEF OpenFile, Piece
    <2>13. D \ H = (G1 \cup G2) \cup P
      BY <1>9, <1>e, <2>7, <2>11, <2>12 DEF Paths
    <2>14. r.res \in Results /\ (r.res \in {"OK", "EINFORMAT"} => f.size # 0)
      BY <1>7, <2>1, FileBlocks DEF Results
    <2>15. f.size # 0 => f.size > 0
      BY FileBlocks
    <2>16. CASE r.res = "OK"
      <3>1. G1 \cup G2 = Granted(l, "elf_file", r.file, 1)
                            \cup Granted(l, "elf_memory", r.memory, BlocksFor(f.size))
        BY <1>2, <2>1, <2>5, <2>14, <2>16
      <3>2. \A a \in P : a.owner.load = l /\ a.owner.kind = "path"
        BY <1>e DEF Paths
      <3>3. Grown(m, r.mem, (G1 \cup G2) \cup P) /\ r.file # NULL
        BY <2>1, <2>3, <2>10, <2>13
      <3>4. ElfLoaded(m, r, l, f, G1 \cup G2, P)
        BY <2>2, <2>16, <3>1, <3>2, <3>3 DEF ElfLoaded, LeftKinds
      <3> QED
        BY <1>3, <2>1, <2>6, <2>10, <2>14, <2>15, <3>4
    <2>17. CASE r.res # "OK"
      <3>1. PICK L : L = (G1 \cup G2) \cup P
        OBVIOUS
      <3>2. \A a \in L : a.owner.load = l /\ a.owner.kind \in LeftKinds /\ a.owner.kind # "handle"
        BY <1>9, <1>e, <2>11, <3>1 DEF Paths, LeftKinds, ElfKinds
      <3>3. \E a \in L : a.owner.kind = "path"
        BY <1>e, <2>2, <3>1 DEF Paths
      <3>4. Grown(m, r.mem, {} \cup L)
        BY <2>10, <2>13, <3>1
      <3>5. ElfLoaded(m, r, l, f, {}, L)
        BY <2>17, <3>2, <3>3, <3>4 DEF ElfLoaded
      <3> QED
        BY <1>3, <2>1, <2>6, <2>10, <2>14, <2>15, <2>17, <3>5
    <2> QED
      BY <2>16, <2>17
  <1> QED
    BY <1>10, <1>11

\* What process_load_binary leaves: the program D when it succeeds, and L
BinaryLoaded(m, r, l, f, D, L) ==
    /\ Grown(m, r.mem, D \cup L)
    /\ \A a \in L : a.owner.load = l /\ a.owner.kind \in {"path", "handle"}
    /\ r.res # "OK" => D = {}
    /\ r.res = "OK" => /\ r.ptr \in Addresses
                       /\ D = {Piece(l, "binary", r.ptr, BlocksFor(f.size))}
                       /\ \A a \in L : a.owner.kind = "path"

\* process_load_binary holds the memory of the file, or nothing, and the path.
LEMMA LoadBinary ==
    ASSUME NonzeroFiles, NEW m, MemOK(m), NEW l \in Loads, NEW f \in FileSet, f.size > 0,
           NEW r, r = process_load_binary(m, f, l)
    PROVE  /\ r.res \in Results /\ r.ptr \in Places
           /\ \E D, L : BinaryLoaded(m, r, l, f, D, L)
           /\ Uses(m, r.mem, BinaryNeeds(f))
  <1>a. "binary" \in Kinds0 /\ l \in Loads \cup {Kernel}
    BY DEF Kinds0
  <1>b. PICK n \in 1..Slack : n = BlocksFor(f.size)
    BY FileBlocks
  <1>1. PICK fd : fd = fopen(m, f, l)
    OBVIOUS
  <1>2. fd.ptr \in Places
    BY <1>1, Fopen
  <1>d. PICK P, H : Fopened(m, fd, l, P, H)
    BY <1>1, Fopen
  <1>e. /\ Grown(m, fd.mem, P \cup H) /\ Paths(l, P)
        /\ fd.ptr = NULL => \A a \in H : a.owner.load = l /\ a.owner.kind = "handle"
        /\ fd.ptr # NULL => H = OpenFile(l, fd)
    BY <1>d DEF Fopened
  <1>f. PICK j \in Nat : j = FopenNeeds(f)
    BY NeedsType
  <1>c. BinaryNeeds(f) \in Nat /\ BinaryNeeds(f) = j + n /\ n \in Nat /\ j =< BinaryNeeds(f) /\ Uses(m, fd.mem, j)
    <2>1. BinaryNeeds(f) \in Nat /\ BinaryNeeds(f) = j + n /\ n \in Nat
      BY <1>b, <1>f, NeedsType DEF BinaryNeeds
    <2>2. Uses(m, fd.mem, j)
      BY <1>1, <1>f, Fopen
    <2> QED
      BY <2>1, <2>2
  <1>3. PICK data : data = kzalloc(fd.mem, f.size, [load |-> l, kind |-> "binary"])
    OBVIOUS
  <1>4. r = IF fd.ptr = NULL THEN [mem |-> fd.mem, res |-> "EIO", ptr |-> NULL]
            ELSE CASE data.ptr = NULL ->
                        [mem |-> fclose(data.mem, fd), res |-> "ENOMEM", ptr |-> NULL]
                   [] data.ptr # NULL /\ fread(f) = 1 ->
                        [mem |-> fclose(data.mem, fd), res |-> "OK", ptr |-> data.ptr]
                   [] OTHER ->
                        [mem |-> fclose(kfree(data.mem, data.ptr), fd), res |-> "EIO", ptr |-> NULL]
    BY <1>1, <1>3, Zenon DEF process_load_binary
  <1>5. CASE fd.ptr = NULL
    <2>1. r = [mem |-> fd.mem, res |-> "EIO", ptr |-> NULL]
      BY <1>4, <1>5
    <2>2. Uses(m, fd.mem, BinaryNeeds(f))
      BY <1>c, UsesMore
    <2>3. \A a \in P \cup H : a.owner.load = l /\ a.owner.kind \in {"path", "handle"}
      BY <1>5, <1>e DEF Paths
    <2>4. Grown(m, r.mem, {} \cup (P \cup H))
      BY <1>e, <2>1
    <2>5. BinaryLoaded(m, r, l, f, {}, P \cup H)
      BY <2>1, <2>3, <2>4 DEF BinaryLoaded
    <2> QED
      BY <2>1, <2>2, <2>5 DEF Results, Places
  <1>6. CASE fd.ptr # NULL
    <2>1. H = OpenFile(l, fd) /\ MemOK(fd.mem)
      BY <1>6, <1>e DEF Grown
    <2>2. \A a \in H : a.owner.kind \in {"handle", "descriptor"}
      BY <2>1 DEF OpenFile, Piece
    <2>3. \A a \in P : a.owner.load = l /\ a.owner.kind = "path"
      BY <1>e DEF Paths
    <2>4. PICK u, p : u = data.mem /\ p = data.ptr
      OBVIOUS
    <2>5. PICK G : G = Granted(l, "binary", p, n)
      OBVIOUS
    <2>6. /\ p \in Places /\ Grown(fd.mem, u, G)
          /\ p # NULL => G = {Piece(l, "binary", p, n)}
          /\ p = NULL => G = {}
      BY <1>3, <1>a, <1>b, <2>1, <2>4, <2>5, KzallocGranted
    <2>7. PICK D : D = (P \cup H) \cup G
      OBVIOUS
    <2>8. Grown(m, u, D)
      BY <1>e, <2>6, <2>7, GrownTwice
    <2>9. \A a \in G : a.owner.kind = "binary" /\ a.ptr = p
      BY <2>5 DEF Granted, Piece
    <2>a. Uses(m, u, BinaryNeeds(f)) /\ u \in Memory
      <3>1. Uses(fd.mem, u, n)
        BY <1>3, <1>b, <2>4, UsesKzalloc
      <3> QED
        BY <1>c, <2>6, <3>1, UsesTwice DEF Grown, MemOK
    <2>b. PICK o : o = fclose(u, fd)
      OBVIOUS
    <2>10. Grown(m, o, G \cup P) /\ Uses(m, o, BinaryNeeds(f))
      <3>1. OpenFile(l, fd) \subseteq D
        BY <2>1, <2>7
      <3>2. Grown(m, o, D \ H) /\ Uses(m, o, BinaryNeeds(f))
        BY <1>6, <1>c, <2>1, <2>8, <2>a, <2>b, <3>1, Fclose
      <3>3. D \ H = G \cup P
        BY <2>2, <2>3, <2>7, <2>9
      <3> QED
        BY <3>2, <3>3
    <2>11. CASE p = NULL
      <3>1. r = [mem |-> o, res |-> "ENOMEM", ptr |-> NULL]
        BY <1>4, <1>6, <2>4, <2>11, <2>b
      <3>2. Grown(m, r.mem, {} \cup P)
        BY <2>6, <2>10, <2>11, <3>1
      <3>3. BinaryLoaded(m, r, l, f, {}, P)
        BY <2>3, <3>1, <3>2 DEF BinaryLoaded
      <3> QED
        BY <2>10, <3>1, <3>3 DEF Results, Places
    <2>12. CASE p # NULL /\ fread(f) = 1
      <3>1. r = [mem |-> o, res |-> "OK", ptr |-> p]
        BY <1>4, <1>6, <2>4, <2>12, <2>b
      <3>2. Grown(m, r.mem, G \cup P) /\ G = {Piece(l, "binary", r.ptr, n)} /\ r.ptr \in Addresses
        BY <2>6, <2>10, <2>12, <3>1 DEF Places
      <3>3. BinaryLoaded(m, r, l, f, G, P)
        BY <1>b, <2>3, <3>1, <3>2 DEF BinaryLoaded
      <3> QED
        BY <2>10, <3>1, <3>2, <3>3 DEF Results, Places
    <2>13. CASE p # NULL /\ fread(f) # 1
      <3>1. PICK v : v = kfree(u, p)
        OBVIOUS
      <3>2. PICK w : w = fclose(v, fd)
        OBVIOUS
      <3>3. r = [mem |-> w, res |-> "EIO", ptr |-> NULL]
        BY <1>4, <1>6, <2>4, <2>13, <3>1, <3>2
      <3>4. PICK a : a = Piece(l, "binary", p, n)
        OBVIOUS
      <3>5. G = {a} /\ a.ptr = p /\ a \in D
        BY <2>6, <2>7, <2>13, <3>4 DEF Piece
      <3>6. Grown(m, v, D \ {a})
        BY <2>8, <3>1, <3>5, GrownFreed
      <3>7. Uses(m, v, BinaryNeeds(f))
        <4>1. Uses(m, v, BinaryNeeds(f) + 0)
          BY <1>c, <2>a, <3>1, UsesKfree, UsesTwice
        <4> QED
          BY <1>c, <4>1
      <3>8. a.owner.kind = "binary"
        BY <3>4 DEF Piece
      <3>9. OpenFile(l, fd) \subseteq D \ {a}
        BY <2>1, <2>2, <2>7, <3>8
      <3>10. Grown(m, w, (D \ {a}) \ H) /\ Uses(m, w, BinaryNeeds(f))
        BY <1>6, <1>c, <2>1, <3>2, <3>6, <3>7, <3>9, Fclose
      <3>11. (D \ {a}) \ H = {} \cup P
        BY <2>2, <2>3, <2>7, <3>5, <3>8
      <3>12. BinaryLoaded(m, r, l, f, {}, P)
        <4>1. Grown(m, r.mem, {} \cup P)
          BY <3>3, <3>10, <3>11
        <4>2. r.res = "EIO"
          BY <3>3
        <4> QED
          BY <2>3, <4>1, <4>2 DEF BinaryLoaded
      <3> QED
        BY <3>3, <3>10, <3>12 DEF Results, Places
    <2> QED
      BY <2>11, <2>12, <2>13
  <1> QED
    BY <1>5, <1>6

\* The pieces a load of the data adds: D are the process's when the load
\* succeeds, L are what nobody will free.
DataLoaded(m, r, l, f, D, L) ==
    /\ Grown(m, r.mem, D \cup L)
    /\ \A a \in L : a.owner.load = l /\ a.owner.kind \in LeftKinds
    /\ r.res # "OK" => D = {}
    /\ r.res = "OK" =>
        /\ \E a \in L : a.owner.kind = "path"
        /\ \A a \in L : a.owner.kind # "handle"
        /\ \/ /\ r.filetype = "ELF" /\ r.elf_file # NULL
              /\ \A a \in L : a.owner.kind = "path"
              /\ D = Granted(l, "elf_file", r.elf_file, 1)
                       \cup Granted(l, "elf_memory", r.memory, BlocksFor(f.size))
              /\ r.bounds = elf_process_pheaders(f, r.memory)
           \/ /\ r.filetype = "BINARY" /\ r.memory \in Addresses
              /\ D = {Piece(l, "binary", r.memory, BlocksFor(f.size))}

\* process_load_data: the pieces of the program, and what a first attempt left
LEMMA LoadData ==
    ASSUME NonzeroFiles, NEW m, MemOK(m), NEW l \in Loads, NEW f \in FileSet,
           NEW r, r = process_load_data(m, f, l)
    PROVE  /\ r.res \in Results
           /\ \E D, L : DataLoaded(m, r, l, f, D, L)
           /\ r.res = "OK" => /\ f.size > 0 /\ r.elf_file \in Places /\ r.memory \in Places
                              /\ r.bounds \in Bounds
           /\ Uses(m, r.mem, DataNeeds(f))
  <1>1. PICK elf : elf = elf_load(m, f, l)
    OBVIOUS
  <1>2. PICK raw : raw = process_load_binary(elf.mem, f, l)
    OBVIOUS
  <1>3. r = IF elf.res = "EINFORMAT"
            THEN [mem |-> raw.mem, res |-> raw.res, filetype |-> "BINARY",
                  elf_file |-> NULL, memory |-> raw.ptr, bounds |-> NoBounds]
            ELSE [mem |-> elf.mem, res |-> elf.res, filetype |-> "ELF",
                  elf_file |-> elf.file, memory |-> elf.memory, bounds |-> elf.bounds]
    BY <1>1, <1>2, Zenon DEF process_load_data
  <1>4. /\ elf.res \in Results /\ elf.file \in Places /\ elf.memory \in Places
        /\ elf.res = "OK" => elf.bounds = elf_process_pheaders(f, elf.memory)
        /\ elf.res \in {"OK", "EINFORMAT"} => f.size > 0
        /\ Uses(m, elf.mem, ElfNeeds(f))
    BY <1>1, ElfLoad
  <1>a. /\ ElfNeeds(f) \in Nat /\ BinaryNeeds(f) \in Nat /\ DataNeeds(f) = ElfNeeds(f) + BinaryNeeds(f)
        /\ ElfNeeds(f) =< DataNeeds(f)
    BY NeedsType DEF DataNeeds
  <1>b. PICK E, K : ElfLoaded(m, elf, l, f, E, K)
    BY <1>1, ElfLoad
  <1>5. /\ Grown(m, elf.mem, E \cup K)
        /\ \A a \in K : a.owner.load = l /\ a.owner.kind \in LeftKinds
        /\ elf.res # "OK" => E = {}
        /\ elf.res = "OK" =>
                /\ E = Granted(l, "elf_file", elf.file, 1)
                         \cup Granted(l, "elf_memory", elf.memory, BlocksFor(f.size))
                /\ elf.file # NULL
                /\ \A a \in K : a.owner.kind = "path"
        /\ elf.res \in {"OK", "EINFORMAT"} =>
                /\ \A a \in K : a.owner.kind # "handle"
                /\ \E a \in K : a.owner.kind = "path"
    BY <1>b DEF ElfLoaded
  <1>6. CASE elf.res = "EINFORMAT"
    <2>1. /\ r.mem = raw.mem /\ r.res = raw.res /\ r.filetype = "BINARY"
          /\ r.elf_file = NULL /\ r.memory = raw.ptr /\ r.bounds = NoBounds
      BY <1>3, <1>6
    <2>2. MemOK(elf.mem) /\ f.size > 0 /\ E = {} /\ Grown(m, elf.mem, K)
      BY <1>4, <1>5, <1>6 DEF Grown
    <2>a. Uses(m, r.mem, DataNeeds(f))
      <3>1. Uses(elf.mem, raw.mem, BinaryNeeds(f))
        BY <1>2, <2>2, LoadBinary
      <3> QED
        BY <1>4, <1>a, <2>1, <3>1, UsesTwice
    <2>3. raw.res \in Results /\ raw.ptr \in Places
      BY <1>2, <2>2, LoadBinary
    <2>4. PICK D, L : BinaryLoaded(elf.mem, raw, l, f, D, L)
      BY <1>2, <2>2, LoadBinary
    <2>5. /\ Grown(elf.mem, raw.mem, D \cup L)
          /\ \A a \in L : a.owner.load = l /\ a.owner.kind \in {"path", "handle"}
          /\ raw.res # "OK" => D = {}
          /\ raw.res = "OK" => /\ raw.ptr \in Addresses
                               /\ D = {Piece(l, "binary", raw.ptr, BlocksFor(f.size))}
                               /\ \A a \in L : a.owner.kind = "path"
      BY <2>4 DEF BinaryLoaded
    <2>6. Grown(m, r.mem, D \cup (K \cup L))
      <3>1. Grown(m, raw.mem, K \cup (D \cup L)) /\ K \cup (D \cup L) = D \cup (K \cup L)
        BY <2>2, <2>5, GrownTwice
      <3> QED
        BY <2>1, <3>1
    <2>7. \A a \in K \cup L : a.owner.load = l /\ a.owner.kind \in LeftKinds
      BY <1>5, <2>5 DEF LeftKinds
    <2>8. NoBounds \in Bounds /\ NULL \in Places
      BY DEF NoBounds, Bounds, Places
    <2>9. r.res = "OK" => /\ \E a \in K \cup L : a.owner.kind = "path"
                          /\ \A a \in K \cup L : a.owner.kind # "handle"
      BY <1>5, <1>6, <2>1, <2>5
    <2>10. r.res \in Results /\ f.size > 0 /\ r.elf_file \in Places /\ r.memory \in Places /\ r.bounds \in Bounds
      BY <2>1, <2>2, <2>3, <2>8
    <2>11. DataLoaded(m, r, l, f, D, K \cup L)
      BY <2>1, <2>5, <2>6, <2>7, <2>9 DEF DataLoaded
    <2> QED
      BY <2>10, <2>11, <2>a
  <1>7. CASE elf.res # "EINFORMAT"
    <2>1. /\ r.mem = elf.mem /\ r.res = elf.res /\ r.filetype = "ELF"
          /\ r.elf_file = elf.file /\ r.memory = elf.memory /\ r.bounds = elf.bounds
      BY <1>3, <1>7
    <2>a. Uses(m, r.mem, DataNeeds(f))
      BY <1>4, <1>a, <2>1, UsesMore
    <2>2. CASE elf.res # "OK"
      <3>1. DataLoaded(m, r, l, f, E, K)
        BY <1>5, <2>1, <2>2 DEF DataLoaded
      <3> QED
        BY <1>4, <2>1, <2>2, <2>a, <3>1
    <2>3. CASE elf.res = "OK"
      <3>1. r.bounds = elf_process_pheaders(f, r.memory) /\ r.bounds \in Bounds
        BY <1>4, <2>1, <2>3, BoundsType
      <3>2. DataLoaded(m, r, l, f, E, K)
        BY <1>5, <2>1, <2>3, <3>1 DEF DataLoaded
      <3> QED
        BY <1>4, <2>1, <2>3, <2>a, <3>1, <3>2
    <2> QED
      BY <2>2, <2>3
  <1> QED
    BY <1>6, <1>7

-----------------------------------------------------------------------------
(* process_load_for_slot                                                   *)

LEMMA NoProcessType == NoProcess \in Process
  <1>1. (CHOOSE f \in FileSet : TRUE) \in FileSet
    BY ElfAssumption
  <1>2. NoBounds \in Bounds /\ NULL \in Places /\ "OK" \in Results
    BY DEF NoBounds, Bounds, Places, Results
  <1> QED
    BY <1>1, <1>2 DEF NoProcess, Process

\* The answer of process_load_for_slot when it fails
FailedLoad(f, now, res, crash) ==
    [mem |-> now, crash |-> crash,
     process |-> [NoProcess EXCEPT !.file = f, !.state = "failed", !.res = res]]

\* What process_load_for_slot guarantees.  A load that could take even one
\* block keeps something, and with room for all it takes the kernel is not
\* lost.
Loaded(m, l, f, r) ==
    /\ MemOK(r.mem) /\ Frame(m, r.mem, l)
    /\ r.process \in Process /\ r.crash \in BOOLEAN
    /\ Status(r.mem, l, r.process, r.crash)
    /\ r.process.state \in {"running", "failed"}
    /\ Mine(r.mem, l) = {} => Full(m.entries)
    /\ r.process.state = "running" => Uses(m, r.mem, LoadNeeds(f))
    /\ r.crash => ~HasRoom(m, LoadNeeds(f))

LEMMA FailedLoaded ==
    ASSUME NEW m, NEW l \in Loads, Mine(m, l) = {}, NEW f \in FileSet, NEW now, NEW D, Grown(m, now, D),
           NEW res \in Results, NEW crash \in BOOLEAN, \A a \in D : a.owner.load = l,
           crash \/ \A a \in D : a.owner.kind \in FailedKinds,
           D = {} => Full(m.entries), crash => ~HasRoom(m, LoadNeeds(f)),
           NEW r, r = FailedLoad(f, now, res, crash)
    PROVE  Loaded(m, l, f, r)
  <1>1. PICK p : p = [NoProcess EXCEPT !.file = f, !.state = "failed", !.res = res]
    OBVIOUS
  <1>2. p \in Process /\ p.state = "failed"
    BY <1>1, NoProcessType DEF Process
  <1>3. r.mem = now /\ r.crash = crash /\ r.process = p
    BY <1>1 DEF FailedLoad
  <1>4. MemOK(now) /\ Frame(m, now, l)
    BY GrownFrame DEF Grown
  <1>5. Mine(now, l) \subseteq D /\ D \subseteq Mine(now, l)
    BY DEF Grown, Mine
  <1>6. Status(now, l, p, crash)
    BY <1>2, <1>5 DEF Status, FailedKinds
  <1> QED
    BY <1>2, <1>3, <1>4, <1>5, <1>6 DEF Loaded

\* A process whose pieces are D and whose other pieces are L is alive.
LEMMA NewAlive ==
    ASSUME NEW m, NEW l \in Loads, Mine(m, l) = {}, NEW n, NEW p, NEW d, NEW t, NEW L,
           Grown(m, n, (L \cup LoadPieces(l, p)) \cup SpacePieces(l, p.chunk, d, t)),
           \A a \in L : a.owner.load = l /\ a.owner.kind \in Rest(p),
           \E a \in L : a.owner.kind = "process",
           \E a \in L : a.owner.kind = "path",
           SpaceAt(n, l, p.chunk, d, t, ViewOf(p)),
           p.filetype = "ELF" =>
                /\ p.elf_file # NULL
                /\ p.bounds = elf_process_pheaders(p.file, p.memory)
                /\ \A j \in DOMAIN p.file.phdrs :
                        Accepts(PhysOf(p.memory, p.file.phdrs[j]), p.file.phdrs[j].memsz),
           p.file.size > 0
    PROVE  Alive(n, l, p)
  <1>1. MemOK(n) /\ l \in Loads \cup {Kernel}
    BY DEF Grown
  <1>2. Dir(n, p.chunk) = d /\ Tables(n, p.chunk) = t
    BY <1>1, SpaceFacts
  <1>3. Space(n, l, p.chunk, ViewOf(p))
    BY <1>2 DEF Space
  <1>4. Mine(n, l) \subseteq (L \cup LoadPieces(l, p)) \cup SpacePieces(l, p.chunk, d, t)
    BY DEF Grown, Mine
  <1>5. LoadPieces(l, p) \subseteq n.held /\ L \subseteq Mine(n, l)
    BY DEF Grown, Mine
  <1> QED
    BY <1>2, <1>3, <1>4, <1>5 DEF Alive

\* process_load_for_slot leaves a process with its own space and pieces, or
\* a failed load; nobody else is disturbed, whichever allocation fails.
LEMMA LoadForSlot ==
    ASSUME NonzeroFiles, NEW m, MemOK(m), NEW l \in Loads, Mine(m, l) = {}, NEW f \in FileSet,
           NEW r, r = process_load_for_slot(m, f, l)
    PROVE  Loaded(m, l, f, r)
  <1>a. /\ 1 \in 1..Slack /\ 1 = BlocksFor(PageSize) /\ {"process", "stack", "task"} \subseteq Kinds0
        /\ l \in Loads \cup {Kernel}
    BY OneBlock DEF Kinds0
  <1>b. PICK ns \in 1..Slack : ns = BlocksFor(StackSize)
    BY Layout
  <1>1. PICK struct : struct = kzalloc(m, PageSize, [load |-> l, kind |-> "process"])
    OBVIOUS
  <1>2. PICK data : data = process_load_data(struct.mem, f, l)
    OBVIOUS
  <1>3. PICK stack : stack = kzalloc(data.mem, StackSize, [load |-> l, kind |-> "stack"])
    OBVIOUS
  <1>4. PICK task : task = kzalloc(stack.mem, PageSize, [load |-> l, kind |-> "task"])
    OBVIOUS
  <1>5. PICK space : space = paging_new_4gb(task.mem, UserFlags, l)
    OBVIOUS
  <1>6. PICK p1 : p1 = [NoProcess EXCEPT !.file = f, !.filetype = data.filetype, !.memory = data.memory,
                                         !.elf_file = data.elf_file, !.bounds = data.bounds]
    OBVIOUS
  <1>7. PICK p : p = [[[p1 EXCEPT !.stack = stack.ptr] EXCEPT !.task = task.ptr] EXCEPT !.chunk = space.ptr]
    OBVIOUS
  <1>8. PICK map : map = process_map_memory(space.mem, p.chunk, p)
    OBVIOUS
  <1>9. r = IF struct.ptr = NULL THEN FailedLoad(f, struct.mem, "ENOMEM", FALSE)
            ELSE IF data.res # "OK" THEN FailedLoad(f, data.mem, data.res, FALSE)
            ELSE IF stack.ptr = NULL THEN FailedLoad(f, stack.mem, "ENOMEM", FALSE)
            ELSE IF task.ptr = NULL THEN FailedLoad(f, task.mem, "ENOMEM", TRUE)
            ELSE IF space.ptr = NULL THEN FailedLoad(f, space.mem, "EIO", TRUE)
            ELSE IF map.ok THEN [mem |-> map.mem, crash |-> FALSE, process |-> [p EXCEPT !.state = "running"]]
            ELSE FailedLoad(f, task_free(map.mem, p.task, p.chunk), "EINVARG", FALSE)
    BY <1>1, <1>2, <1>3, <1>4, <1>5, <1>6, <1>7, <1>8, Zenon DEF process_load_for_slot, FailedLoad
  <1>c. {"ENOMEM", "EIO", "EINVARG"} \subseteq Results
    BY DEF Results
  <1>10. CASE struct.ptr = NULL
    <2>1. struct.mem = m
      BY <1>1, <1>10, <1>a, KzallocRefused
    <2>2. Grown(m, struct.mem, {})
      BY <2>1, GrownSelf
    <2>3. r = FailedLoad(f, struct.mem, "ENOMEM", FALSE)
      BY <1>9, <1>10
    <2>4. Full(m.entries)
      BY <1>1, <1>10, <1>a, RefusedIsFull
    <2> QED
      BY <1>c, <2>2, <2>3, <2>4, FailedLoaded
  <1> SUFFICES ASSUME struct.ptr # NULL PROVE Loaded(m, l, f, r)
    BY <1>10
  <1>11. PICK own : own = Piece(l, "process", struct.ptr, 1)
    OBVIOUS
  <1>12. Grown(m, struct.mem, {own}) /\ MemOK(struct.mem) /\ own.owner.load = l /\ own.owner.kind = "process"
    <2>1. Grown(m, struct.mem, {own})
      BY <1>1, <1>11, <1>a, KzallocGrows
    <2> QED
      BY <1>11, <2>1 DEF Grown, Piece
  <1>13. /\ data.res \in Results
         /\ data.res = "OK" => /\ f.size > 0 /\ data.elf_file \in Places /\ data.memory \in Places
                               /\ data.bounds \in Bounds
    BY <1>2, <1>12, LoadData
  <1>d. PICK i1, i2, i3 : i1 = 1 + DataNeeds(f) /\ i2 = i1 + ns /\ i3 = i2 + 1
    OBVIOUS
  <1>e. i1 \in Nat /\ i2 \in Nat /\ i3 \in Nat /\ LoadNeeds(f) = i3 + (Entries + 2) /\ Entries + 2 \in Nat
    <2>1. DataNeeds(f) \in Nat /\ ns \in Nat /\ Entries \in Nat
      BY <1>b, NeedsType
    <2> QED
      BY <1>b, <1>d, <2>1 DEF LoadNeeds
  <1>f. Uses(m, data.mem, i1)
    <2>1. Uses(m, struct.mem, 1)
      BY <1>1, <1>a, UsesKzalloc
    <2>2. Uses(struct.mem, data.mem, DataNeeds(f))
      BY <1>2, <1>12, LoadData
    <2> QED
      BY <1>d, <2>1, <2>2, NeedsType, UsesTwice
  <1>g. Uses(m, stack.mem, i2)
    <2>1. Uses(data.mem, stack.mem, ns)
      BY <1>3, <1>b, UsesKzalloc
    <2>2. ns \in Nat
      BY <1>b, NeedsType
    <2> QED
      BY <1>d, <1>e, <1>f, <2>1, <2>2, UsesTwice
  <1>h. Uses(m, task.mem, i3)
    <2>1. Uses(stack.mem, task.mem, 1)
      BY <1>4, <1>a, UsesKzalloc
    <2> QED
      BY <1>d, <1>e, <1>g, <2>1, UsesTwice
  <1>i. PICK D, L : DataLoaded(struct.mem, data, l, f, D, L)
    BY <1>2, <1>12, LoadData
  <1>14. /\ Grown(struct.mem, data.mem, D \cup L)
         /\ \A a \in L : a.owner.load = l /\ a.owner.kind \in LeftKinds
         /\ data.res # "OK" => D = {}
         /\ data.res = "OK" =>
              /\ \E a \in L : a.owner.kind = "path"
              /\ \A a \in L : a.owner.kind # "handle"
              /\ \/ /\ data.filetype = "ELF" /\ data.elf_file # NULL
                    /\ \A a \in L : a.owner.kind = "path"
                    /\ D = Granted(l, "elf_file", data.elf_file, 1)
                             \cup Granted(l, "elf_memory", data.memory, BlocksFor(f.size))
                    /\ data.bounds = elf_process_pheaders(f, data.memory)
                 \/ /\ data.filetype = "BINARY" /\ data.memory \in Addresses
                    /\ D = {Piece(l, "binary", data.memory, BlocksFor(f.size))}
    BY <1>i DEF DataLoaded
  <1>15. Grown(m, data.mem, {own} \cup (D \cup L)) /\ MemOK(data.mem)
    <2>1. Grown(m, data.mem, {own} \cup (D \cup L))
      BY <1>12, <1>14, GrownTwice
    <2> QED
      BY <2>1 DEF Grown
  <1>16. CASE data.res # "OK"
    <2>1. r = FailedLoad(f, data.mem, data.res, FALSE)
      BY <1>9, <1>16
    <2>2. \A a \in {own} \cup (D \cup L) : a.owner.load = l /\ a.owner.kind \in FailedKinds
      BY <1>12, <1>14, <1>16 DEF FailedKinds, LeftKinds, ElfKinds
    <2>3. {own} \cup (D \cup L) # {}
      OBVIOUS
    <2> QED
      BY <1>13, <1>15, <2>1, <2>2, <2>3, FailedLoaded
  <1> SUFFICES ASSUME data.res = "OK" PROVE Loaded(m, l, f, r)
    BY <1>16
  <1>17. \A a \in D : a.owner.load = l /\ a.owner.kind \in {"elf_file", "elf_memory", "binary"}
    BY <1>14 DEF Granted, Piece
  <1>18. \A a \in {own} \cup (D \cup L) : a.owner.load = l /\ a.owner.kind \in FailedKinds
    BY <1>12, <1>14, <1>17 DEF FailedKinds, LeftKinds, ElfKinds
  <1>19. CASE stack.ptr = NULL
    <2>1. stack.mem = data.mem
      BY <1>3, <1>19, <1>b, KzallocRefused
    <2>2. r = FailedLoad(f, data.mem, "ENOMEM", FALSE)
      BY <1>9, <1>19, <2>1
    <2>3. {own} \cup (D \cup L) # {}
      OBVIOUS
    <2> QED
      BY <1>c, <1>15, <1>18, <2>2, <2>3, FailedLoaded
  <1> SUFFICES ASSUME stack.ptr # NULL PROVE Loaded(m, l, f, r)
    BY <1>19
  <1>20. PICK st : st = Piece(l, "stack", stack.ptr, ns)
    OBVIOUS
  <1>21. PICK D2 : D2 = ({own} \cup (D \cup L)) \cup {st}
    OBVIOUS
  <1>22. /\ Grown(m, stack.mem, D2) /\ MemOK(stack.mem) /\ stack.ptr \in Addresses
         /\ \A a \in D2 : a.owner.load = l /\ a.owner.kind \in FailedKinds
    <2>1. Grown(data.mem, stack.mem, {st}) /\ stack.ptr \in Addresses
      BY <1>3, <1>15, <1>20, <1>a, <1>b, KzallocGrows
    <2>2. Grown(m, stack.mem, D2)
      BY <1>15, <1>21, <2>1, GrownTwice
    <2>3. st.owner.load = l /\ st.owner.kind = "stack"
      BY <1>20 DEF Piece
    <2> QED
      BY <1>18, <1>21, <2>1, <2>2, <2>3 DEF Grown, FailedKinds
  <1>23. CASE task.ptr = NULL
    <2>1. task.mem = stack.mem
      BY <1>4, <1>23, <1>a, KzallocRefused
    <2>2. r = FailedLoad(f, stack.mem, "ENOMEM", TRUE)
      BY <1>9, <1>23, <2>1
    <2>3. ASSUME HasRoom(m, LoadNeeds(f)) PROVE FALSE
      <3>1. LoadNeeds(f) = i2 + (1 + (Entries + 2)) /\ 1 + (Entries + 2) \in Nat /\ 1 =< 1 + (Entries + 2)
        BY <1>d, <1>e
      <3>2. HasRoom(stack.mem, 1 + (Entries + 2))
        BY <1>e, <1>g, <2>3, <3>1, RoomLeft
      <3>3. HasRoom(stack.mem, 1)
        BY <3>1, <3>2, RoomLess
      <3>4. \A k \in Nat : Low(stack.mem.entries, k) /\ k + 1 =< Total => task.ptr # NULL
        BY <1>4, <1>a, UsesKzalloc
      <3> QED
        BY <1>23, <3>3, <3>4 DEF HasRoom
    <2>4. D2 # {}
      BY <1>21
    <2> QED
      BY <1>c, <1>22, <2>2, <2>3, <2>4, FailedLoaded
  <1> SUFFICES ASSUME task.ptr # NULL PROVE Loaded(m, l, f, r)
    BY <1>23
  <1>24. PICK tk : tk = Piece(l, "task", task.ptr, 1)
    OBVIOUS
  <1>25. PICK D3 : D3 = D2 \cup {tk}
    OBVIOUS
  <1>26. /\ Grown(m, task.mem, D3) /\ MemOK(task.mem) /\ task.ptr \in Addresses
         /\ \A a \in D3 : a.owner.load = l
         /\ tk.owner.kind = "task"
    <2>1. Grown(stack.mem, task.mem, {tk}) /\ task.ptr \in Addresses
      BY <1>4, <1>22, <1>24, <1>a, KzallocGrows
    <2>2. Grown(m, task.mem, D3)
      BY <1>22, <1>25, <2>1, GrownTwice
    <2>3. tk.owner.load = l /\ tk.owner.kind = "task"
      BY <1>24 DEF Piece
    <2> QED
      BY <1>22, <1>25, <2>1, <2>2, <2>3 DEF Grown
  <1>27. PICK c : c = space.ptr
    OBVIOUS
  <1>28. c \in Places
    BY <1>5, <1>26, <1>27, <1>a, NewSpace, UserFlagsType
  <1>29. PICK S : /\ Grown(task.mem, space.mem, S)
                  /\ \A a \in S : a.owner.load = l /\ a.owner.kind \in PagingKinds
                  /\ c # NULL => \E d, t : /\ S = SpacePieces(l, c, d, t)
                                           /\ SpaceAt(space.mem, l, c, d, t, PlainView(UserFlags))
    BY <1>5, <1>26, <1>27, <1>a, NewSpace, UserFlagsType
  <1>30. Grown(m, space.mem, D3 \cup S) /\ MemOK(space.mem)
    <2>1. Grown(m, space.mem, D3 \cup S)
      BY <1>26, <1>29, GrownTwice
    <2> QED
      BY <2>1 DEF Grown
  <1>31. CASE c = NULL
    <2>1. r = FailedLoad(f, space.mem, "EIO", TRUE)
      BY <1>9, <1>27, <1>31
    <2>2. \A a \in D3 \cup S : a.owner.load = l
      BY <1>26, <1>29
    <2>3. ASSUME HasRoom(m, LoadNeeds(f)) PROVE FALSE
      <3>1. HasRoom(task.mem, Entries + 2)
        BY <1>e, <1>h, <2>3, RoomLeft
      <3>2. \A k \in Nat : Low(task.mem.entries, k) /\ k + (Entries + 2) =< Total => space.ptr # NULL
        BY <1>5, <1>26, <1>a, NewSpace, UserFlagsType
      <3> QED
        BY <1>27, <1>31, <3>1, <3>2 DEF HasRoom
    <2>4. D3 \cup S # {}
      BY <1>21, <1>25
    <2> QED
      BY <1>c, <1>30, <2>1, <2>2, <2>3, <2>4, FailedLoaded
  <1> SUFFICES ASSUME c # NULL PROVE Loaded(m, l, f, r)
    BY <1>31
  <1>32. PICK d, t : S = SpacePieces(l, c, d, t) /\ SpaceAt(space.mem, l, c, d, t, PlainView(UserFlags))
    BY <1>29
  <1>33. p1 \in Process /\ p1.file = f /\ p1.filetype = data.filetype /\ p1.memory = data.memory
         /\ p1.elf_file = data.elf_file /\ p1.bounds = data.bounds
    <2>1. data.filetype \in {"ELF", "BINARY"}
      BY <1>14
    <2> QED
      BY <1>6, <1>13, <2>1, NoProcessType DEF Process
  <1>34. p \in Process /\ p.file = f /\ p.filetype = data.filetype /\ p.memory = data.memory
         /\ p.elf_file = data.elf_file /\ p.bounds = data.bounds
         /\ p.stack = stack.ptr /\ p.task = task.ptr /\ p.chunk = c
    <2>1. stack.ptr \in Places /\ task.ptr \in Places /\ space.ptr \in Places
      BY <1>22, <1>26, <1>27, <1>28 DEF Places
    <2> QED
      BY <1>7, <1>27, <1>33, <2>1 DEF Process
  <1>35. LoadPieces(l, p) = D \cup {st, tk}
    <2>1. DataPieces(l, p) = D
      BY <1>14, <1>34 DEF DataPieces, Granted
    <2> QED
      BY <1>20, <1>24, <1>34, <1>b, <2>1 DEF LoadPieces
  <1>36. D3 = ({own} \cup L) \cup LoadPieces(l, p)
    BY <1>21, <1>25, <1>35
  <1>37. /\ map.ok \in BOOLEAN
         /\ Redrawn(space.mem, map.mem, t)
         /\ \E w \in [Pages -> Entry] : SpaceAt(map.mem, l, c, d, t, w)
         /\ map.ok => /\ SpaceAt(map.mem, l, c, d, t, ViewOf(p))
                      /\ p.filetype = "ELF" => \A j \in DOMAIN p.file.phdrs :
                            Accepts(PhysOf(p.memory, p.file.phdrs[j]), p.file.phdrs[j].memsz)
    <2>1. p.file \in FileSet /\ p.memory \in Places /\ p.stack \in Places
      BY <1>34 DEF Process
    <2>2. map = process_map_memory(space.mem, c, p)
      BY <1>8, <1>34
    <2> QED
      BY <1>30, <1>32, <1>a, <2>1, <2>2, MapMemory
  <1>38. Grown(m, map.mem, D3 \cup S)
    <2>1. ASSUME NEW q \in Pages, \A a \in D3 \cup S : q \notin PagesHeld(a), NEW j \in Indexes
          PROVE  q # PageOf(t[j])
      <3>1. Piece(l, "table", t[j], 1) \in S
        BY <1>32 DEF SpacePieces
      <3>2. PageOf(t[j]) \in PagesHeld(Piece(l, "table", t[j], 1))
        <4>1. PageOf(t[j]) \in Int
          BY <1>30, <1>32, <1>a, SpaceFacts, PageFacts
        <4> QED
          BY <4>1 DEF Piece, PagesHeld
      <3> QED
        BY <2>1, <3>1, <3>2
    <2>2. \A q \in Pages : q # 0 /\ (\A a \in D3 \cup S : q \notin PagesHeld(a)) => map.mem.ram[q] = space.mem.ram[q]
      BY <1>37, <2>1 DEF Redrawn
    <2>3. map.mem \in Memory /\ map.mem.entries = space.mem.entries /\ map.mem.held = space.mem.held
      BY <1>37 DEF Redrawn
    <2> QED
      BY <1>30, <2>2, <2>3, GrownWritten
  <1>39. MemOK(map.mem)
    BY <1>38 DEF Grown
  <1>40. CASE map.ok
    <2>1. PICK p2 : p2 = [p EXCEPT !.state = "running"]
      OBVIOUS
    <2>2. /\ p2 \in Process /\ p2.state = "running" /\ p2.file = p.file /\ p2.filetype = p.filetype
          /\ p2.memory = p.memory /\ p2.elf_file = p.elf_file /\ p2.bounds = p.bounds
          /\ p2.stack = p.stack /\ p2.task = p.task /\ p2.chunk = p.chunk
      BY <1>34, <2>1 DEF Process
    <2>3. r.mem = map.mem /\ r.crash = FALSE /\ r.process = p2
      BY <1>9, <1>27, <1>40, <2>1
    <2>4. ViewOf(p2) = ViewOf(p) /\ LoadPieces(l, p2) = LoadPieces(l, p)
      BY <2>2 DEF ViewOf, LoadPieces, DataPieces
    <2>5. Alive(map.mem, l, p2)
      <3>1. Grown(m, map.mem, (({own} \cup L) \cup LoadPieces(l, p2)) \cup SpacePieces(l, p2.chunk, d, t))
        BY <1>32, <1>34, <1>36, <1>38, <2>2, <2>4
      <3>2. \A a \in {own} \cup L : a.owner.load = l /\ a.owner.kind \in Rest(p2)
        BY <1>12, <1>14, <1>34, <2>2 DEF Rest, Attempt, LeftKinds, ElfKinds
      <3>3. /\ \E a \in {own} \cup L : a.owner.kind = "process"
            /\ \E a \in {own} \cup L : a.owner.kind = "path"
        BY <1>12, <1>14
      <3>4. SpaceAt(map.mem, l, p2.chunk, d, t, ViewOf(p2))
        BY <1>34, <1>37, <1>40, <2>2, <2>4
      <3>5. p2.filetype = "ELF" =>
                /\ p2.elf_file # NULL
                /\ p2.bounds = elf_process_pheaders(p2.file, p2.memory)
                /\ \A j \in DOMAIN p2.file.phdrs :
                        Accepts(PhysOf(p2.memory, p2.file.phdrs[j]), p2.file.phdrs[j].memsz)
        BY <1>14, <1>34, <1>37, <1>40, <2>2
      <3>6. p2.file.size > 0
        BY <1>13, <1>34, <2>2
      <3> QED
        BY <3>1, <3>2, <3>3, <3>4, <3>5, <3>6, NewAlive
    <2>6. Frame(m, map.mem, l)
      <3>1. \A a \in D3 \cup S : a.owner.load = l
        BY <1>26, <1>29
      <3> QED
        BY <1>38, <3>1, GrownFrame
    <2>7. Status(map.mem, l, p2, FALSE)
      BY <2>2, <2>5 DEF Status
    <2>8. Mine(map.mem, l) # {}
      BY <1>12, <1>21, <1>25, <1>38 DEF Grown, Mine
    <2>9. Uses(m, map.mem, LoadNeeds(f))
      <3>1. Uses(task.mem, space.mem, Entries + 2)
        BY <1>5, <1>26, <1>a, NewSpace, UserFlagsType
      <3>2. Uses(m, space.mem, LoadNeeds(f))
        BY <1>e, <1>h, <3>1, UsesTwice
      <3>3. map.mem.entries = space.mem.entries
        BY <1>37 DEF Redrawn
      <3> QED
        BY <3>2, <3>3 DEF Uses
    <2> QED
      BY <1>39, <2>2, <2>3, <2>6, <2>7, <2>8, <2>9 DEF Loaded
  <1>41. CASE ~map.ok
    <2>1. PICK o : o = task_free(map.mem, p.task, p.chunk)
      OBVIOUS
    <2>2. r = FailedLoad(f, o, "EINVARG", FALSE)
      BY <1>9, <1>27, <1>41, <2>1
    <2>3. PICK w \in [Pages -> Entry] : SpaceAt(map.mem, l, c, d, t, w)
      BY <1>37
    <2>4. tk \in map.mem.held
      BY <1>25, <1>38 DEF Grown
    <2>5. MemOK(o) /\ o.ram = map.mem.ram /\ o.held = map.mem.held \ (S \cup {tk})
      <3>1. o = task_free(map.mem, task.ptr, c) /\ Piece(l, "task", task.ptr, 1) \in map.mem.held
        BY <1>24, <1>34, <2>1, <2>4
      <3> QED
        BY <1>24, <1>32, <1>39, <1>a, <2>3, <3>1, TaskFree
    <2>6. D2 \cap (S \cup {tk}) = {}
      BY <1>22, <1>26, <1>29 DEF FailedKinds, PagingKinds
    <2>7. Grown(m, o, D2)
      <3>1. o.held = m.held \cup D2 /\ m.held \cap D2 = {}
        BY <1>25, <1>38, <2>5, <2>6 DEF Grown
      <3> QED
        BY <1>38, <2>5, <3>1 DEF Grown
    <2>8. D2 # {}
      BY <1>21
    <2> QED
      BY <1>22, <1>c, <2>2, <2>7, <2>8, FailedLoaded
  <1> QED
    BY <1>37, <1>40, <1>41


-----------------------------------------------------------------------------
(* process_terminate                                                       *)

\* Memory n is memory m after the pieces F were freed.
Freed(m, n, F) == MemOK(n) /\ n.held = m.held \ F /\ n.ram = m.ram

\* Freeing what kzalloc granted, which may be nothing
LEMMA FreedGranted ==
    ASSUME NEW m, NEW n, NEW F, Freed(m, n, F), NEW l, NEW kind, NEW p, NEW k,
           Granted(l, kind, p, k) \subseteq m.held, Granted(l, kind, p, k) \cap F = {}
    PROVE  Freed(m, kfree(n, p), F \cup Granted(l, kind, p, k))
  <1>1. Piece(l, kind, p, k).ptr = p
    BY DEF Piece
  <1>2. CASE p = NULL
    <2>1. Granted(l, kind, p, k) = {}
      BY <1>1, <1>2 DEF Granted
    <2>2. MemOK(kfree(n, NULL)) /\ kfree(n, NULL).held = n.held /\ kfree(n, NULL).ram = n.ram
      BY KfreeNull DEF Freed
    <2> QED
      BY <1>2, <2>1, <2>2 DEF Freed
  <1>3. CASE p # NULL
    <2>1. PICK a : a = Piece(l, kind, p, k)
      OBVIOUS
    <2>2. Granted(l, kind, p, k) = {a} /\ a.ptr = p
      BY <1>1, <1>3, <2>1 DEF Granted
    <2>3. a \in n.held
      BY <2>2 DEF Freed
    <2>4. MemOK(kfree(n, a.ptr)) /\ kfree(n, a.ptr).held = n.held \ {a} /\ kfree(n, a.ptr).ram = n.ram
      BY <2>3, KfreePiece DEF Freed
    <2> QED
      BY <2>2, <2>4 DEF Freed
  <1> QED
    BY <1>2, <1>3

\* Pieces of different kinds differ.
LEMMA KindsApart ==
    ASSUME NEW l, NEW i, NEW p, NEW n, NEW j, NEW q, NEW k, i # j
    PROVE  Granted(l, i, p, n) \cap Granted(l, j, q, k) = {}
  <1>1. Piece(l, i, p, n).owner.kind = i /\ Piece(l, j, q, k).owner.kind = j
    BY DEF Piece
  <1> QED
    BY <1>1 DEF Granted

\* What the loader holds for a process is what kzalloc granted it.
LEMMA DataGranted ==
    ASSUME NEW l, NEW p, p.filetype = "BINARY" => p.memory # NULL
    PROVE  DataPieces(l, p) =
             IF p.filetype = "ELF"
             THEN Granted(l, "elf_file", p.elf_file, 1)
                    \cup Granted(l, "elf_memory", p.memory, BlocksFor(p.file.size))
             ELSE {Piece(l, "binary", p.memory, BlocksFor(p.file.size))}
  BY DEF DataPieces, Granted

\* process_free_program_data frees what the loader holds.
LEMMA FreeData ==
    ASSUME NEW m, MemOK(m), NEW l, NEW p \in Process, DataPieces(l, p) \subseteq m.held,
           p.filetype = "ELF" => p.elf_file # NULL
    PROVE  Freed(m, process_free_program_data(m, p), DataPieces(l, p))
  <1>1. Freed(m, m, {})
    BY DEF Freed
  <1>2. CASE p.filetype = "ELF"
    <2>1. PICK F, G : F = Granted(l, "elf_file", p.elf_file, 1)
                      /\ G = Granted(l, "elf_memory", p.memory, BlocksFor(p.file.size))
      OBVIOUS
    <2>2. DataPieces(l, p) = G \cup F /\ F \cap G = {}
      BY <1>2, <2>1, DataGranted, KindsApart
    <2>3. Freed(m, kfree(m, p.memory), {} \cup G)
      BY <1>1, <2>1, <2>2, FreedGranted
    <2>4. Freed(m, kfree(kfree(m, p.memory), p.elf_file), G \cup F)
      BY <2>1, <2>2, <2>3, FreedGranted
    <2>5. process_free_program_data(m, p) = kfree(kfree(m, p.memory), p.elf_file)
      BY <1>2 DEF process_free_program_data, elf_close
    <2> QED
      BY <2>2, <2>4, <2>5
  <1>3. CASE p.filetype # "ELF"
    <2>1. PICK a : a = Piece(l, "binary", p.memory, BlocksFor(p.file.size))
      OBVIOUS
    <2>2. DataPieces(l, p) = {a} /\ a \in m.held /\ a.ptr = p.memory
      BY <1>3, <2>1 DEF DataPieces, Piece
    <2>3. process_free_program_data(m, p) = kfree(m, a.ptr)
      BY <1>3, <2>2 DEF process_free_program_data
    <2> QED
      BY <2>2, <2>3, KfreePiece DEF Freed
  <1> QED
    BY <1>2, <1>3

\* A space does not change when other pieces are freed.
LEMMA FreedSpace ==
    ASSUME NEW m, NEW n, NEW F, Freed(m, n, F), NEW l, NEW c, NEW d, NEW t, NEW view,
           SpaceAt(m, l, c, d, t, view), F \cap SpacePieces(l, c, d, t) = {}
    PROVE  SpaceAt(n, l, c, d, t, view)
  BY DEF Freed, SpaceAt

LEMMA SpaceKinds ==
    ASSUME NEW l, NEW c, NEW d, NEW t, NEW a \in SpacePieces(l, c, d, t)
    PROVE  a.owner.load = l /\ a.owner.kind \in PagingKinds
  BY DEF SpacePieces, Piece, PagingKinds

LEMMA LoadKinds ==
    ASSUME NEW l, NEW p, NEW a \in LoadPieces(l, p)
    PROVE  /\ a.owner.load = l
           /\ a.owner.kind \in {"elf_file", "elf_memory", "binary", "stack", "task"}
           /\ a \in DataPieces(l, p) => a.owner.kind \notin {"stack", "task"}
  BY DEF LoadPieces, DataPieces, Piece

\* process_terminate frees all that the process holds but its struct, the path
\* and what the attempt to load a raw binary as ELF left.
LEMMA Terminated ==
    ASSUME NEW m, MemOK(m), NEW l \in Loads, NEW p \in Process, Alive(m, l, p),
           NEW o, o = process_terminate(m, p)
    PROVE  Freed(m, o, LoadPieces(l, p) \cup SpacePieces(l, p.chunk, Dir(m, p.chunk), Tables(m, p.chunk)))
  <1>1. PICK c, d, t : c = p.chunk /\ d = Dir(m, c) /\ t = Tables(m, c)
    OBVIOUS
  <1>2. PICK D, S, T : /\ D = DataPieces(l, p)
                       /\ S = Piece(l, "stack", p.stack, BlocksFor(StackSize))
                       /\ T = Piece(l, "task", p.task, 1)
    OBVIOUS
  <1>3. LoadPieces(l, p) = D \cup {S, T} /\ LoadPieces(l, p) \subseteq m.held
    BY <1>2 DEF LoadPieces, Alive
  <1>4. S.ptr = p.stack /\ S.owner.kind = "stack" /\ T.ptr = p.task /\ T.owner.kind = "task"
    BY <1>2 DEF Piece
  <1>5. S \notin D /\ T \notin D /\ S # T
    BY <1>2, <1>3, <1>4, LoadKinds
  <1>6. PICK P : P = SpacePieces(l, c, d, t)
    OBVIOUS
  <1>7. (D \cup {S, T}) \cap P = {}
    <2>1. \A a \in P : a.owner.kind \in {"directory", "table", "chunk"}
      BY <1>6, SpaceKinds DEF PagingKinds
    <2>2. \A a \in D \cup {S, T} : a.owner.kind \in {"elf_file", "elf_memory", "binary", "stack", "task"}
      BY <1>3, LoadKinds
    <2> QED
      BY <2>1, <2>2
  <1>8. SpaceAt(m, l, c, d, t, ViewOf(p))
    BY <1>1 DEF Alive, Space
  <1>9. PICK u : u = process_free_program_data(m, p)
    OBVIOUS
  <1>10. Freed(m, u, D)
    BY <1>2, <1>3, <1>9, FreeData DEF Alive
  <1>11. PICK w : w = kfree(u, p.stack)
    OBVIOUS
  <1>12. Freed(m, w, D \cup {S})
    <2>1. S \in u.held /\ MemOK(u)
      BY <1>3, <1>5, <1>10 DEF Freed
    <2>2. MemOK(w) /\ w.held = u.held \ {S} /\ w.ram = u.ram
      BY <1>4, <1>11, <2>1, KfreePiece
    <2> QED
      BY <1>10, <2>2 DEF Freed
  <1>13. SpaceAt(w, l, c, d, t, ViewOf(p))
    BY <1>6, <1>7, <1>8, <1>12, FreedSpace
  <1>14. o = task_free(w, p.task, c)
    BY <1>1, <1>9, <1>11 DEF process_terminate
  <1>15. T \in w.held /\ MemOK(w)
    BY <1>3, <1>5, <1>12 DEF Freed
  <1>16. MemOK(o) /\ o.ram = w.ram /\ o.held = w.held \ (P \cup {T})
    BY <1>2, <1>6, <1>13, <1>14, <1>15, TaskFree
  <1>17. Freed(m, o, (D \cup {S, T}) \cup P)
    BY <1>12, <1>16 DEF Freed
  <1> QED
    BY <1>1, <1>3, <1>6, <1>17

\* What is left then
LEMMA TerminatedStatus ==
    ASSUME NEW m, MemOK(m), NEW l \in Loads, NEW p \in Process, Alive(m, l, p),
           NEW o, o = process_terminate(m, p), NEW q, q = [p EXCEPT !.state = "ended"]
    PROVE  /\ MemOK(o) /\ Frame(m, o, l)
           /\ q \in Process /\ \A crash : Status(o, l, q, crash)
  <1>1. PICK P : P = SpacePieces(l, p.chunk, Dir(m, p.chunk), Tables(m, p.chunk))
    OBVIOUS
  <1>2. Freed(m, o, LoadPieces(l, p) \cup P)
    BY <1>1, Terminated
  <1>3. \A a \in LoadPieces(l, p) \cup P :
            /\ a.owner.load = l
            /\ a.owner.kind \in {"elf_file", "elf_memory", "binary", "stack", "task",
                                 "directory", "table", "chunk"}
    BY <1>1, SpaceKinds, LoadKinds DEF PagingKinds
  <1>4. Frame(m, o, l)
    BY <1>2, <1>3, ReleasedFrame DEF Freed
  <1>5. q \in Process /\ q.state = "ended" /\ q.filetype = p.filetype
    BY DEF Process
  <1>6. Rest(q) = Rest(p)
    BY <1>5 DEF Rest, Attempt
  <1>7. Mine(o, l) = Mine(m, l) \ (LoadPieces(l, p) \cup P)
    BY <1>2 DEF Freed, Mine
  <1>8. \A a \in Mine(o, l) : a.owner.kind \in Rest(p)
    BY <1>1, <1>7 DEF Alive
  <1>9. /\ \E a \in Mine(o, l) : a.owner.kind = "process"
        /\ \E a \in Mine(o, l) : a.owner.kind = "path"
    <2>1. PICK a \in Mine(m, l), b \in Mine(m, l) : a.owner.kind = "process" /\ b.owner.kind = "path"
      BY DEF Alive
    <2> QED
      BY <1>3, <1>7, <2>1
  <1>10. \A crash : Status(o, l, q, crash)
    BY <1>5, <1>6, <1>8, <1>9 DEF Status
  <1> QED
    BY <1>2, <1>4, <1>5, <1>10 DEF Freed

-----------------------------------------------------------------------------
(* copy_string_from_task                                                   *)

\* An allocation leaves a space as it is.
LEMMA GrownSpace ==
    ASSUME NEW m, MemOK(m), NEW n, NEW D, Grown(m, n, D), NEW l \in Loads \cup {Kernel},
           NEW c, NEW d, NEW t, NEW view, SpaceAt(m, l, c, d, t, view)
    PROVE  SpaceAt(n, l, c, d, t, view)
  <1>1. /\ c \in Addresses /\ d \in Addresses /\ \A j \in Indexes : t[j] \in Addresses
    BY SpaceFacts
  <1>2. ASSUME NEW kind, NEW p \in Addresses, Piece(l, kind, p, 1) \in m.held
        PROVE  n.ram[PageOf(p)] = m.ram[PageOf(p)]
    <2>1. PageOf(p) \in PagesHeld(Piece(l, kind, p, 1))
      <3>1. PageOf(p) \in Int
        BY AddressPage, PageFacts
      <3> QED
        BY <3>1 DEF Piece, PagesHeld
    <2> QED
      BY <1>2, <2>1 DEF Grown
  <1>3. /\ Piece(l, "chunk", c, 1) \in m.held /\ Piece(l, "directory", d, 1) \in m.held
        /\ \A j \in Indexes : Piece(l, "table", t[j], 1) \in m.held
    BY DEF SpaceAt, SpacePieces
  <1>4. /\ n.ram[PageOf(c)] = m.ram[PageOf(c)] /\ n.ram[PageOf(d)] = m.ram[PageOf(d)]
        /\ \A j \in Indexes : n.ram[PageOf(t[j])] = m.ram[PageOf(t[j])]
    BY <1>1, <1>2, <1>3
  <1>5. SpacePieces(l, c, d, t) \subseteq n.held
    BY DEF SpaceAt, Grown
  <1> QED
    BY <1>4, <1>5 DEF SpaceAt

LEMMA PutBack ==
    ASSUME NEW view \in [Pages -> Entry], NEW v \in Pages, NEW val
    PROVE  [[view EXCEPT ![v] = val] EXCEPT ![v] = view[v]] = view
  OBVIOUS

\* The page opened to the task is closed again, and all is as before.
LEMMA Copied ==
    ASSUME NEW m, MemOK(m), NEW l \in Loads, NEW p \in Process, Alive(m, l, p),
           NEW o, o = copy_string_from_task(m, p, l)
    PROVE  MemOK(o) /\ Frame(m, o, l) /\ Alive(o, l, p) /\ o.held = m.held
  <1>1. PICK g : g = kzalloc(m, 1, [load |-> l, kind |-> "tmp"])
    OBVIOUS
  <1>2. g.ptr \in Places /\ l \in Loads \cup {Kernel} /\ BlocksFor(1) = 1 /\ 1 \in 1..Slack /\ "tmp" \in Kinds0
    <2>1. BlocksFor(1) = 1 /\ 1 \in 1..Slack /\ "tmp" \in Kinds0
      BY OneBlock DEF Kinds0
    <2> QED
      BY <1>1, <2>1, KzallocGranted
  <1>3. PICK c, d, t : c = p.chunk /\ d = Dir(m, c) /\ t = Tables(m, c)
    OBVIOUS
  <1>4. PICK tmp : tmp = g.ptr
    OBVIOUS
  <1>5. PICK w : w = paging_map(g.mem, c, tmp, tmp, UserWritable)
    OBVIOUS
  <1>6. PICK x : x = paging_set(w, directory_entry(g.mem, c), tmp, paging_get(g.mem, directory_entry(g.mem, c), tmp))
    OBVIOUS
  <1>7. o = IF tmp = NULL THEN m ELSE kfree(x, tmp)
    BY <1>1, <1>3, <1>4, <1>5, <1>6, Zenon DEF copy_string_from_task
  <1>8. CASE tmp = NULL
    BY <1>7, <1>8 DEF Frame
  <1> SUFFICES ASSUME tmp # NULL PROVE MemOK(o) /\ Frame(m, o, l) /\ Alive(o, l, p) /\ o.held = m.held
    BY <1>8
  <1>9. PICK T : T = Piece(l, "tmp", tmp, 1)
    OBVIOUS
  <1>10. tmp \in Addresses /\ Grown(m, g.mem, {T})
    BY <1>1, <1>2, <1>4, <1>9, KzallocGrows
  <1>11. T.ptr = tmp /\ T.owner.load = l /\ T.owner.kind = "tmp"
    BY <1>9 DEF Piece
  <1>12. PICK view : view = ViewOf(p) /\ view \in [Pages -> Entry]
    <2>1. p.file \in FileSet /\ p.memory \in Places /\ p.stack \in Places
      BY DEF Process
    <2> QED
      BY <2>1, ViewType
  <1>13. SpaceAt(m, l, c, d, t, view)
    BY <1>3, <1>12 DEF Alive, Space
  <1>14. PICK n : n = g.mem
    OBVIOUS
  <1>15. MemOK(n) /\ Grown(m, n, {T})
    BY <1>10, <1>14 DEF Grown
  <1>16. SpaceAt(n, l, c, d, t, view)
    BY <1>2, <1>13, <1>15, GrownSpace
  <1>17. directory_entry(n, c) = d
    BY <1>2, <1>15, <1>16, SpaceFacts DEF Dir
  <1>18. PICK v \in Pages : tmp = v * PageSize
    <2>1. PageOf(tmp) \in Pages /\ tmp = PageOf(tmp) * PageSize
      BY <1>10, PlaceFacts DEF Places
    <2> QED
      BY <2>1
  <1>19. /\ Redrawn(n, w, t)
         /\ SpaceAt(w, l, c, d, t, [view EXCEPT ![v] = [page |-> v, flags |-> UserWritable]])
    BY <1>2, <1>5, <1>12, <1>14, <1>15, <1>16, <1>18, UserFlagsType, MapPage
  <1>20. MemOK(w)
    BY <1>15, <1>19, RedrawnOK
  <1>21. x = paging_set(w, d, v * PageSize, view[v])
    <2>1. paging_get(n, d, v * PageSize) = view[v]
      BY <1>16, GetPage
    <2> QED
      BY <1>6, <1>14, <1>17, <1>18, <2>1
  <1>22. Redrawn(w, x, t) /\ SpaceAt(x, l, c, d, t, view)
    <2>1. PICK other : other = [view EXCEPT ![v] = [page |-> v, flags |-> UserWritable]]
      OBVIOUS
    <2>2. other \in [Pages -> Entry] /\ view[v] \in Entry
      <3>1. [page |-> v, flags |-> UserWritable] \in Entry
        BY UserFlagsType DEF Entry
      <3> QED
        BY <1>12, <2>1, <3>1
    <2>3. Redrawn(w, x, t) /\ SpaceAt(x, l, c, d, t, [other EXCEPT ![v] = view[v]])
      <3>1. PICK val \in Entry : val = view[v]
        BY <2>2
      <3>2. SpaceAt(w, l, c, d, t, other) /\ other \in [Pages -> Entry]
        BY <1>19, <2>1, <2>2
      <3>3. x = paging_set(w, d, v * PageSize, val) /\ MemOK(w) /\ l \in Loads \cup {Kernel}
        BY <1>2, <1>20, <1>21, <3>1
      <3>4. Redrawn(w, x, t) /\ SpaceAt(x, l, c, d, t, [other EXCEPT ![v] = val])
        BY <3>2, <3>3, SetPage
      <3> QED
        BY <3>1, <3>4
    <2>4. [other EXCEPT ![v] = view[v]] = view
      BY <1>12, <2>1, PutBack
    <2> QED
      BY <2>3, <2>4
  <1>23. Redrawn(n, x, t)
    BY <1>19, <1>22, RedrawnTwice
  <1>24. MemOK(x) /\ x.held = m.held \cup {T} /\ T \notin m.held
    <2>1. MemOK(x)
      BY <1>15, <1>23, RedrawnOK
    <2>2. x.held = n.held
      BY <1>23 DEF Redrawn
    <2>3. n.held = m.held \cup {T} /\ m.held \cap {T} = {}
      BY <1>15 DEF Grown
    <2> QED
      BY <2>1, <2>2, <2>3
  <1>25. o = kfree(x, T.ptr)
    BY <1>7, <1>11
  <1>26. MemOK(o) /\ o.held = x.held \ {T} /\ o.ram = x.ram
    BY <1>24, <1>25, KfreePiece
  <1>27. Frame(m, o, l)
    <2>1. Frame(m, n, l)
      BY <1>11, <1>15, GrownFrame
    <2>2. Frame(n, x, l)
      BY <1>2, <1>15, <1>16, <1>23, RedrawnFrame
    <2>3. Frame(x, o, l)
      BY <1>11, <1>26, ReleasedFrame
    <2> QED
      BY <2>1, <2>2, <2>3, FrameTwice
  <1>28. SpaceAt(o, l, c, d, t, view)
    <2>1. T \notin SpacePieces(l, c, d, t)
      BY <1>11, SpaceKinds DEF PagingKinds
    <2>2. Freed(x, o, {T})
      BY <1>26 DEF Freed
    <2>3. {T} \cap SpacePieces(l, c, d, t) = {}
      BY <2>1
    <2>4. SpaceAt(x, l, c, d, t, view)
      BY <1>22
    <2> QED
      BY <2>2, <2>3, <2>4, FreedSpace, Zenon
  <1>29. Dir(o, c) = d /\ Tables(o, c) = t
    BY <1>2, <1>26, <1>28, SpaceFacts
  <1>30. o.held = m.held /\ Mine(o, l) = Mine(m, l)
    BY <1>24, <1>26 DEF Mine
  <1>31. Space(o, l, p.chunk, ViewOf(p))
    BY <1>3, <1>12, <1>28, <1>29 DEF Space
  <1>32. Alive(o, l, p)
    BY <1>3, <1>29, <1>30, <1>31 DEF Alive
  <1> QED
    BY <1>26, <1>27, <1>30, <1>32

-----------------------------------------------------------------------------
(* Initial states                                                          *)

\* The memory that kernel_main starts from
Fresh == [entries |-> [c \in Cells |-> {}], ram |-> [p \in Pages |-> ZeroPage], held |-> {}]

LEMMA FreshMemory == MemOK(Fresh) /\ Low(Fresh.entries, 0) /\ Fresh.held = {}
  <1>1. PICK m : m = Fresh
    OBVIOUS
  <1>2. m.held = {} /\ m.entries = [c \in Cells |-> {}] /\ m.ram = [p \in Pages |-> ZeroPage]
    BY <1>1 DEF Fresh
  <1>3. m \in Memory
    BY <1>1, ZeroPageType DEF Memory, Fresh
  <1>4. Bare(m.held) = {}
    BY <1>2 DEF Bare
  <1>5. BelowStops(m.entries)
    <2>1. NullBlock \in Cells /\ NullBlock < 0
      BY CellsFacts, PageFacts DEF Cells
    <2> QED
      BY <1>2, <2>1 DEF BelowStops
  <1>6. Marked(m.entries, {})
    BY <1>2, CellsFacts DEF Marked
  <1>7. Records(m.entries, {})
    BY <1>2, <1>5, <1>6 DEF Records, Disjoint
  <1>8. Low(m.entries, 0)
    BY <1>2, CellsFacts DEF Low, IsFree
  <1> QED
    BY <1>1, <1>2, <1>3, <1>4, <1>7, <1>8 DEF MemOK

\* An allocation of a program's own, at block b
Malloc(b) == Piece(Kernel, "malloc", heap_block_to_address(b), 1)

LEMMA MallocFacts ==
    ASSUME NEW b \in Blocks
    PROVE  /\ Malloc(b) \in Pieces /\ Malloc(b).ptr = heap_block_to_address(b)
           /\ Malloc(b).owner.load = Kernel
           /\ BareOf(Malloc(b)) \in Allocation /\ BareOf(Malloc(b)).blocks = 1
           /\ BlocksOf(BareOf(Malloc(b))) = {b}
           /\ heap_address_to_block(BareOf(Malloc(b)).ptr) = b
  <1>1. heap_block_to_address(b) \in Addresses /\ b \in Int
    BY AddressOfBlock, CellsFacts
  <1>2. Kernel \in Loads \cup {Kernel} /\ "malloc" \in Kinds0 /\ 1 \in 1..Slack
    BY OneBlock DEF Kinds0
  <1>3. /\ Malloc(b) \in Pieces /\ Malloc(b).ptr = heap_block_to_address(b)
        /\ Malloc(b).owner.load = Kernel
        /\ BareOf(Malloc(b)) = [ptr |-> heap_block_to_address(b), blocks |-> 1]
    <2>1. PICK q \in Addresses : q = heap_block_to_address(b)
      BY <1>1
    <2>2. PICK a : a = Piece(Kernel, "malloc", q, 1)
      OBVIOUS
    <2>3. a \in Pieces /\ a.ptr = q /\ a.owner.load = Kernel /\ BareOf(a) = [ptr |-> q, blocks |-> 1]
      BY <1>2, <2>2 DEF Piece, Pieces, Owners, BareOf
    <2>4. Malloc(b) = a
      BY <2>1, <2>2 DEF Malloc
    <2> QED
      BY <2>1, <2>3, <2>4
  <1>4. heap_address_to_block(heap_block_to_address(b)) = b
    BY AddressRoundTrip, CellsFacts
  <1>5. BareOf(Malloc(b)).ptr = heap_block_to_address(b) /\ BareOf(Malloc(b)).blocks = 1
    BY <1>3
  <1>6. BlocksOf(BareOf(Malloc(b))) = b..(b + 1 - 1)
    BY <1>4, <1>5 DEF BlocksOf
  <1>7. BlocksOf(BareOf(Malloc(b))) = {b}
    BY <1>1, <1>6
  <1> QED
    BY <1>3, <1>4, <1>5, <1>7, PieceFacts

\* Where no block is taken, any set of blocks can be.
LEMMA BurdenedOK ==
    ASSUME NEW m, MemOK(m), NEW k \in Nat, Low(m.entries, k), NEW bs \in SUBSET (k..(Total - 1)),
           NEW n, n = Burdened(m, bs)
    PROVE  MemOK(n) /\ n.held = m.held \cup {Malloc(b) : b \in bs} /\ n.ram = m.ram
  <1>1. /\ m \in Memory /\ m.entries \in [Cells -> SUBSET Flags] /\ m.held \in SUBSET Pieces
        /\ Records(m.entries, Bare(m.held))
    BY MemoryFields DEF MemOK
  <1>2. /\ n.entries = [c \in Cells |-> IF c \in bs THEN TakenEntry(0, 1) ELSE m.entries[c]]
        /\ n.held = m.held \cup {Malloc(b) : b \in bs} /\ n.ram = m.ram
    <2>1. /\ m = [entries |-> m.entries, ram |-> m.ram, held |-> m.held]
      BY MemoryFields DEF MemOK
    <2> QED
      BY <2>1 DEF Burdened, Malloc, Piece
  <1>3. bs \subseteq Blocks /\ \A b \in bs : b \in Int /\ b >= k /\ b < Total
    BY CellsFacts, PageFacts DEF Blocks
  <1>4. TakenEntry(0, 1) \in SUBSET Flags
    BY DEF TakenEntry, Flags
  <1>5. n \in Memory
    <2>1. {Malloc(b) : b \in bs} \subseteq Pieces
      BY <1>3, MallocFacts
    <2>2. n.held \in SUBSET Pieces
      BY <1>1, <1>2, <2>1
    <2>3. n.entries \in [Cells -> SUBSET Flags]
      BY <1>1, <1>2, <1>4
    <2>4. n.ram \in [Pages -> [Indexes -> Entry]]
      BY <1>1, <1>2, MemoryFields
    <2>5. n = [entries |-> n.entries, ram |-> n.ram, held |-> n.held]
      <3>1. m = [entries |-> m.entries, ram |-> m.ram, held |-> m.held]
        BY <1>1, MemoryFields
      <3> QED
        BY <3>1 DEF Burdened
    <2> QED
      BY <2>2, <2>3, <2>4, <2>5 DEF Memory
  <1>6. ASSUME NEW a \in Bare(m.held), NEW b \in bs PROVE b \notin BlocksOf(a)
    <2> SUFFICES ASSUME b \in BlocksOf(a) PROVE FALSE
      OBVIOUS
    <2>1. "TAKEN" \in m.entries[b]
      BY <1>1, <1>3 DEF Records, Marked, TakenEntry
    <2> QED
      BY <1>3, <2>1 DEF Low, IsFree
  <1>7. PICK N : N = {BareOf(Malloc(b)) : b \in bs}
    OBVIOUS
  <1>8. Bare(n.held) = Bare(m.held) \cup N
    <2>1. PICK B : B = {Malloc(b) : b \in bs}
      OBVIOUS
    <2>2. \A C : Bare(C) = {BareOf(a) : a \in C}
      BY DEF Bare, BareOf
    <2>3. {BareOf(a) : a \in B} = N
      BY <1>7, <2>1
    <2>4. {BareOf(a) : a \in m.held \cup B} = {BareOf(a) : a \in m.held} \cup {BareOf(a) : a \in B}
      OBVIOUS
    <2> QED
      BY <1>2, <2>1, <2>2, <2>3, <2>4
  <1>9. ASSUME NEW a \in N
        PROVE  \E b \in bs : /\ a \in Allocation /\ a.blocks = 1 /\ BlocksOf(a) = {b}
                             /\ heap_address_to_block(a.ptr) = b /\ a = BareOf(Malloc(b))
    BY <1>3, <1>7, MallocFacts
  <1>10. Marked(n.entries, Bare(n.held))
    <2>1. ASSUME NEW a \in Bare(n.held), NEW c \in BlocksOf(a) \cap Blocks
          PROVE  n.entries[c] = TakenEntry(c - heap_address_to_block(a.ptr), a.blocks)
      <3>1. c \in Cells
        BY CellsFacts
      <3>2. CASE a \in N
        <4>1. PICK b \in bs : a.blocks = 1 /\ BlocksOf(a) = {b} /\ heap_address_to_block(a.ptr) = b
          BY <1>9, <3>2
        <4>2. c = b /\ b \in Int
          BY <1>3, <4>1
        <4>3. n.entries[c] = TakenEntry(0, 1)
          BY <1>2, <3>1, <4>2
        <4>4. c - heap_address_to_block(a.ptr) = 0
          BY <4>1, <4>2
        <4> QED
          BY <4>1, <4>3, <4>4
      <3>3. CASE a \in Bare(m.held)
        <4>1. c \notin bs
          BY <1>6, <3>3
        <4>2. n.entries[c] = m.entries[c]
          BY <1>2, <3>1, <4>1
        <4> QED
          BY <1>1, <3>3, <4>2 DEF Records, Marked
      <3> QED
        BY <1>8, <3>2, <3>3
    <2>2. ASSUME NEW c \in Blocks, \A a \in Bare(n.held) : c \notin BlocksOf(a)
          PROVE  n.entries[c] = {}
      <3>1. c \in Cells
        BY CellsFacts
      <3>2. c \notin bs
        <4> SUFFICES ASSUME c \in bs PROVE FALSE
          OBVIOUS
        <4>1. BareOf(Malloc(c)) \in Bare(n.held)
          BY <1>7, <1>8
        <4>2. c \in BlocksOf(BareOf(Malloc(c)))
          BY MallocFacts
        <4> QED
          BY <2>2, <4>1, <4>2
      <3>3. m.entries[c] = {}
        BY <1>1, <1>8, <2>2 DEF Records, Marked
      <3> QED
        BY <1>2, <3>1, <3>2, <3>3
    <2> QED
      BY <2>1, <2>2 DEF Marked
  <1>11. BelowStops(n.entries)
    <2>1. PICK c \in Cells : c < 0 /\ "NEXT" \notin m.entries[c]
      BY <1>1 DEF Records, BelowStops
    <2>2. c \notin bs
      BY <1>3, <2>1
    <2> QED
      BY <1>2, <2>1, <2>2 DEF BelowStops
  <1>12. Disjoint(Bare(n.held))
    <2>1. ASSUME NEW a \in Bare(n.held), NEW b \in Bare(n.held), a # b
          PROVE  BlocksOf(a) \cap BlocksOf(b) = {}
      <3>1. CASE a \in Bare(m.held) /\ b \in Bare(m.held)
        BY <1>1, <2>1, <3>1 DEF Records, Disjoint
      <3>2. CASE a \in Bare(m.held) /\ b \in N
        BY <1>6, <1>9, <3>2
      <3>3. CASE a \in N /\ b \in Bare(m.held)
        BY <1>6, <1>9, <3>3
      <3>4. CASE a \in N /\ b \in N
        <4>1. PICK i \in bs : a = BareOf(Malloc(i)) /\ BlocksOf(a) = {i}
          BY <1>9, <3>4
        <4>2. PICK j \in bs : b = BareOf(Malloc(j)) /\ BlocksOf(b) = {j}
          BY <1>9, <3>4
        <4> QED
          BY <2>1, <4>1, <4>2
      <3> QED
        BY <1>8, <3>1, <3>2, <3>3, <3>4
    <2> QED
      BY <2>1 DEF Disjoint
  <1>13. Records(n.entries, Bare(n.held))
    <2>1. /\ Bare(n.held) \subseteq Allocation /\ \A a \in Bare(n.held) : a.blocks >= 1
      BY <1>1, <1>8, <1>9 DEF Records
    <2>2. n.entries \in [Cells -> SUBSET Flags]
      BY <1>5, MemoryFields
    <2> QED
      BY <1>10, <1>11, <1>12, <2>1, <2>2 DEF Records
  <1>14. ASSUME NEW a \in n.held, NEW b \in n.held, a.ptr = b.ptr PROVE a = b
    <2>1. \A x \in {Malloc(i) : i \in bs} : \E i \in bs : x = Malloc(i) /\ heap_address_to_block(x.ptr) = i
      BY <1>3, MallocFacts DEF BareOf
    <2>2. ASSUME NEW x \in m.held, NEW i \in bs PROVE x.ptr # Malloc(i).ptr
      <3> SUFFICES ASSUME x.ptr = Malloc(i).ptr PROVE FALSE
        OBVIOUS
      <3>1. x \in Pieces /\ BareOf(x) \in Bare(m.held) /\ BareOf(x).ptr = x.ptr
        BY <1>1 DEF BareOf, Bare
      <3>2. BareOf(x) \in Allocation /\ BareOf(x).blocks >= 1
        BY <3>1, PieceFacts
      <3>3. heap_address_to_block(x.ptr) \in BlocksOf(BareOf(x))
        BY <3>1, <3>2, AllocationFacts, CellsFacts
      <3>4. heap_address_to_block(x.ptr) = i
        BY <1>3, MallocFacts DEF BareOf
      <3> QED
        BY <1>6, <3>1, <3>3, <3>4
    <2>3. CASE a \in m.held /\ b \in m.held
      BY <1>14, <2>3 DEF MemOK
    <2> QED
      BY <1>2, <1>14, <2>1, <2>2, <2>3
  <1> QED
    BY <1>2, <1>5, <1>13, <1>14 DEF MemOK

LEMMA KernelApart == Kernel \notin Loads
  BY DEF Kernel, Loads

LEMMA InitInv == Init => IInv
  <1> SUFFICES ASSUME Init PROVE IInv
    OBVIOUS
  <1>1. PICK r : r = paging_new_4gb(Fresh, UserWritable, Kernel)
    OBVIOUS
  <1>2. PICK bs \in Burdens : mem = Burdened(r.mem, bs) /\ kernel_chunk = r.ptr
    BY <1>1 DEF Init, Fresh
  <1>3. PICK m : m = r.mem
    OBVIOUS
  <1>4. /\ Entries + 2 =< Total /\ Entries + 2 \in Nat
        /\ bs \in SUBSET ((Entries + 2)..(Total - 1))
    BY <1>2, LoadingAssumption, PageFacts
  <1>5. PICK D : /\ Grown(Fresh, m, D)
                 /\ \A a \in D : a.owner.load = Kernel
                 /\ r.ptr # NULL => \E d, t : SpaceAt(m, Kernel, r.ptr, d, t, PlainView(UserWritable))
    BY <1>1, <1>3, FreshMemory, UserFlagsType, NewSpace
  <1>6. r.ptr # NULL /\ Low(m.entries, Entries + 2)
    <2>1. /\ Uses(Fresh, m, Entries + 2)
          /\ \A k \in Nat : Low(Fresh.entries, k) /\ k + (Entries + 2) =< Total => r.ptr # NULL
      BY <1>1, <1>3, FreshMemory, UserFlagsType, NewSpace
    <2>2. 0 \in Nat /\ 0 + (Entries + 2) = Entries + 2
      BY <1>4
    <2> QED
      BY <1>4, <2>1, <2>2, FreshMemory DEF Uses
  <1>7. MemOK(m) /\ m.held = D
    BY <1>5, FreshMemory DEF Grown
  <1>8. MemOK(mem) /\ mem.held = m.held \cup {Malloc(b) : b \in bs} /\ mem.ram = m.ram
    BY <1>2, <1>3, <1>4, <1>6, <1>7, BurdenedOK
  <1>9. PICK d, t : SpaceAt(m, Kernel, r.ptr, d, t, PlainView(UserWritable))
    BY <1>5, <1>6
  <1>10. SpaceAt(mem, Kernel, kernel_chunk, d, t, PlainView(UserWritable))
    BY <1>2, <1>8, <1>9 DEF SpaceAt
  <1>11. Space(mem, Kernel, kernel_chunk, PlainView(UserWritable))
    <2>1. Dir(mem, kernel_chunk) = d /\ Tables(mem, kernel_chunk) = t
      BY <1>8, <1>10, SpaceFacts
    <2> QED
      BY <1>10, <2>1 DEF Space
  <1>12. procs \in [Loads -> Process] /\ crashed \in BOOLEAN
    BY NoProcessType DEF Init
  <1>13. ASSUME NEW l \in Loads PROVE Status(mem, l, procs[l], crashed)
    <2>1. procs[l].state = "none"
      BY DEF Init, NoProcess
    <2>2. \A a \in mem.held : a.owner.load = Kernel
      <3>1. \A b : Malloc(b).owner.load = Kernel
        BY DEF Malloc, Piece
      <3> QED
        BY <1>5, <1>7, <1>8, <3>1
    <2>3. Mine(mem, l) = {}
      BY <2>2, KernelApart DEF Mine
    <2> QED
      BY <2>1, <2>3 DEF Status
  <1> QED
    BY <1>8, <1>11, <1>12, <1>13 DEF IInv

-----------------------------------------------------------------------------
(* Steps                                                                   *)

\* A step of load l that keeps to what l holds leaves the rest of the
\* invariant alone.
LEMMA StepFrame ==
    ASSUME IInv, ~crashed, NEW l \in Loads, MemOK(mem'), Frame(mem, mem', l),
           NEW p \in Process, procs' = [procs EXCEPT ![l] = p], crashed' \in BOOLEAN,
           kernel_chunk' = kernel_chunk, Status(mem', l, p, crashed')
    PROVE  IInv'
  <1>1. MemOK(mem) /\ procs \in [Loads -> Process]
    BY DEF IInv
  <1>2. procs' \in [Loads -> Process] /\ procs'[l] = p /\ \A k \in Loads : k # l => procs'[k] = procs[k]
    BY <1>1
  <1>3. ASSUME NEW k \in Loads, k # l PROVE Status(mem', k, procs'[k], crashed')
    <2>1. Status(mem, k, procs[k], FALSE)
      <3>1. crashed = FALSE
        BY DEF IInv
      <3> QED
        BY <3>1 DEF IInv
    <2>2. Status(mem', k, procs[k], crashed')
      BY <1>1, <1>3, <2>1, FrameStatus
    <2> QED
      BY <1>2, <1>3, <2>2
  <1>4. Space(mem', Kernel, kernel_chunk', PlainView(UserWritable))
    <2>1. Space(mem, Kernel, kernel_chunk, PlainView(UserWritable))
      BY DEF IInv
    <2>2. Kernel # l /\ Kernel \in Loads \cup {Kernel}
      BY KernelApart
    <2> QED
      BY <1>1, <2>1, <2>2, FrameSpace
  <1> QED
    BY <1>2, <1>3, <1>4 DEF IInv

LEMMA LoadInv ==
    ASSUME NonzeroFiles, IInv, NEW l \in Loads, NEW f \in FileSet, Load(l, f)
    PROVE  IInv'
  <1>1. PICK r : /\ r = process_load_for_slot(mem, f, l)
                 /\ mem' = r.mem /\ procs' = [procs EXCEPT ![l] = r.process]
                 /\ crashed' = r.crash
    BY DEF Load
  <1>2. MemOK(mem) /\ Mine(mem, l) = {}
    <2>1. procs[l].state = "none"
      BY DEF Load, Loads
    <2> QED
      BY <2>1 DEF IInv, Status
  <1>3. Loaded(mem, l, f, r)
    BY <1>1, <1>2, LoadForSlot
  <1>4. ~crashed /\ kernel_chunk' = kernel_chunk
    BY DEF Load
  <1> QED
    BY <1>1, <1>3, <1>4, StepFrame DEF Loaded

LEMMA TerminateInv ==
    ASSUME IInv, NEW l \in Loads, Terminate(l)
    PROVE  IInv'
  <1>1. PICK p \in Process : p = procs[l]
    BY DEF IInv
  <1>2. PICK q : q = [p EXCEPT !.state = "ended"]
    OBVIOUS
  <1>3. MemOK(mem) /\ Alive(mem, l, p)
    BY <1>1 DEF IInv, Status, Terminate, Running
  <1>4. mem' = process_terminate(mem, p)
    BY <1>1 DEF Terminate
  <1>5. MemOK(mem') /\ Frame(mem, mem', l) /\ q \in Process /\ \A crash : Status(mem', l, q, crash)
    BY <1>2, <1>3, <1>4, TerminatedStatus
  <1>6. procs' = [procs EXCEPT ![l] = q]
    BY <1>1, <1>2 DEF Terminate, IInv
  <1>7. ~crashed /\ crashed' \in BOOLEAN /\ kernel_chunk' = kernel_chunk
    BY DEF Terminate, IInv
  <1> QED
    BY <1>5, <1>6, <1>7, StepFrame

LEMMA CopyStringInv ==
    ASSUME IInv, NEW l \in Loads, CopyString(l)
    PROVE  IInv'
  <1>1. PICK p \in Process : p = procs[l]
    BY DEF IInv
  <1>2. MemOK(mem) /\ Alive(mem, l, p) /\ p.state = "running"
    BY <1>1 DEF IInv, Status, CopyString, Running
  <1>3. mem' = copy_string_from_task(mem, p, l)
    BY <1>1 DEF CopyString
  <1>4. MemOK(mem') /\ Frame(mem, mem', l) /\ Alive(mem', l, p)
    BY <1>2, <1>3, Copied
  <1>5. Status(mem', l, p, crashed')
    BY <1>2, <1>4 DEF Status
  <1>6. procs' = [procs EXCEPT ![l] = p]
    BY <1>1 DEF CopyString, IInv
  <1>7. ~crashed /\ crashed' \in BOOLEAN /\ kernel_chunk' = kernel_chunk
    BY DEF CopyString, IInv
  <1> QED
    BY <1>4, <1>5, <1>6, <1>7, StepFrame

\* The invariant holds in every reachable state, whatever is loaded, fails,
\* ends or is copied from.
THEOREM Invariance == ASSUME NonzeroFiles PROVE Spec => []IInv
  <1>1. IInv /\ UNCHANGED vars => IInv'
    BY DEF IInv, vars
  <1>2. IInv /\ Next => IInv'
    BY LoadInv, TerminateInv, CopyStringInv DEF Next
  <1> QED
    BY <1>1, <1>2, InitInv, PTL DEF Spec

-----------------------------------------------------------------------------
(* What the invariant says                                                 *)

LEMMA InvTypeOK ==
    ASSUME IInv
    PROVE  TypeOK
  <1>1. mem \in Memory
    BY DEF IInv, MemOK
  <1>2. \A a \in mem.held : a.owner.load \in Loads \cup {Kernel}
    BY <1>1, MemoryFields DEF Pieces, Owners
  <1>3. \A l \in Loads : procs[l] \in Process
    BY DEF IInv
  <1> QED
    BY <1>1, <1>2, <1>3, MemoryFields DEF TypeOK, IInv, Process

\* Every load, and every step between loads, keeps the memory of the machine
\* and the table of processes well typed (process_load_for_slot,
\* process_terminate, copy_string_from_task): whatever kzalloc refuses, the
\* words written to page tables stay words of page tables.
THEOREM TypeCorrect == ASSUME NonzeroFiles PROVE Spec => []TypeOK
  <1>1. IInv => TypeOK
    BY InvTypeOK
  <1> QED
    BY <1>1, Invariance, PTL

LEMMA KindsMine ==
    ASSUME NEW l
    PROVE  Kinds(l) = {a.owner.kind : a \in Mine(mem, l)}
  BY DEF Kinds, Mine

LEMMA AliveKinds ==
    ASSUME NEW l \in Loads, NEW p, Alive(mem, l, p)
    PROVE  /\ {"process", "path", "stack", "task", "directory", "table", "chunk"} \subseteq Kinds(l)
           /\ Kinds(l) \cap {"handle", "descriptor", "tmp"} = {}
  <1>1. "process" \in Kinds(l) /\ "path" \in Kinds(l)
    BY KindsMine DEF Alive
  <1>2. ASSUME NEW kind, NEW q, NEW n, Piece(l, kind, q, n) \in mem.held PROVE kind \in Kinds(l)
    <2>1. PICK a : a = Piece(l, kind, q, n)
      OBVIOUS
    <2>2. a \in mem.held /\ a.owner.load = l /\ a.owner.kind = kind
      BY <1>2, <2>1 DEF Piece
    <2> QED
      BY <2>2 DEF Kinds
  <1>3. /\ Piece(l, "stack", p.stack, BlocksFor(StackSize)) \in mem.held
        /\ Piece(l, "task", p.task, 1) \in mem.held
    BY DEF Alive, LoadPieces
  <1>4. PICK c, d, t : SpacePieces(l, c, d, t) \subseteq mem.held
    BY DEF Alive, Space, SpaceAt
  <1>5. /\ Piece(l, "chunk", c, 1) \in mem.held /\ Piece(l, "directory", d, 1) \in mem.held
        /\ Piece(l, "table", t[0], 1) \in mem.held
    <2>1. 0 \in Indexes
      BY PageFacts
    <2> QED
      BY <1>4, <2>1 DEF SpacePieces
  <1>6. ASSUME NEW a \in Mine(mem, l) PROVE a.owner.kind \notin {"handle", "descriptor", "tmp"}
    <2>1. CASE a \in LoadPieces(l, p)
      BY <2>1, LoadKinds
    <2>2. CASE a \in SpacePieces(l, p.chunk, Dir(mem, p.chunk), Tables(mem, p.chunk))
      BY <2>2, SpaceKinds DEF PagingKinds
    <2>3. CASE a.owner.kind \in Rest(p)
      BY <2>3 DEF Rest, Attempt
    <2> QED
      BY <2>1, <2>2, <2>3 DEF Alive
  <1>7. Kinds(l) \cap {"handle", "descriptor", "tmp"} = {}
    BY <1>6, KindsMine
  <1> QED
    BY <1>1, <1>2, <1>3, <1>5, <1>7

\* The blocks that are not free are those of the pieces.
LEMMA TakenBlocks ==
    ASSUME NEW m, MemOK(m)
    PROVE  {c \in Blocks : ~IsFree(m.entries, c)} = Blocks \cap UNION {BlocksOf(a) : a \in m.held}
  <1>1. Records(m.entries, Bare(m.held))
    BY DEF MemOK
  <1>2. \A a \in m.held : BareOf(a) \in Bare(m.held) /\ BlocksOf(BareOf(a)) = BlocksOf(a)
    BY DEF Bare, BareOf, BlocksOf
  <1>3. \A b \in Bare(m.held) : \E a \in m.held : b = BareOf(a)
    BY DEF Bare, BareOf
  <1>4. ASSUME NEW c \in Blocks, ~IsFree(m.entries, c) PROVE \E a \in m.held : c \in BlocksOf(a)
    <2>1. m.entries[c] # {}
      BY <1>4 DEF IsFree
    <2>2. PICK b \in Bare(m.held) : c \in BlocksOf(b)
      BY <1>1, <2>1 DEF Records, Marked
    <2> QED
      BY <1>2, <1>3, <2>2
  <1>5. ASSUME NEW a \in m.held, NEW c \in BlocksOf(a) \cap Blocks PROVE ~IsFree(m.entries, c)
    BY <1>1, <1>2 DEF Records, Marked, IsFree, TakenEntry
  <1> QED
    BY <1>4, <1>5

LEMMA InvLeftBehind ==
    ASSUME IInv
    PROVE  LeftBehind
  <1>1. MemOK(mem)
    BY DEF IInv
  <1>2. ASSUME NEW l \in Loads
        PROVE  CASE
              procs[l].state = "none" -> Kinds(l) = {}
           [] procs[l].state = "running" ->
                /\ {"process", "path", "stack", "task", "directory", "table", "chunk"} \subseteq Kinds(l)
                /\ Kinds(l) \cap {"handle", "descriptor", "tmp"} = {}
           [] procs[l].state = "ended" ->
                /\ {"process", "path"} \subseteq Kinds(l)
                /\ Kinds(l) \subseteq {"process", "path"} \cup Attempt(procs[l])
           [] procs[l].state = "failed" ->
                crashed \/ Kinds(l) \subseteq {"process", "path", "handle", "elf_file", "elf_memory",
                                               "binary", "stack"}
    <2>1. PICK p \in Process : p = procs[l]
      BY DEF IInv
    <2>2. p.state \in {"none", "running", "failed", "ended"}
      BY DEF Process
    <2>3. Status(mem, l, p, crashed)
      BY <2>1 DEF IInv
    <2>4. CASE p.state = "none"
      BY <2>1, <2>3, <2>4, KindsMine DEF Status
    <2>5. CASE p.state = "running"
      BY <2>1, <2>3, <2>5, AliveKinds DEF Status
    <2>6. CASE p.state = "ended"
      <3>1. {"process", "path"} \subseteq Kinds(l) /\ Kinds(l) \subseteq Rest(p)
        BY <2>3, <2>6, KindsMine DEF Status
      <3> QED
        BY <2>1, <2>6, <3>1 DEF Rest
    <2>7. CASE p.state = "failed"
      <3>1. crashed \/ Kinds(l) \subseteq FailedKinds
        BY <2>3, <2>7, KindsMine DEF Status
      <3> QED
        BY <2>1, <2>7, <3>1 DEF FailedKinds
    <2> QED
      BY <2>2, <2>4, <2>5, <2>6, <2>7
  <1>3. \A a, b \in mem.held : a # b => PagesHeld(a) \cap PagesHeld(b) = {}
    BY <1>1, HeldDisjoint
  <1>4. {c \in Blocks : ~IsFree(mem.entries, c)} = Blocks \cap UNION {BlocksOf(a) : a \in mem.held}
    BY <1>1, TakenBlocks
  <1> QED
    BY <1>2, <1>3, <1>4 DEF LeftBehind

\* However many allocations fail on the way, a load leaves nothing behind but
\* the path that fopen parsed, what process_load_for_slot says it does not
\* free, and a handle without a descriptor; a process that has ended keeps
\* only its struct process, the path and what the try to load a raw binary as
\* ELF left (fclose, process_terminate, elf_close, task_free,
\* paging_free_4gb); nothing is freed twice and no block is taken that nobody
\* holds.
THEOREM LeavesBehind == ASSUME NonzeroFiles PROVE Spec => []LeftBehind
  <1>1. IInv => LeftBehind
    BY InvLeftBehind
  <1> QED
    BY <1>1, Invariance, PTL

-----------------------------------------------------------------------------
(* The pages that bytes lie on                                             *)

\* The pages that n bytes from offset r of a page on lie on
Span(r, n) == IF (r + n) % PageSize = 0 THEN PageOf(r + n) ELSE PageOf(r + n) + 1

LEMMA SpanSplit ==
    ASSUME NEW r \in 0..(PageSize - 1), NEW n \in Nat
    PROVE  \E z \in Nat : \E s \in 0..(PageSize - 1) :
               r + n = z * PageSize + s /\ Span(r, n) = IF s = 0 THEN z ELSE z + 1
  <1>1. PageSize \in Nat \ {0} /\ r \in Nat /\ r + n \in Nat /\ r + n \in Int
    BY PageFacts
  <1>2. PICK z \in Int, s \in 0..(PageSize - 1) :
            r + n = z * PageSize + s /\ PageOf(r + n) = z /\ (r + n) % PageSize = s
    BY <1>1, PageSplit
  <1>3. z >= 0
    BY <1>1, <1>2, Z3
  <1> QED
    BY <1>2, <1>3 DEF Span

LEMMA IntervalCount ==
    ASSUME NEW a \in Int, NEW c \in Nat
    PROVE  Cardinality(a..(a + c - 1)) = c
  <1>1. PICK b \in Int : b = a + c - 1
    OBVIOUS
  <1>2. Cardinality(a..b) = IF a > b THEN 0 ELSE b - a + 1
    BY FS_Interval
  <1> QED
    BY <1>1, <1>2

LEMMA Distribute ==
    ASSUME NEW x \in Int, NEW y \in Int, NEW n \in Int
    PROVE  (x + y) * n = x * n + y * n /\ x * n \in Int /\ y * n \in Int
  BY Z3

LEMMA Regroup ==
    ASSUME NEW x \in Int, NEW y \in Int, NEW n \in Int, NEW s \in Int
    PROVE  (x + y) * n + s = x * n + (y * n + s)
  BY Z3

LEMMA PagesOfSpan ==
    ASSUME NEW a \in Int, NEW r \in 0..(PageSize - 1), NEW n \in Nat
    PROVE  /\ Span(r, n) \in Nat
           /\ PagesOf(a * PageSize + r, n) = a..(a + Span(r, n) - 1)
           /\ Cardinality(PagesOf(a * PageSize + r, n)) = Span(r, n)
  <1>1. PageSize \in Nat \ {0} /\ PageSize \in Int /\ r \in Int
    BY PageFacts
  <1>2. PICK z \in Nat, s \in 0..(PageSize - 1) :
            r + n = z * PageSize + s /\ Span(r, n) = IF s = 0 THEN z ELSE z + 1
    BY SpanSplit
  <1>3. PICK x \in Int : x = a * PageSize + r
    BY <1>1, Z3
  <1>4. PageOf(x) = a /\ x % PageSize = r
    BY <1>3, PageOfSum
  <1>5. CASE n = 0
    <2>1. r = 0 => z = 0 /\ s = 0
      BY <1>1, <1>2, <1>5, Z3
    <2>2. r # 0 => z = 0 /\ s = r
      BY <1>1, <1>2, <1>5, Z3
    <2>3. PagesOf(x, n) = a..(IF r = 0 THEN a - 1 ELSE a)
      <3>1. x + n - 0 = x
        BY <1>3, <1>5
      <3> QED
        BY <1>4, <1>5, <3>1 DEF PagesOf
    <2>4. PagesOf(x, n) = a..(a + Span(r, n) - 1) /\ Span(r, n) \in Nat
      BY <1>2, <2>1, <2>2, <2>3
    <2> QED
      BY <1>3, <2>4, IntervalCount
  <1>6. CASE n # 0
    <2>1. PICK y \in Int : y = x + n - 1
      BY <1>3
    <2>2. s # 0 => y = (a + z) * PageSize + (s - 1)
      BY <1>1, <1>2, <1>3, <2>1, Z3
    <2>3. s = 0 => y = (a + z - 1) * PageSize + (PageSize - 1)
      BY <1>1, <1>2, <1>3, <2>1, Z3
    <2>4. PageOf(y) = IF s = 0 THEN a + z - 1 ELSE a + z
      <3>1. CASE s # 0
        <4>1. s - 1 \in 0..(PageSize - 1) /\ a + z \in Int
          BY <1>1, <3>1
        <4> QED
          BY <2>2, <3>1, <4>1, PageOfSum
      <3>2. CASE s = 0
        <4>1. PageSize - 1 \in 0..(PageSize - 1) /\ a + z - 1 \in Int
          BY <1>1
        <4> QED
          BY <2>3, <3>2, <4>1, PageOfSum
      <3> QED
        BY <3>1, <3>2
    <2>5. PagesOf(x, n) = a..PageOf(y)
      BY <1>4, <1>6, <2>1 DEF PagesOf
    <2>6. PagesOf(x, n) = a..(a + Span(r, n) - 1) /\ Span(r, n) \in Nat
      BY <1>2, <2>4, <2>5
    <2> QED
      BY <1>3, <2>6, IntervalCount
  <1> QED
    BY <1>5, <1>6

\* What paging_map_to maps is never more than that, and is all of it unless
\* the end wraps around.
LEMMA CountSpan ==
    ASSUME NEW phys \in Bytes, NEW n \in Nat
    PROVE  /\ phys % PageSize \in 0..(PageSize - 1)
           /\ PageOf(phys) \in Pages /\ PageOf(phys) \in Int
           /\ Span(phys % PageSize, n) \in Nat
           /\ PagesOf(phys, n) = PageOf(phys)..(PageOf(phys) + Span(phys % PageSize, n) - 1)
           /\ Cardinality(PagesOf(phys, n)) = Span(phys % PageSize, n)
           /\ CountOf(phys, n) \in Int /\ CountOf(phys, n) =< Span(phys % PageSize, n)
           /\ PageOf(phys) + CountOf(phys, n) \in Pages
           /\ phys + n =< Word - PageSize => CountOf(phys, n) = Span(phys % PageSize, n)
  <1>1. /\ PageSize \in Nat \ {0} /\ PageCount \in Nat \ {0} /\ Word \in Nat \ {0}
        /\ Word = PageCount * PageSize /\ Pages = 0..(PageCount - 1)
    BY PageFacts
  <1>2. PICK a \in Pages, r \in 0..(PageSize - 1) :
            a = PageOf(phys) /\ phys = a * PageSize + r /\ phys % PageSize = r
    BY LowerPage
  <1>3. a \in Int /\ r \in Int /\ phys \in Nat
    BY <1>1, <1>2 DEF Bytes
  <1>4. PICK z \in Nat, s \in 0..(PageSize - 1) :
            r + n = z * PageSize + s /\ Span(r, n) = IF s = 0 THEN z ELSE z + 1
    BY SpanSplit
  <1>5. PICK e \in Pages : e = UpperPage((phys + n) % Word) /\ CountOf(phys, n) = e - a
    BY <1>2, EndPage
  <1>6. phys + n \in Int
    BY <1>3
  <1>7. PICK t \in Int, y \in 0..(Word - 1) : phys + n = t * Word + y /\ (phys + n) % Word = y
    BY <1>1, <1>6, DivMod, Zenon
  <1>8. t >= 0
    BY <1>1, <1>3, <1>7, Z3
  <1>b. phys + n = (a + z) * PageSize + s
    <2>1. (a + z) * PageSize = a * PageSize + z * PageSize /\ a * PageSize \in Int /\ z * PageSize \in Int
      <3>1. a \in Int /\ z \in Int /\ PageSize \in Int
        BY <1>1, <1>3
      <3> QED
        BY <3>1, Distribute
    <2>2. PICK u \in Int, v \in Int : u = a * PageSize /\ v = z * PageSize
      BY <2>1
    <2>3. phys = u + r /\ r + n = v + s
      BY <1>2, <1>4, <2>2
    <2>4. s \in Int
      BY <1>1
    <2>5. phys + n = (u + v) + s
      BY <1>3, <2>3, <2>4
    <2> QED
      BY <2>1, <2>2, <2>5
  <1>9. y = (a + z - t * PageCount) * PageSize + s
    <2>1. phys + n = (a + z) * PageSize + s
      BY <1>b
    <2>2. phys + n = (t * PageCount) * PageSize + y
      BY <1>1, <1>7, Z3
    <2> QED
      BY <1>1, <1>3, <1>7, <2>1, <2>2, Z3
  <1>10. PICK b \in Int : b = a + z - t * PageCount
    BY <1>1, <1>3, Z3
  <1>11. PageOf(y) = b /\ y % PageSize = s
    BY <1>9, <1>10, PageOfSum
  <1>12. b =< a + z /\ b >= 0
    <2>1. t * PageCount >= 0
      BY <1>1, <1>8, Z3
    <2>2. y \in Bytes
      BY <1>7 DEF Bytes
    <2>3. b \in Pages
      BY <1>11, <2>2, LowerPage
    <2>4. PICK h \in Int : h = t * PageCount
      BY <1>1, Z3
    <2> QED
      BY <1>1, <1>3, <1>10, <2>1, <2>3, <2>4
  <1>13. e =< IF s = 0 THEN b ELSE b + 1
    <2>1. s # 0 => e = (b + 1) % PageCount
      BY <1>5, <1>7, <1>11 DEF UpperPage
    <2>2. s = 0 => e = b
      BY <1>5, <1>7, <1>11 DEF UpperPage
    <2>3. (b + 1) % PageCount =< b + 1
      BY <1>1, <1>12, Z3
    <2> QED
      BY <2>1, <2>2, <2>3
  <1>14. e - a =< Span(r, n) /\ e - a \in Int
    BY <1>1, <1>3, <1>4, <1>5, <1>12, <1>13
  <1>15. ASSUME phys + n =< Word - PageSize PROVE e - a = Span(r, n)
    <2>1. phys + n \in 0..(Word - 1)
      BY <1>1, <1>3, <1>15
    <2>2. y = phys + n
      <3>1. phys + n = 0 * Word + (phys + n)
        BY <1>1, <1>6
      <3>2. (phys + n) % Word = phys + n
        BY <1>1, <1>6, <2>1, <3>1, ModUnique
      <3> QED
        BY <1>7, <3>2
    <2>3. y = (a + z) * PageSize + s
      BY <1>b, <2>2
    <2>4. b = a + z
      <3>1. a + z \in Int
        BY <1>3
      <3> QED
        BY <1>11, <2>3, <3>1, PageOfSum
    <2>5. (a + z) * PageSize + s =< (PageCount - 1) * PageSize
      <3>1. Word - PageSize = (PageCount - 1) * PageSize
        BY <1>1, Z3
      <3> QED
        BY <1>15, <2>2, <2>3, <3>1
    <2>6. s # 0 => a + z + 1 =< PageCount - 1
      BY <1>1, <1>3, <2>5, Z3
    <2>7. s # 0 => (b + 1) % PageCount = b + 1
      <3> SUFFICES ASSUME s # 0 PROVE (b + 1) % PageCount = b + 1
        OBVIOUS
      <3>1. b + 1 \in 0..(PageCount - 1) /\ b + 1 \in Int /\ b + 1 = 0 * PageCount + (b + 1)
        BY <1>1, <1>12, <2>4, <2>6
      <3> QED
        BY <1>1, <3>1, ModUnique
    <2>8. e = IF s = 0 THEN b ELSE b + 1
      BY <1>5, <1>7, <1>11, <2>7 DEF UpperPage
    <2> QED
      BY <1>3, <1>4, <2>4, <2>8
  <1>16. /\ Span(r, n) \in Nat
         /\ PagesOf(phys, n) = a..(a + Span(r, n) - 1)
         /\ Cardinality(PagesOf(phys, n)) = Span(r, n)
    <2>1. /\ Span(r, n) \in Nat
          /\ PagesOf(a * PageSize + r, n) = a..(a + Span(r, n) - 1)
          /\ Cardinality(PagesOf(a * PageSize + r, n)) = Span(r, n)
      BY <1>3, PagesOfSpan
    <2> QED
      BY <1>2, <2>1
  <1>17. a + (e - a) \in Pages
    BY <1>1, <1>3, <1>5
  <1> QED
    BY <1>2, <1>3, <1>5, <1>14, <1>15, <1>16, <1>17

-----------------------------------------------------------------------------
(* What a mapped page is                                                   *)

\* Page w of a mapped range is its k-th page, or is as it was.
MappedTo(view, virt, phys, n, flags, w, k) ==
    /\ k \in 0..(PageCount - 1)
    /\ Mapped(view, virt, phys, n, flags)[w] =
        IF k < CountOf(phys, n) THEN [page |-> PageOf(phys) + k, flags |-> flags] ELSE view[w]

LEMMA MappedAt ==
    ASSUME NEW view, NEW virt \in Bytes, NEW phys \in Bytes, NEW n \in Nat,
           NEW flags, NEW w \in Pages, NEW k, k = (w - PageOf(virt)) % PageCount
    PROVE  MappedTo(view, virt, phys, n, flags, w, k)
  <1>1. PageCount \in Nat \ {0} /\ Pages = 0..(PageCount - 1)
    BY PageFacts
  <1>2. PageOf(virt) \in Int /\ w - PageOf(virt) \in Int
    BY <1>1, LowerPage
  <1>3. k \in 0..(PageCount - 1)
    BY <1>1, <1>2, DivMod
  <1>4. /\ PageOf(phys) \in Nat /\ CountOf(phys, n) \in Int
        /\ PageOf(phys) + CountOf(phys, n) =< PageCount - 1
    <2>1. PageOf(phys) \in Pages /\ CountOf(phys, n) \in Int /\ PageOf(phys) + CountOf(phys, n) \in Pages
      BY CountSpan
    <2> QED
      BY <1>1, <2>1
  <1>5. ASSUME k < CountOf(phys, n)
        PROVE  (PageOf(phys) + k) % PageCount = PageOf(phys) + k
    <2>1. /\ PageOf(phys) + k \in 0..(PageCount - 1) /\ PageOf(phys) + k \in Int
          /\ PageOf(phys) + k = 0 * PageCount + (PageOf(phys) + k)
      BY <1>1, <1>3, <1>4, <1>5
    <2> QED
      BY <1>1, <2>1, ModUnique
  <1>6. Mapped(view, virt, phys, n, flags)[w] =
            IF k < CountOf(phys, n) THEN [page |-> (PageOf(phys) + k) % PageCount, flags |-> flags] ELSE view[w]
    BY DEF Mapped, Ranged
  <1> QED
    BY <1>3, <1>5, <1>6 DEF MappedTo

\* The same when the virtual addresses do not wrap around
LEMMA MappedInside ==
    ASSUME NEW view, NEW virt \in Bytes, NEW phys \in Bytes, NEW n \in Nat,
           NEW flags, NEW w \in Pages, PageOf(virt) + CountOf(phys, n) =< PageCount
    PROVE  Mapped(view, virt, phys, n, flags)[w] =
              IF w - PageOf(virt) \in 0..(CountOf(phys, n) - 1)
              THEN [page |-> PageOf(phys) + w - PageOf(virt), flags |-> flags] ELSE view[w]
  <1>1. PICK k : k = (w - PageOf(virt)) % PageCount
    OBVIOUS
  <1>2. PageCount \in Nat \ {0} /\ Pages = 0..(PageCount - 1)
    BY PageFacts
  <1>3. PICK v \in 0..(PageCount - 1) : v = PageOf(virt)
    BY <1>2, LowerPage
  <1>4. /\ k \in 0..(PageCount - 1)
        /\ Mapped(view, virt, phys, n, flags)[w] =
                IF k < CountOf(phys, n) THEN [page |-> PageOf(phys) + k, flags |-> flags] ELSE view[w]
    <2>1. MappedTo(view, virt, phys, n, flags, w, k)
      BY <1>1, MappedAt
    <2> QED
      BY <2>1 DEF MappedTo
  <1>5. CountOf(phys, n) \in Int /\ PageOf(phys) \in Int
    BY CountSpan
  <1>6. CASE w >= v
    <2>1. w - v \in 0..(PageCount - 1) /\ w - v \in Int /\ w - v = 0 * PageCount + (w - v)
      BY <1>2, <1>3, <1>6
    <2>a. PICK x \in Int : x = w - v
      BY <2>1
    <2>b. x \in 0..(PageCount - 1) /\ 0 \in Int /\ x = 0 * PageCount + x
      BY <1>2, <2>1, <2>a
    <2>c. x % PageCount = x
      BY <1>2, <2>b, ModUnique
    <2>2. k = w - v
      BY <1>1, <1>3, <2>a, <2>c
    <2>3. k < CountOf(phys, n) <=> w - v \in 0..(CountOf(phys, n) - 1)
      BY <1>5, <2>1, <2>2
    <2>4. PageOf(phys) + k = PageOf(phys) + w - v
      BY <1>2, <1>5, <2>2
    <2> QED
      BY <1>3, <1>4, <2>3, <2>4
  <1>7. CASE w < v
    <2>1. /\ w - v + PageCount \in 0..(PageCount - 1) /\ w - v \in Int /\ -1 \in Int
          /\ w - v = -1 * PageCount + (w - v + PageCount)
      BY <1>2, <1>3, <1>7
    <2>a. PICK x \in Int, y \in 0..(PageCount - 1) : x = w - v /\ y = w - v + PageCount
      BY <2>1
    <2>b. -1 \in Int /\ x = -1 * PageCount + y
      BY <1>2, <2>1, <2>a
    <2>c. x % PageCount = y
      BY <1>2, <2>b, ModUnique
    <2>2. k = w - v + PageCount
      BY <1>1, <1>3, <2>a, <2>c
    <2>3. ~(k < CountOf(phys, n)) /\ w - v \notin 0..(CountOf(phys, n) - 1)
      BY <1>2, <1>3, <1>5, <1>7, <2>2
    <2> QED
      BY <1>3, <1>4, <2>3
  <1> QED
    BY <1>2, <1>3, <1>6, <1>7

-----------------------------------------------------------------------------
(* Isolation                                                               *)

\* The pages that can be written through a view are in S.
Writes(view, S) == \A v \in Pages : "WRITEABLE" \in view[v].flags => view[v].page \in S

LEMMA PlainWrites ==
    ASSUME NEW S
    PROVE  Writes(PlainView(UserFlags), S)
  BY DEF Writes, PlainView, Plain, UserFlags

LEMMA MappedWrites ==
    ASSUME NEW view, NEW S, Writes(view, S), NEW virt \in Bytes, NEW phys \in Bytes, NEW n \in Nat,
           NEW flags, "WRITEABLE" \in flags => PagesOf(phys, n) \subseteq S
    PROVE  Writes(Mapped(view, virt, phys, n, flags), S)
  <1> SUFFICES ASSUME NEW w \in Pages, "WRITEABLE" \in Mapped(view, virt, phys, n, flags)[w].flags
               PROVE  Mapped(view, virt, phys, n, flags)[w].page \in S
    BY DEF Writes
  <1>1. PICK k : k = (w - PageOf(virt)) % PageCount
    OBVIOUS
  <1>2. PICK e : e = Mapped(view, virt, phys, n, flags)[w]
    OBVIOUS
  <1>3. /\ k \in 0..(PageCount - 1)
        /\ e = IF k < CountOf(phys, n) THEN [page |-> PageOf(phys) + k, flags |-> flags] ELSE view[w]
    <2>1. /\ k \in 0..(PageCount - 1)
          /\ Mapped(view, virt, phys, n, flags)[w] =
                IF k < CountOf(phys, n) THEN [page |-> PageOf(phys) + k, flags |-> flags] ELSE view[w]
      <3>1. MappedTo(view, virt, phys, n, flags, w, k)
        BY <1>1, MappedAt
      <3> QED
        BY <3>1 DEF MappedTo
    <2> QED
      BY <1>2, <2>1
  <1>4. CASE k < CountOf(phys, n)
    <2>1. e.page = PageOf(phys) + k /\ e.flags = flags
      BY <1>3, <1>4
    <2>2. PageOf(phys) + k \in PagesOf(phys, n)
      <3>1. /\ PageOf(phys) \in Int /\ Span(phys % PageSize, n) \in Nat /\ CountOf(phys, n) \in Int
            /\ CountOf(phys, n) =< Span(phys % PageSize, n)
            /\ PagesOf(phys, n) = PageOf(phys)..(PageOf(phys) + Span(phys % PageSize, n) - 1)
        BY CountSpan
      <3>2. k \in Nat
        BY <1>3, PageFacts
      <3> QED
        BY <1>4, <3>1, <3>2
    <2> QED
      BY <1>2, <2>1, <2>2
  <1>5. CASE ~(k < CountOf(phys, n))
    <2>1. e = view[w]
      BY <1>3, <1>5
    <2> QED
      BY <1>2, <2>1 DEF Writes
  <1> QED
    BY <1>4, <1>5

\* The pages of a request's bytes are those of the blocks it is given.
LEMMA RequestPages ==
    ASSUME NEW size \in Request
    PROVE  /\ size \in Nat /\ BlocksFor(size) \in 1..Slack
           /\ Span(0, size) = BlocksFor(size)
           /\ \A p \in Addresses : PagesOf(p, size) = PageOf(p)..(PageOf(p) + BlocksFor(size) - 1)
           /\ PagesOf(0, size) = 0..(BlocksFor(size) - 1)
  <1>1. size \in Nat /\ BlocksFor(size) \in 1..Slack /\ PageSize \in Nat \ {0} /\ PageSize = BlockSize
    BY PageFacts DEF Request
  <1>2. PICK q \in Nat, r \in 0..(BlockSize - 1) :
            size = q * BlockSize + r /\ BlocksFor(size) = IF r = 0 THEN q ELSE q + 1
    BY RoundedUp
  <1>3. PageOf(size) = q /\ size % PageSize = r
    <2>1. q \in Int /\ r \in 0..(PageSize - 1) /\ size = q * PageSize + r
      BY <1>1, <1>2
    <2>2. PageOf(q * PageSize + r) = q /\ (q * PageSize + r) % PageSize = r
      BY <2>1, PageOfSum
    <2> QED
      BY <2>1, <2>2
  <1>4. Span(0, size) = BlocksFor(size)
    BY <1>1, <1>2, <1>3 DEF Span
  <1>5. 0 \in 0..(PageSize - 1)
    BY <1>1
  <1>6. ASSUME NEW p \in Addresses
        PROVE  PagesOf(p, size) = PageOf(p)..(PageOf(p) + BlocksFor(size) - 1)
    <2>1. PICK a \in Int : a = PageOf(p) /\ p = a * PageSize
      BY AddressPage, PageFacts
    <2>2. p = a * PageSize + 0
      BY <1>1, <2>1, AddressPage
    <2>3. PagesOf(p, size) = a..(a + Span(0, size) - 1)
      BY <1>1, <1>5, <2>2, PagesOfSpan
    <2> QED
      BY <1>4, <2>1, <2>3
  <1>7. PagesOf(0, size) = 0..(0 + Span(0, size) - 1)
    <2>1. 0 * PageSize + 0 = 0
      BY <1>1
    <2> QED
      BY <1>1, <1>5, <2>1, PagesOfSpan
  <1>8. 0 + BlocksFor(size) - 1 = BlocksFor(size) - 1
    BY <1>1
  <1> QED
    BY <1>1, <1>4, <1>6, <1>7, <1>8

\* The segment of a file at p lies in the file's memory if it does in the
\* file.
LEMMA SegmentPages ==
    ASSUME NEW size \in Request, NEW p \in Addresses, NEW offset \in Bytes, NEW n \in Nat,
           PagesOf(offset, n) \subseteq PagesOf(0, size)
    PROVE  PagesOf((p + offset) % Word, n) \subseteq PageOf(p)..(PageOf(p) + BlocksFor(size) - 1)
  <1>1. /\ PageSize \in Nat \ {0} /\ PageCount \in Nat \ {0} /\ Word \in Nat \ {0}
        /\ Word = PageCount * PageSize /\ FirstPage + Total + Slack =< PageCount
        /\ FirstPage \in Nat /\ Total \in Nat /\ Slack \in Nat /\ Pages = 0..(PageCount - 1)
    BY PageFacts
  <1>2. BlocksFor(size) \in 1..Slack /\ PagesOf(0, size) = 0..(BlocksFor(size) - 1)
    BY RequestPages
  <1>3. PICK a \in FirstPage..(FirstPage + Total - 1) : a = PageOf(p) /\ p = a * PageSize
    BY AddressPage
  <1>4. PICK b \in Pages, r \in 0..(PageSize - 1) :
            b = PageOf(offset) /\ offset = b * PageSize + r /\ offset % PageSize = r
    BY LowerPage
  <1>5. Span(r, n) \in Nat /\ PagesOf(offset, n) = b..(b + Span(r, n) - 1)
    <2>1. b \in Int
      BY <1>1
    <2>2. Span(r, n) \in Nat /\ PagesOf(b * PageSize + r, n) = b..(b + Span(r, n) - 1)
      BY <2>1, PagesOfSpan
    <2> QED
      BY <1>4, <2>2
  <1>6. p + offset \in Int
    BY AddressPage DEF Bytes
  <1>7. PICK x \in Bytes : x = (p + offset) % Word
    BY <1>6, ModByte
  <1>8. p + offset = (a + b) * PageSize + r
    BY <1>1, <1>3, <1>4, Z3
  <1>9. x % PageSize = r
    <2>1. Word % PageSize = 0
      BY <1>1, Multiple
    <2>2. x % PageSize = (p + offset) % PageSize
      BY <1>1, <1>6, <1>7, <2>1, ModMod
    <2>3. a + b \in Int
      BY <1>1, <1>3, <1>4
    <2> QED
      BY <1>8, <2>2, <2>3, PageOfSum
  <1>10. PagesOf(x, n) = PageOf(x)..(PageOf(x) + Span(r, n) - 1) /\ PageOf(x) \in Int
    BY <1>9, CountSpan
  <1>11. CASE Span(r, n) = 0
    BY <1>7, <1>10, <1>11
  <1>12. CASE Span(r, n) # 0
    <2>1. b \in PagesOf(offset, n) /\ b + Span(r, n) - 1 \in PagesOf(offset, n)
      <3>1. PICK h \in Nat : h = Span(r, n)
        BY <1>5
      <3>2. b \in Int /\ h # 0 /\ PagesOf(offset, n) = b..(b + h - 1)
        BY <1>1, <1>5, <1>12, <3>1
      <3>3. b \in b..(b + h - 1) /\ b + h - 1 \in b..(b + h - 1)
        BY <3>2
      <3> QED
        BY <3>1, <3>2, <3>3
    <2>2. b \in 0..(BlocksFor(size) - 1) /\ b + Span(r, n) - 1 \in 0..(BlocksFor(size) - 1)
      BY <1>2, <2>1
    <2>3. a + b \in 0..(PageCount - 1) /\ a + b \in Int
      BY <1>1, <1>2, <1>3, <2>2
    <2>4. p + offset \in 0..(Word - 1)
      <3>1. (a + b) * PageSize + r < PageCount * PageSize /\ (a + b) * PageSize + r >= 0
        BY <1>1, <2>3, Z3
      <3> QED
        BY <1>1, <1>6, <1>8, <3>1
    <2>5. x = p + offset
      <3>1. p + offset = 0 * Word + (p + offset)
        BY <1>1, <1>6
      <3>2. (p + offset) % Word = p + offset
        BY <1>1, <1>6, <2>4, <3>1, ModUnique
      <3> QED
        BY <1>7, <3>2
    <2>6. PageOf(x) = a + b
      BY <1>8, <2>3, <2>5, PageOfSum
    <2>7. PICK k \in 1..Slack, h \in Nat : k = BlocksFor(size) /\ h = Span(r, n)
      BY <1>2, <1>5
    <2>8. b \in Int /\ a \in Int
      BY <1>1, <1>3
    <2>9. (a + b)..(a + b + h - 1) \subseteq a..(a + k - 1)
      BY <2>2, <2>7, <2>8
    <2>10. PagesOf(x, n) = (a + b)..(a + b + h - 1)
      BY <1>10, <2>6, <2>7
    <2> QED
      BY <1>3, <1>7, <2>7, <2>9, <2>10
  <1> QED
    BY <1>11, <1>12

LEMMA ElfWrites ==
    ASSUME NEW f \in FileSet, f.size \in Request, Contained(f), NEW memory \in Addresses, NEW S,
           PageOf(memory)..(PageOf(memory) + BlocksFor(f.size) - 1) \subseteq S
    PROVE  Writes(ElfView(f, memory), S)
  <1>1. memory \in Places
    BY DEF Places
  <1>2. PICK n \in Nat : n = Len(f.phdrs)
    BY FileFacts
  <1>3. PICK g \in [0..n -> [Pages -> Entry]] :
            /\ g[0] = PlainView(UserFlags)
            /\ \A i \in 1..n : g[i] = Segmented(g[i - 1], memory, f.phdrs[i])
            /\ ElfView(f, memory) = g[n]
    BY <1>1, <1>2, ElfViewLoop
  <1> DEFINE T == {w \in [Pages -> Entry] : Writes(w, S)}
  <1>4. g[0] \in T
    BY <1>2, <1>3, PlainWrites
  <1>5. ASSUME NEW i \in 1..n, g[i - 1] \in T PROVE g[i] \in T
    <2>1. PICK ph : ph = f.phdrs[i]
      OBVIOUS
    <2>2. /\ ph.offset \in Bytes /\ ph.vaddr \in Bytes /\ ph.memsz \in Nat /\ i \in DOMAIN f.phdrs
          /\ ph.offset \in Nat
      BY <1>2, <2>1, FileFacts
    <2>3. PhysOf(memory, ph) \in Bytes
      BY <1>1, <2>2, PhysByte
    <2>4. ph.w => PagesOf(PhysOf(memory, ph), ph.memsz) \subseteq S
      <3> SUFFICES ASSUME ph.w PROVE PagesOf(PhysOf(memory, ph), ph.memsz) \subseteq S
        OBVIOUS
      <3>1. PagesOf(ph.offset, ph.memsz) \subseteq PagesOf(0, f.size)
        BY <2>1, <2>2 DEF Contained
      <3>2. PagesOf((memory + ph.offset) % Word, ph.memsz)
                \subseteq PageOf(memory)..(PageOf(memory) + BlocksFor(f.size) - 1)
        BY <2>2, <3>1, SegmentPages
      <3> QED
        BY <3>2 DEF PhysOf
    <2>5. "WRITEABLE" \in SegmentFlags(ph) => ph.w
      BY DEF SegmentFlags, UserFlags
    <2>6. Writes(g[i - 1], S)
      BY <1>5
    <2>7. Writes(Segmented(g[i - 1], memory, ph), S)
      BY <2>2, <2>3, <2>4, <2>5, <2>6, MappedWrites DEF Segmented
    <2> QED
      BY <1>3, <2>1, <2>7
  <1>6. g[n] \in T
    <2> HIDE DEF T
    <2>1. \A i \in 0..n : g[i] \in T
      BY <1>2, <1>4, <1>5, LoopInvariant
    <2> QED
      BY <1>2, <2>1
  <1> QED
    BY <1>3, <1>6

LEMMA WalkView ==
    ASSUME NEW k, NEW c, NEW view, Space(mem, k, c, view), NEW v \in Pages
    PROVE  Walk(c, v) = view[v]
  BY GetPage DEF Space, Walk, Dir

\* A raw binary may write the screen.
LEMMA OwnScreen ==
    ASSUME NEW l, procs[l].filetype = "BINARY"
    PROVE  PagesOf(VideoAddress, VideoSize) \subseteq Own(l)
  <1> DEFINE X == UNION {PagesHeld(a) : a \in {b \in mem.held :
                      /\ b.owner.load = l
                      /\ b.owner.kind \in {"elf_memory", "binary", "stack"}}}
  <1>1. Own(l) = X \cup (IF procs[l].filetype = "BINARY" THEN PagesOf(VideoAddress, VideoSize) ELSE {})
    BY DEF Own
  <1> HIDE DEF X
  <1> QED
    BY <1>1

\* The stack and the file of a process fill whole blocks.
LEMMA RequestSizes ==
    ASSUME NonzeroFiles
    PROVE  /\ StackSize \in Request
           /\ \A f \in FileSet : f.size > 0 => f.size \in Request
  <1>1. StackSize \in Request
    <2>1. StackSize =< HeapStart /\ StackSize \in Nat
      <3>1. /\ StackEnd \in 0..(Word - 1) /\ ProgramAddress \in 0..(Word - 1)
            /\ StackSize \in Nat \ {0} /\ StackEnd + StackSize =< ProgramAddress
            /\ ProgramAddress =< HeapStart
        BY LoadingAssumption
      <3>2. HeapStart \in Nat /\ Word \in Nat
        BY PageFacts
      <3> QED
        BY <3>1, <3>2
    <2>2. HeapStart < Word
      BY HeapAssumption, PagingAssumption, TotalNat, PageFacts, Z3
    <2> QED
      BY <2>1, <2>2, PageFacts, Layout DEF Request
  <1>2. \A f \in FileSet : f.size > 0 => f.size \in Request
    BY FileBlocks, FileFacts DEF Request, Bytes
  <1> QED
    BY <1>1, <1>2

LEMMA InvIsolation ==
    ASSUME NonzeroFiles, IInv
    PROVE  Isolation
  <1> SUFFICES ASSUME NEW l \in Running, Contained(procs[l].file), procs[l].memory # NULL,
                      NEW v \in Pages, "WRITEABLE" \in Walk(procs[l].chunk, v).flags
               PROVE  Walk(procs[l].chunk, v).page \in Own(l)
    BY DEF Isolation
  <1>1. l \in Loads /\ procs[l].state = "running"
    BY DEF Running
  <1>2. PICK p \in Process : p = procs[l]
    BY <1>1 DEF IInv
  <1>3. Alive(mem, l, p) /\ MemOK(mem)
    BY <1>1, <1>2 DEF IInv, Status
  <1>4. /\ p.file \in FileSet /\ p.memory \in Places /\ p.stack \in Places
        /\ p.filetype \in {"ELF", "BINARY"} /\ p.memory # NULL /\ p.memory \in Addresses
    BY <1>2 DEF Process, Places
  <1>5. p.file.size \in Request /\ StackSize \in Request
    BY <1>3, <1>4, RequestSizes DEF Alive
  <1>6. ASSUME NEW a \in mem.held, a.owner.load = l, a.owner.kind \in {"elf_memory", "binary", "stack"}
        PROVE  a.ptr \in Addresses /\ PagesHeld(a) \subseteq Own(l)
    <2>1. a.ptr \in Addresses
      BY MemoryFields, PieceFacts DEF IInv, MemOK
    <2> QED
      BY <1>6, <2>1 DEF Own
  <1>7. p.stack \in Addresses /\ PageOf(p.stack)..(PageOf(p.stack) + BlocksFor(StackSize) - 1) \subseteq Own(l)
    <2>1. PICK a : a = Piece(l, "stack", p.stack, BlocksFor(StackSize))
      OBVIOUS
    <2>2. a \in mem.held
      BY <1>3, <2>1 DEF Alive, LoadPieces
    <2>3. /\ a.owner.load = l /\ a.owner.kind = "stack" /\ a.ptr = p.stack
          /\ PagesHeld(a) = PageOf(p.stack)..(PageOf(p.stack) + BlocksFor(StackSize) - 1)
      BY <2>1 DEF Piece, PagesHeld
    <2> QED
      BY <1>6, <2>2, <2>3
  <1>8. PageOf(p.memory)..(PageOf(p.memory) + BlocksFor(p.file.size) - 1) \subseteq Own(l)
    <2>1. PICK kind \in {"elf_memory", "binary"} :
            Piece(l, kind, p.memory, BlocksFor(p.file.size)) \in DataPieces(l, p)
      <3>1. Piece(l, "elf_memory", p.memory, BlocksFor(p.file.size)).ptr = p.memory
        BY DEF Piece
      <3> QED
        BY <1>4, <3>1 DEF DataPieces
    <2>2. PICK a : a = Piece(l, kind, p.memory, BlocksFor(p.file.size))
      OBVIOUS
    <2>3. a \in mem.held
      BY <1>3, <2>1, <2>2 DEF Alive, LoadPieces
    <2>4. /\ a.owner.load = l /\ a.owner.kind = kind
          /\ PagesHeld(a) = PageOf(p.memory)..(PageOf(p.memory) + BlocksFor(p.file.size) - 1)
      BY <2>2 DEF Piece, PagesHeld
    <2> QED
      BY <1>6, <2>3, <2>4
  <1>9. PICK view : view = IF p.filetype = "ELF" THEN ElfView(p.file, p.memory) ELSE BinaryView(p.file, p.memory)
    OBVIOUS
  <1>10. Writes(view, Own(l))
    <2>1. CASE p.filetype = "ELF"
      <3>1. Contained(p.file)
        BY <1>2
      <3>2. Writes(ElfView(p.file, p.memory), Own(l))
        BY <1>4, <1>5, <1>8, <3>1, ElfWrites
      <3> QED
        BY <1>9, <2>1, <3>2
    <2>2. CASE p.filetype = "BINARY"
      <3>1. /\ p.memory \in Bytes /\ p.file.size \in Nat /\ ProgramAddress \in Bytes
            /\ VideoAddress \in Bytes /\ VideoSize \in Nat
        BY <1>4, PlaceFacts, FileFacts, Layout
      <3>2. PagesOf(p.memory, p.file.size) \subseteq Own(l)
        BY <1>4, <1>5, <1>8, RequestPages
      <3>3. PICK first : first = Mapped(PlainView(UserFlags), ProgramAddress, p.memory, p.file.size, UserWritable)
        OBVIOUS
      <3>4. Writes(first, Own(l))
        BY <3>1, <3>2, <3>3, PlainWrites, MappedWrites
      <3>5. PagesOf(VideoAddress, VideoSize) \subseteq Own(l)
        <4>1. procs[l].filetype = "BINARY"
          BY <1>2, <2>2
        <4> QED
          BY <4>1, OwnScreen
      <3>6. Writes(Mapped(first, VideoAddress, VideoAddress, VideoSize, UserWritable), Own(l))
        BY <3>1, <3>4, <3>5, MappedWrites
      <3> QED
        BY <1>9, <2>2, <3>3, <3>6 DEF BinaryView
    <2> QED
      BY <1>4, <2>1, <2>2
  <1>11. Writes(ViewOf(p), Own(l))
    <2>1. p.stack \in Bytes /\ StackEnd \in Bytes /\ StackSize \in Nat
      BY <1>4, PlaceFacts, Layout
    <2>2. PagesOf(p.stack, StackSize) \subseteq Own(l)
      BY <1>5, <1>7, RequestPages
    <2>3. Writes(Mapped(view, StackEnd, p.stack, StackSize, UserWritable), Own(l))
      BY <1>10, <2>1, <2>2, MappedWrites
    <2> QED
      BY <1>9, <2>3 DEF ViewOf
  <1>12. Walk(p.chunk, v) = ViewOf(p)[v]
    BY <1>3, WalkView DEF Alive
  <1> QED
    BY <1>2, <1>11, <1>12 DEF Writes

\* A running program whose segments lie within its file, and whose memory
\* kzalloc granted, can write only its own program, its stack and, as a raw
\* binary, the screen: whichever pages, tables and blocks other loads were
\* given, freed or left since (process_map_elf, process_map_binary,
\* paging_map_to, copy_string_from_task).
THEOREM Isolated == ASSUME NonzeroFiles PROVE Spec => []Isolation
  <1>1. IInv => Isolation
    BY InvIsolation
  <1> QED
    BY <1>1, Invariance, PTL

-----------------------------------------------------------------------------
(* Address spaces                                                          *)

\* A segment that paging_map_to accepts, wherever its file is, ends a page
\* before the end of the address space: the pages of process.c's physical
\* and virtual addresses do not wrap around.
SegmentsFit ==
    \A f \in FileSet, memory \in Places : \A i \in DOMAIN f.phdrs :
        Accepts(PhysOf(memory, f.phdrs[i]), f.phdrs[i].memsz) =>
            /\ memory + f.phdrs[i].offset + f.phdrs[i].memsz =< Word - PageSize
            /\ PageOf(f.phdrs[i].vaddr) + CountOf(PhysOf(memory, f.phdrs[i]), f.phdrs[i].memsz) =< PageCount

\* What page v is, after range r was mapped over what it was before
Layer(v, r, before, now) ==
    now = IF v - r.virt \in 0..(r.count - 1) THEN Plain(r.phys + v - r.virt, r.flags) ELSE before

LEMMA MappedLayer ==
    ASSUME NEW view, NEW virt \in Bytes, NEW phys \in Bytes, NEW n \in Nat, NEW flags, NEW v \in Pages,
           phys + n =< Word - PageSize, PageOf(virt) + CountOf(phys, n) =< PageCount,
           NEW r, r.virt = PageOf(virt), r.phys = PageOf(phys), r.flags = flags,
           r.count = Cardinality(PagesOf(phys, n))
    PROVE  Layer(v, r, view[v], Mapped(view, virt, phys, n, flags)[v])
  <1>1. r.count = CountOf(phys, n)
    BY CountSpan
  <1>2. Mapped(view, virt, phys, n, flags)[v] =
              IF v - PageOf(virt) \in 0..(CountOf(phys, n) - 1)
              THEN [page |-> PageOf(phys) + v - PageOf(virt), flags |-> flags] ELSE view[v]
    BY MappedInside
  <1> QED
    BY <1>1, <1>2 DEF Layer, Plain

\* The last of the layers that cover a page shows.
LEMMA LastLayer ==
    ASSUME NEW n \in Nat, NEW h, NEW C, C \subseteq 1..n, NEW x,
           \A i \in 1..n : h[i] = IF i \in C THEN x[i] ELSE h[i - 1]
    PROVE  /\ C = {} => h[n] = h[0]
           /\ C # {} => /\ Max(C) \in C /\ \A k \in C : k =< Max(C)
                        /\ h[n] = x[Max(C)]
  <1>1. CASE C = {}
    <2> DEFINE T == {h[0]}
    <2>1. \A i \in 1..n : h[i - 1] \in T => h[i] \in T
      BY <1>1
    <2>2. h[0] \in T
      OBVIOUS
    <2>3. \A i \in 0..n : h[i] \in T
      <3> HIDE DEF T
      <3> QED
        BY <2>1, <2>2, LoopInvariant
    <2>4. h[n] \in T
      BY <2>3
    <2> QED
      BY <1>1, <2>4
  <1>2. CASE C # {}
    <2>1. Max(C) \in C /\ \A k \in C : k =< Max(C)
      BY <1>2, MaxIsGreatest
    <2>2. PICK m \in 1..n : m = Max(C)
      BY <2>1
    <2> DEFINE D == {i \in 0..n : i >= m => h[i] = x[m]}
    <2>3. 0 \in D
      OBVIOUS
    <2>4. ASSUME NEW k \in 0..(n - 1), k \in D PROVE k + 1 \in D
      <3>1. k + 1 \in 1..n /\ (k + 1) - 1 = k
        OBVIOUS
      <3>2. h[k + 1] = IF k + 1 \in C THEN x[k + 1] ELSE h[k]
        BY <3>1
      <3>3. CASE k + 1 = m
        BY <2>1, <2>2, <3>1, <3>2, <3>3
      <3>4. CASE k + 1 > m
        <4>1. k + 1 \notin C
          BY <2>1, <2>2, <3>4
        <4> QED
          BY <2>4, <3>1, <3>2, <3>4, <4>1
      <3>5. CASE k + 1 < m
        BY <3>1, <3>5
      <3> QED
        BY <3>1, <3>3, <3>4, <3>5
    <2>5. 0..n \subseteq D
      <3> HIDE DEF D
      <3> QED
        BY <2>3, <2>4, SetInduction
    <2>6. n \in D /\ n >= m
      BY <2>5
    <2> QED
      BY <1>2, <2>1, <2>2, <2>6
  <1> QED
    BY <1>1, <1>2

LEMMA Appended ==
    ASSUME NEW n \in Nat, NEW S, NEW s \in [1..n -> S], NEW x \in S
    PROVE  /\ DOMAIN (s \o <<x>>) = 1..(n + 1)
           /\ \A i \in 1..n : (s \o <<x>>)[i] = s[i]
           /\ (s \o <<x>>)[n + 1] = x
  <1>1. s \in Seq(S) /\ Len(s) = n
    OBVIOUS
  <1>2. <<x>> \in Seq(S) /\ Len(<<x>>) = 1 /\ <<x>>[1] = x
    OBVIOUS
  <1>3. s \o <<x>> \in Seq(S) /\ Len(s \o <<x>>) = n + 1
    BY <1>1, <1>2
  <1>4. \A i \in 1..n : (s \o <<x>>)[i] = s[i]
    BY <1>1, <1>2
  <1>5. (s \o <<x>>)[n + 1] = x
    BY <1>1, <1>2
  <1> QED
    BY <1>3, <1>4, <1>5

\* The ranges of p that cover page v
Covering(p, v) == {k \in DOMAIN Ranges(p) : v - Ranges(p)[k].virt \in 0..(Ranges(p)[k].count - 1)}

LEMMA ShownLast ==
    ASSUME NEW p, NEW v, NEW n \in Nat, DOMAIN Ranges(p) = 1..n, NEW h, h[0] = Plain(v, UserFlags),
           \A i \in 1..n : Layer(v, Ranges(p)[i], h[i - 1], h[i])
    PROVE  h[n] = Shown(p, v)
  <1>1. PICK R : R = Ranges(p)
    OBVIOUS
  <1> DEFINE C == {k \in DOMAIN R : v - R[k].virt \in 0..(R[k].count - 1)}
             x == [i \in 1..n |-> Plain(R[i].phys + v - R[i].virt, R[i].flags)]
  <1>2. C \subseteq 1..n
    BY <1>1
  <1>3. \A i \in 1..n : h[i] = IF i \in C THEN x[i] ELSE h[i - 1]
    BY <1>1 DEF Layer
  <1>4. Shown(p, v) = IF C = {} THEN Plain(v, UserFlags)
                      ELSE Plain(R[Max(C)].phys + v - R[Max(C)].virt, R[Max(C)].flags)
    BY <1>1, Zenon DEF Shown
  <1>5. \A i \in 1..n : x[i] = Plain(R[i].phys + v - R[i].virt, R[i].flags)
    OBVIOUS
  <1> HIDE DEF C, x
  <1>6. /\ C = {} => h[n] = h[0]
        /\ C # {} => Max(C) \in C /\ h[n] = x[Max(C)]
    BY <1>2, <1>3, LastLayer
  <1> QED
    BY <1>2, <1>4, <1>5, <1>6

\* Memory of the heap ends before the address space does, and so does what is
\* mapped to it from below the heap.
LEMMA HeapFits ==
    ASSUME NEW size \in Request, NEW p \in Addresses, NEW virt \in Bytes, virt =< HeapStart
    PROVE  /\ p + size =< Word - PageSize
           /\ CountOf(p, size) = BlocksFor(size)
           /\ PageOf(virt) + CountOf(p, size) =< PageCount
  <1>1. /\ PageSize \in Nat \ {0} /\ PageSize = BlockSize /\ PageCount \in Nat \ {0}
        /\ Word = PageCount * PageSize /\ FirstPage + Total + Slack =< PageCount
        /\ FirstPage \in Nat /\ Total \in Nat \ {0} /\ Slack \in Nat /\ Pages = 0..(PageCount - 1)
        /\ HeapStart = FirstPage * PageSize
    BY PageFacts
  <1>2. size \in Nat /\ BlocksFor(size) \in 1..Slack /\ Span(0, size) = BlocksFor(size)
    BY RequestPages
  <1>3. PICK a \in FirstPage..(FirstPage + Total - 1) : a = PageOf(p) /\ p = a * PageSize /\ p % PageSize = 0
    BY AddressPage
  <1>4. PICK q \in Nat, r \in 0..(BlockSize - 1) :
            size = q * BlockSize + r /\ BlocksFor(size) = IF r = 0 THEN q ELSE q + 1
    BY RoundedUp
  <1>5. PICK b \in 1..Slack : b = BlocksFor(size)
    BY <1>2
  <1>6. size =< b * PageSize
    BY <1>1, <1>4, <1>5, Z3
  <1>7. a + b =< PageCount - 1 /\ a \in Nat
    BY <1>1, <1>3
  <1>8. p + size =< Word - PageSize
    <2>1. a * PageSize + b * PageSize =< (PageCount - 1) * PageSize
      BY <1>1, <1>7, Z3
    <2>2. Word - PageSize = (PageCount - 1) * PageSize
      BY <1>1, Z3
    <2>3. PICK x \in Int, y \in Int, z \in Int :
            x = a * PageSize /\ y = b * PageSize /\ z = (PageCount - 1) * PageSize
      BY <1>1, <1>7, Z3
    <2> QED
      BY <1>2, <1>3, <1>6, <2>1, <2>2, <2>3
  <1>9. CountOf(p, size) = b
    <2>1. p \in Bytes
      BY PlaceFacts DEF Places
    <2> QED
      BY <1>2, <1>3, <1>5, <1>8, <2>1, CountSpan
  <1>10. PageOf(virt) =< FirstPage
    <2>1. PICK c \in Pages, s \in 0..(PageSize - 1) : c = PageOf(virt) /\ virt = c * PageSize + s
      BY LowerPage
    <2>2. c * PageSize + s =< FirstPage * PageSize
      BY <1>1, <2>1
    <2>3. c =< FirstPage
      BY <1>1, <2>1, <2>2, Z3
    <2> QED
      BY <2>1, <2>3
  <1>11. PageOf(virt) \in Int
    BY <1>1, LowerPage
  <1> QED
    BY <1>1, <1>5, <1>8, <1>9, <1>10, <1>11

LEMMA VideoFits ==
    /\ VideoAddress + VideoSize =< Word - PageSize
    /\ PageOf(VideoAddress) + CountOf(VideoAddress, VideoSize) =< PageCount
    /\ StackEnd =< HeapStart /\ ProgramAddress =< HeapStart
  <1>1. /\ VideoAddress \in Nat /\ VideoSize \in Nat /\ StackEnd \in Nat /\ StackSize \in Nat
        /\ ProgramAddress \in Nat /\ HeapStart \in Nat
        /\ VideoAddress + VideoSize =< StackEnd /\ StackEnd + StackSize =< ProgramAddress
        /\ ProgramAddress =< HeapStart
    BY LoadingAssumption, PageFacts, Layout DEF Bytes
  <1>2. HeapStart =< Word - PageSize
    <2>1. /\ PageSize \in Nat \ {0} /\ PageCount \in Nat \ {0} /\ FirstPage \in Nat
          /\ Word = PageCount * PageSize /\ HeapStart = FirstPage * PageSize
          /\ FirstPage =< PageCount - 1
      BY PageFacts
    <2> QED
      BY <2>1, Z3
  <1>3. Word \in Nat /\ PageSize \in Nat
    BY PageFacts
  <1>4. PageOf(VideoAddress) + CountOf(VideoAddress, VideoSize) =< PageCount
    <2>1. PageOf(VideoAddress) + CountOf(VideoAddress, VideoSize) \in Pages
      BY <1>1, Layout, CountSpan
    <2> QED
      BY <2>1, PageFacts
  <1> QED
    BY <1>1, <1>2, <1>3, <1>4

\* The top layer is the stack.
LEMMA StackLayer ==
    ASSUME StackSize \in Request, NEW p, p.stack \in Addresses, NEW view, NEW v \in Pages
    PROVE  Layer(v, WritableRange(StackEnd, p.stack, StackSize), view[v],
                 Mapped(view, StackEnd, p.stack, StackSize, UserWritable)[v])
  <1>1. p.stack \in Bytes /\ StackEnd \in Bytes /\ StackSize \in Nat
    BY PlaceFacts, Layout DEF Places
  <1>2. /\ p.stack + StackSize =< Word - PageSize
        /\ PageOf(StackEnd) + CountOf(p.stack, StackSize) =< PageCount
    BY <1>1, VideoFits, HeapFits
  <1>3. PICK r : r = WritableRange(StackEnd, p.stack, StackSize)
    OBVIOUS
  <1>4. /\ r.virt = PageOf(StackEnd) /\ r.phys = PageOf(p.stack) /\ r.flags = UserWritable
        /\ r.count = Cardinality(PagesOf(p.stack, StackSize))
    BY <1>3 DEF WritableRange
  <1> QED
    BY <1>1, <1>2, <1>3, <1>4, MappedLayer

LEMMA ElfRanges ==
    ASSUME NEW p \in Process, p.filetype = "ELF", NEW n, n = Len(p.file.phdrs)
    PROVE  /\ n \in Nat /\ DOMAIN Ranges(p) = 1..(n + 1)
           /\ \A i \in 1..n :
                /\ Ranges(p)[i].virt = PageOf(p.file.phdrs[i].vaddr)
                /\ Ranges(p)[i].phys = PageOf(p.memory + p.file.phdrs[i].offset)
                /\ Ranges(p)[i].count =
                        Cardinality(PagesOf(p.memory + p.file.phdrs[i].offset, p.file.phdrs[i].memsz))
                /\ Ranges(p)[i].flags = SegmentFlags(p.file.phdrs[i])
           /\ Ranges(p)[n + 1] = WritableRange(StackEnd, p.stack, StackSize)
  <1>1. n \in Nat /\ DOMAIN p.file.phdrs = 1..n
    <2>1. p.file \in FileSet
      BY DEF Process
    <2> QED
      BY <2>1, FileFacts
  <1>2. PICK s, x : s = SegmentRanges(p) /\ x = WritableRange(StackEnd, p.stack, StackSize)
    OBVIOUS
  <1>3. Ranges(p) = s \o <<x>>
    BY <1>2 DEF Ranges
  <1>4. /\ DOMAIN s = 1..n /\ s = [i \in 1..n |-> s[i]]
        /\ \A i \in 1..n :
                /\ s[i].virt = PageOf(p.file.phdrs[i].vaddr)
                /\ s[i].phys = PageOf(p.memory + p.file.phdrs[i].offset)
                /\ s[i].count =
                        Cardinality(PagesOf(p.memory + p.file.phdrs[i].offset, p.file.phdrs[i].memsz))
                /\ s[i].flags = UserFlags \cup {f \in {"WRITEABLE"} : p.file.phdrs[i].w}
    BY <1>1, <1>2 DEF SegmentRanges
  <1>5. PICK S : s \in [1..n -> S] /\ x \in S
    <2>1. s \in [1..n -> {s[i] : i \in 1..n} \cup {x}]
      BY <1>4
    <2> QED
      BY <2>1
  <1>6. \A i \in 1..n : UserFlags \cup {f \in {"WRITEABLE"} : p.file.phdrs[i].w} = SegmentFlags(p.file.phdrs[i])
    BY DEF SegmentFlags, UserWritable
  <1>7. /\ DOMAIN (s \o <<x>>) = 1..(n + 1)
        /\ \A i \in 1..n : (s \o <<x>>)[i] = s[i]
        /\ (s \o <<x>>)[n + 1] = x
    BY <1>1, <1>5, Appended
  <1>8. PICK R : R = Ranges(p)
    OBVIOUS
  <1>9. DOMAIN R = 1..(n + 1) /\ (\A i \in 1..n : R[i] = s[i]) /\ R[n + 1] = x
    BY <1>3, <1>7, <1>8
  <1>10. \A i \in 1..n :
                /\ R[i].virt = PageOf(p.file.phdrs[i].vaddr)
                /\ R[i].phys = PageOf(p.memory + p.file.phdrs[i].offset)
                /\ R[i].count =
                        Cardinality(PagesOf(p.memory + p.file.phdrs[i].offset, p.file.phdrs[i].memsz))
                /\ R[i].flags = SegmentFlags(p.file.phdrs[i])
    BY <1>4, <1>6, <1>9
  <1> QED
    BY <1>1, <1>2, <1>8, <1>9, <1>10

LEMMA BinaryRanges ==
    ASSUME NEW p, p.filetype = "BINARY"
    PROVE  /\ DOMAIN Ranges(p) = 1..3
           /\ Ranges(p)[1] = WritableRange(ProgramAddress, p.memory, p.file.size)
           /\ Ranges(p)[2] = WritableRange(VideoAddress, VideoAddress, VideoSize)
           /\ Ranges(p)[3] = WritableRange(StackEnd, p.stack, StackSize)
  <1>1. PICK a, b, x : /\ a = WritableRange(ProgramAddress, p.memory, p.file.size)
                       /\ b = WritableRange(VideoAddress, VideoAddress, VideoSize)
                       /\ x = WritableRange(StackEnd, p.stack, StackSize)
    OBVIOUS
  <1>2. Ranges(p) = <<a, b>> \o <<x>>
    BY <1>1 DEF Ranges
  <1>3. PICK s : s = <<a, b>>
    OBVIOUS
  <1>4. PICK S : S = {a, b, x}
    OBVIOUS
  <1>6. s \in [1..2 -> S] /\ s[1] = a /\ s[2] = b /\ x \in S
    BY <1>3, <1>4
  <1>5. /\ DOMAIN (s \o <<x>>) = 1..(2 + 1)
        /\ \A i \in 1..2 : (s \o <<x>>)[i] = s[i]
        /\ (s \o <<x>>)[2 + 1] = x
    <2>1. PICK n \in Nat : n = 2
      OBVIOUS
    <2>2. s \in [1..n -> S] /\ x \in S
      BY <1>6, <2>1
    <2>3. /\ DOMAIN (s \o <<x>>) = 1..(n + 1)
          /\ \A i \in 1..n : (s \o <<x>>)[i] = s[i]
          /\ (s \o <<x>>)[n + 1] = x
      BY <2>2, Appended
    <2> QED
      BY <2>1, <2>3
  <1>7. PICK R : R = Ranges(p)
    OBVIOUS
  <1>8. R = s \o <<x>>
    BY <1>2, <1>3, <1>7
  <1>9. DOMAIN R = 1..3 /\ R[1] = a /\ R[2] = b /\ R[3] = x
    BY <1>5, <1>6, <1>8
  <1> QED
    BY <1>1, <1>7, <1>9

\* The physical range of an accepted segment
LEMMA SegmentFits ==
    ASSUME SegmentsFit, NEW f \in FileSet, NEW memory \in Places, NEW i \in 1..Len(f.phdrs),
           NEW ph, ph = f.phdrs[i], Accepts(PhysOf(memory, ph), ph.memsz)
    PROVE  /\ ph.vaddr \in Bytes /\ ph.offset \in Nat /\ ph.memsz \in Nat /\ memory \in Nat
           /\ PhysOf(memory, ph) = memory + ph.offset /\ memory + ph.offset \in Bytes
           /\ memory + ph.offset + ph.memsz =< Word - PageSize
           /\ PageOf(ph.vaddr) + CountOf(memory + ph.offset, ph.memsz) =< PageCount
           /\ CountOf(memory + ph.offset, ph.memsz) = Cardinality(PagesOf(memory + ph.offset, ph.memsz))
  <1>1. /\ ph.vaddr \in Bytes /\ ph.offset \in Nat /\ ph.memsz \in Nat /\ memory \in Nat
        /\ i \in DOMAIN f.phdrs
    BY FileFacts, PlaceFacts
  <1>2. /\ memory + ph.offset + ph.memsz =< Word - PageSize
        /\ PageOf(ph.vaddr) + CountOf(PhysOf(memory, ph), ph.memsz) =< PageCount
    BY <1>1 DEF SegmentsFit
  <1>3. memory + ph.offset \in Bytes
    <2>1. PICK o \in Nat, z \in Nat : o = ph.offset /\ z = ph.memsz
      BY <1>1
    <2>2. memory \in Nat /\ Word \in Nat \ {0} /\ PageSize \in Nat \ {0} /\ memory + o + z =< Word - PageSize
      BY <1>1, <1>2, <2>1, PageFacts
    <2>3. memory + o \in 0..(Word - 1)
      BY <2>2
    <2> QED
      BY <2>1, <2>3 DEF Bytes
  <1>4. PhysOf(memory, ph) = memory + ph.offset
    <2>1. PICK x \in Bytes : x = memory + ph.offset
      BY <1>3
    <2>2. x \in 0..(Word - 1) /\ x \in Int /\ x = 0 * Word + x /\ Word \in Nat \ {0}
      BY PageFacts DEF Bytes
    <2>3. x % Word = x
      <3>1. 0 \in Int
        OBVIOUS
      <3> QED
        BY <2>2, <3>1, ModUnique, Zenon
    <2> QED
      BY <2>1, <2>3 DEF PhysOf
  <1>5. CountOf(memory + ph.offset, ph.memsz) = Cardinality(PagesOf(memory + ph.offset, ph.memsz))
    BY <1>1, <1>2, <1>3, CountSpan
  <1> QED
    BY <1>1, <1>2, <1>3, <1>4, <1>5

LEMMA ElfShown ==
    ASSUME SegmentsFit, StackSize \in Request, NEW p \in Process, p.filetype = "ELF", p.stack \in Addresses,
           \A j \in DOMAIN p.file.phdrs :
                Accepts(PhysOf(p.memory, p.file.phdrs[j]), p.file.phdrs[j].memsz),
           NEW v \in Pages
    PROVE  ViewOf(p)[v] = Shown(p, v)
  <1>1. p.file \in FileSet /\ p.memory \in Places
    BY DEF Process
  <1>2. PICK n \in Nat : n = Len(p.file.phdrs) /\ DOMAIN p.file.phdrs = 1..n
    BY <1>1, FileFacts
  <1>3. PICK g \in [0..n -> [Pages -> Entry]] :
            /\ g[0] = PlainView(UserFlags)
            /\ \A i \in 1..n : g[i] = Segmented(g[i - 1], p.memory, p.file.phdrs[i])
            /\ ElfView(p.file, p.memory) = g[n]
    BY <1>1, <1>2, ElfViewLoop
  <1>4. PICK top : top = ViewOf(p)
    OBVIOUS
  <1>5. top = Mapped(g[n], StackEnd, p.stack, StackSize, UserWritable)
    BY <1>3, <1>4 DEF ViewOf
  <1> DEFINE h == [i \in 0..(n + 1) |-> IF i = n + 1 THEN top[v] ELSE g[i][v]]
  <1>6. h[0] = Plain(v, UserFlags)
    BY <1>2, <1>3 DEF PlainView
  <1>7. ASSUME NEW i \in 1..n PROVE Layer(v, Ranges(p)[i], h[i - 1], h[i])
    <2>1. h[i - 1] = g[i - 1][v] /\ h[i] = g[i][v]
      OBVIOUS
    <2>2. PICK ph : ph = p.file.phdrs[i]
      OBVIOUS
    <2>3. Accepts(PhysOf(p.memory, ph), ph.memsz)
      BY <1>2, <2>2
    <2>4. PICK x \in Bytes : x = PhysOf(p.memory, ph) /\ x = p.memory + ph.offset
      BY <1>1, <1>2, <2>2, <2>3, SegmentFits
    <2>5. /\ ph.vaddr \in Bytes /\ ph.memsz \in Nat
          /\ x + ph.memsz =< Word - PageSize
          /\ PageOf(ph.vaddr) + CountOf(x, ph.memsz) =< PageCount
      BY <1>1, <1>2, <2>2, <2>3, <2>4, SegmentFits
    <2>6. PICK r : r = Ranges(p)[i]
      OBVIOUS
    <2>7. /\ r.virt = PageOf(ph.vaddr) /\ r.phys = PageOf(x) /\ r.flags = SegmentFlags(ph)
          /\ r.count = Cardinality(PagesOf(x, ph.memsz))
      BY <1>2, <2>2, <2>4, <2>6, ElfRanges
    <2>8. PICK w : w = g[i - 1]
      OBVIOUS
    <2>9. Layer(v, r, w[v], Mapped(w, ph.vaddr, x, ph.memsz, SegmentFlags(ph))[v])
      BY <2>4, <2>5, <2>7, MappedLayer
    <2>10. g[i] = Mapped(w, ph.vaddr, x, ph.memsz, SegmentFlags(ph))
      BY <1>3, <2>2, <2>4, <2>8 DEF Segmented
    <2> QED
      BY <2>1, <2>6, <2>8, <2>9, <2>10
  <1>8. Layer(v, Ranges(p)[n + 1], h[n], h[n + 1])
    <2>1. h[n] = g[n][v] /\ h[n + 1] = top[v]
      BY <1>2
    <2>2. Ranges(p)[n + 1] = WritableRange(StackEnd, p.stack, StackSize)
      BY <1>2, ElfRanges
    <2> QED
      BY <1>5, <2>1, <2>2, StackLayer
  <1>9. \A i \in 1..(n + 1) : Layer(v, Ranges(p)[i], h[i - 1], h[i])
    <2> HIDE DEF h
    <2>1. ASSUME NEW i \in 1..(n + 1) PROVE Layer(v, Ranges(p)[i], h[i - 1], h[i])
      <3>1. CASE i = n + 1
        <4>1. i - 1 = n
          BY <1>2, <3>1
        <4> QED
          BY <1>8, <3>1, <4>1
      <3>2. CASE i # n + 1
        BY <1>2, <1>7, <3>2
      <3> QED
        BY <3>1, <3>2
    <2> QED
      BY <2>1
  <1>10. h[n + 1] = top[v]
    BY <1>2
  <1> HIDE DEF h
  <1>11. DOMAIN Ranges(p) = 1..(n + 1) /\ n + 1 \in Nat
    BY <1>2, ElfRanges
  <1>12. h[n + 1] = Shown(p, v)
    BY <1>6, <1>9, <1>11, ShownLast
  <1> QED
    BY <1>4, <1>10, <1>12

LEMMA BinaryShown ==
    ASSUME StackSize \in Request, NEW p, p.filetype = "BINARY", p.stack \in Addresses,
           p.file.size \in Request, p.memory \in Addresses, NEW v \in Pages
    PROVE  ViewOf(p)[v] = Shown(p, v)
  <1>1. /\ p.memory \in Bytes /\ ProgramAddress \in Bytes /\ VideoAddress \in Bytes /\ VideoSize \in Nat
        /\ p.file.size \in Nat
    BY PlaceFacts, Layout, RequestPages DEF Places
  <1>2. PICK a, b, c, d : /\ a = PlainView(UserFlags)
                          /\ b = Mapped(a, ProgramAddress, p.memory, p.file.size, UserWritable)
                          /\ c = Mapped(b, VideoAddress, VideoAddress, VideoSize, UserWritable)
                          /\ d = Mapped(c, StackEnd, p.stack, StackSize, UserWritable)
    OBVIOUS
  <1>3. ViewOf(p) = d
    BY <1>2 DEF ViewOf, BinaryView
  <1>4. a[v] = Plain(v, UserFlags)
    BY <1>2 DEF PlainView
  <1>5. Layer(v, Ranges(p)[1], a[v], b[v])
    <2>1. PICK r : r = Ranges(p)[1]
      OBVIOUS
    <2>2. /\ r.virt = PageOf(ProgramAddress) /\ r.phys = PageOf(p.memory) /\ r.flags = UserWritable
          /\ r.count = Cardinality(PagesOf(p.memory, p.file.size))
      <3>1. r = WritableRange(ProgramAddress, p.memory, p.file.size)
        BY <2>1, BinaryRanges
      <3> QED
        BY <3>1 DEF WritableRange
    <2>3. /\ p.memory + p.file.size =< Word - PageSize
          /\ PageOf(ProgramAddress) + CountOf(p.memory, p.file.size) =< PageCount
      BY <1>1, VideoFits, HeapFits
    <2> QED
      BY <1>1, <1>2, <2>1, <2>2, <2>3, MappedLayer
  <1>6. Layer(v, Ranges(p)[2], b[v], c[v])
    <2>1. PICK r : r = Ranges(p)[2]
      OBVIOUS
    <2>2. /\ r.virt = PageOf(VideoAddress) /\ r.phys = PageOf(VideoAddress) /\ r.flags = UserWritable
          /\ r.count = Cardinality(PagesOf(VideoAddress, VideoSize))
      <3>1. r = WritableRange(VideoAddress, VideoAddress, VideoSize)
        BY <2>1, BinaryRanges
      <3> QED
        BY <3>1 DEF WritableRange
    <2> QED
      BY <1>1, <1>2, <2>1, <2>2, VideoFits, MappedLayer
  <1>7. Layer(v, Ranges(p)[3], c[v], d[v])
    BY <1>2, BinaryRanges, StackLayer
  <1> DEFINE h == [i \in 0..3 |-> IF i = 0 THEN a[v] ELSE IF i = 1 THEN b[v] ELSE IF i = 2 THEN c[v] ELSE d[v]]
  <1>8. h[0] = a[v] /\ h[1] = b[v] /\ h[2] = c[v] /\ h[3] = d[v]
    OBVIOUS
  <1> HIDE DEF h
  <1>9. \A i \in 1..3 : Layer(v, Ranges(p)[i], h[i - 1], h[i])
    <2>1. ASSUME NEW i \in 1..3 PROVE Layer(v, Ranges(p)[i], h[i - 1], h[i])
      <3>1. \/ i = 1 /\ i - 1 = 0
            \/ i = 2 /\ i - 1 = 1
            \/ i = 3 /\ i - 1 = 2
        OBVIOUS
      <3> QED
        BY <1>5, <1>6, <1>7, <1>8, <3>1, Zenon
    <2> QED
      BY <2>1
  <1>10. h[3] = Shown(p, v)
    <2>1. DOMAIN Ranges(p) = 1..3 /\ 3 \in Nat /\ h[0] = Plain(v, UserFlags)
      BY <1>4, <1>8, BinaryRanges
    <2> QED
      BY <1>9, <2>1, ShownLast
  <1> QED
    BY <1>3, <1>8, <1>10

LEMMA RunningFacts ==
    ASSUME NonzeroFiles, IInv, NEW l \in Running, NEW p, p = procs[l]
    PROVE  /\ l \in Loads /\ p \in Process /\ Alive(mem, l, p)
           /\ p.file \in FileSet /\ p.memory \in Places /\ p.stack \in Addresses
           /\ p.filetype = "BINARY" => p.memory \in Addresses
           /\ p.filetype \in {"ELF", "BINARY"}
           /\ p.file.size \in Request /\ StackSize \in Request
  <1>1. l \in Loads /\ procs[l].state = "running"
    BY DEF Running
  <1>2. p \in Process
    BY <1>1 DEF IInv
  <1>3. Alive(mem, l, p)
    BY <1>1 DEF IInv, Status
  <1>4. p.file \in FileSet /\ p.memory \in Places /\ p.filetype \in {"ELF", "BINARY"}
    BY <1>2 DEF Process
  <1>5. ASSUME NEW kind, NEW q, NEW n, Piece(l, kind, q, n) \in mem.held PROVE q \in Addresses
    <2>1. PICK a : a = Piece(l, kind, q, n)
      OBVIOUS
    <2>2. a \in Pieces /\ a.ptr = q
      BY <1>5, <2>1, MemoryFields DEF Piece, IInv, MemOK
    <2> QED
      BY <2>2, PieceFacts
  <1>6. p.stack \in Addresses
    BY <1>3, <1>5 DEF Alive, LoadPieces
  <1>7. p.filetype = "BINARY" => p.memory \in Addresses
    BY <1>3, <1>5 DEF Alive, LoadPieces, DataPieces
  <1>8. p.file.size \in Request /\ StackSize \in Request
    BY <1>3, <1>4, RequestSizes DEF Alive
  <1> QED
    BY <1>1, <1>2, <1>3, <1>4, <1>6, <1>7, <1>8

LEMMA WalkShown ==
    ASSUME NonzeroFiles, SegmentsFit, IInv, NEW l \in Running, NEW v \in Pages
    PROVE  Walk(procs[l].chunk, v) = Shown(procs[l], v)
  <1>1. PICK p : p = procs[l]
    OBVIOUS
  <1>2. /\ p \in Process /\ Alive(mem, l, p) /\ p.stack \in Addresses
        /\ p.filetype = "BINARY" => p.memory \in Addresses
        /\ p.filetype \in {"ELF", "BINARY"}
        /\ p.file.size \in Request /\ StackSize \in Request
    BY <1>1, RunningFacts
  <1>3. ViewOf(p)[v] = Shown(p, v)
    <2>1. CASE p.filetype = "ELF"
      <3>1. \A j \in DOMAIN p.file.phdrs :
                Accepts(PhysOf(p.memory, p.file.phdrs[j]), p.file.phdrs[j].memsz)
        BY <1>2, <2>1 DEF Alive
      <3> QED
        BY <1>2, <2>1, <3>1, ElfShown
    <2>2. CASE p.filetype = "BINARY"
      BY <1>2, <2>2, BinaryShown
    <2> QED
      BY <1>2, <2>1, <2>2
  <1>4. Walk(p.chunk, v) = ViewOf(p)[v]
    BY <1>2, WalkView DEF Alive
  <1> QED
    BY <1>1, <1>3, <1>4

LEMMA InvAddressSpace ==
    ASSUME NonzeroFiles, SegmentsFit, IInv
    PROVE  AddressSpace
  <1>1. \A v \in Pages : Walk(kernel_chunk, v) = Plain(v, UserWritable)
    <2>1. \A v \in Pages : Walk(kernel_chunk, v) = PlainView(UserWritable)[v]
      BY WalkView DEF IInv
    <2> QED
      BY <2>1 DEF PlainView
  <1> QED
    BY <1>1, WalkShown DEF AddressSpace

\* Whatever was loaded, failed, ended or copied since it was set up, the
\* directory and the tables of a running process show its segments or its
\* binary, its stack and else the page itself, and the kernel's own show
\* plain writable pages (paging_new_4gb, paging_map_to, paging_free_4gb).
THEOREM AddressSpaces == ASSUME NonzeroFiles, SegmentsFit PROVE Spec => []AddressSpace
  <1>1. IInv => AddressSpace
    BY InvAddressSpace
  <1> QED
    BY <1>1, Invariance, PTL

-----------------------------------------------------------------------------
(* Bytes                                                                   *)

LEMMA PhysicalShown ==
    ASSUME NonzeroFiles, SegmentsFit, IInv, NEW l \in Running, NEW v \in Pages, NEW s \in 0..(PageSize - 1),
           NEW virt, virt = v * PageSize + s
    PROVE  Physical(procs[l], virt) = Shown(procs[l], v).page * PageSize + s
  <1>1. PageOf(virt) = v /\ virt % PageSize = s
    <2>1. v \in Int
      BY PageFacts
    <2>2. PageOf(v * PageSize + s) = v /\ (v * PageSize + s) % PageSize = s
      BY <2>1, PageOfSum
    <2> QED
      BY <2>2
  <1>2. paging_align_to_lower_page(virt) = v * PageSize
    <2>1. PICK x \in Int : x = v * PageSize
      BY PageFacts, Z3
    <2>2. s \in Int
      BY PageFacts
    <2> QED
      BY <1>1, <2>1, <2>2 DEF paging_align_to_lower_page
  <1>3. Physical(procs[l], virt) = Walk(procs[l].chunk, v).page * PageSize + s
    BY <1>1, <1>2 DEF Physical, paging_get_physical_address, Walk
  <1> QED
    BY <1>3, WalkShown

LEMMA ShownTop ==
    ASSUME NEW p, NEW v, NEW n \in Nat, DOMAIN Ranges(p) = 1..n, Covering(p, v) # {}
    PROVE  \E k \in Covering(p, v) :
              /\ \A j \in Covering(p, v) : j =< k
              /\ Shown(p, v).page = Ranges(p)[k].phys + v - Ranges(p)[k].virt
  <1>1. PICK C : C = Covering(p, v)
    OBVIOUS
  <1>2. C \subseteq 1..n
    BY <1>1 DEF Covering
  <1>3. Max(C) \in C /\ \A j \in C : j =< Max(C)
    BY <1>1, <1>2, MaxIsGreatest
  <1>4. Shown(p, v) = Plain(Ranges(p)[Max(C)].phys + v - Ranges(p)[Max(C)].virt, Ranges(p)[Max(C)].flags)
    BY <1>1 DEF Shown, Covering
  <1>5. Shown(p, v).page = Ranges(p)[Max(C)].phys + v - Ranges(p)[Max(C)].virt
    BY <1>4 DEF Plain
  <1> QED
    BY <1>1, <1>3, <1>5

\* Where an aligned range has room, its pages have.
LEMMA AlignedRoom ==
    ASSUME NEW a \in Int, NEW b \in Int, NEW n \in Nat, a * PageSize + n =< b * PageSize
    PROVE  a + Span(0, n) =< b /\ Span(0, n) \in Nat
  <1>1. PageSize \in Nat \ {0} /\ 0 \in 0..(PageSize - 1)
    BY PageFacts
  <1>2. PICK z \in Nat, s \in 0..(PageSize - 1) :
            0 + n = z * PageSize + s /\ Span(0, n) = IF s = 0 THEN z ELSE z + 1
    BY <1>1, SpanSplit
  <1>3. a * PageSize + z * PageSize + s =< b * PageSize
    BY <1>1, <1>2, Z3
  <1>4. a + z =< b /\ (s # 0 => a + z + 1 =< b)
    BY <1>1, <1>3, Z3
  <1> QED
    BY <1>2, <1>4

\* A byte inside a range is on one of its pages.
LEMMA ByteInside ==
    ASSUME NEW r \in 0..(PageSize - 1), NEW n \in Nat, NEW j \in 0..(n - 1)
    PROVE  \E z \in Nat : \E s \in 0..(PageSize - 1) :
              r + j = z * PageSize + s /\ z < Span(r, n) /\ Span(r, n) \in Nat
  <1>1. PageSize \in Nat \ {0} /\ r \in Nat /\ j \in Nat
    BY PageFacts
  <1>2. PICK z \in Nat, s \in 0..(PageSize - 1) : r + j = z * PageSize + s
    BY <1>1, SpanSplit
  <1>3. PICK y \in Nat, t \in 0..(PageSize - 1) :
            r + n = y * PageSize + t /\ Span(r, n) = IF t = 0 THEN y ELSE y + 1
    BY SpanSplit
  <1>4. z * PageSize + s < y * PageSize + t
    BY <1>1, <1>2, <1>3
  <1>5. z =< y /\ (t = 0 => z < y)
    BY <1>1, <1>4, Z3
  <1> QED
    BY <1>2, <1>3, <1>5

LEMMA PagesOfPlace ==
    ASSUME NEW p \in Places, NEW n \in Nat
    PROVE  Cardinality(PagesOf(p, n)) = Span(0, n)
  <1>1. p \in Bytes /\ p % PageSize = 0
    BY PlaceFacts DEF paging_is_aligned
  <1> QED
    BY <1>1, CountSpan

LEMMA BinaryBytes ==
    ASSUME NonzeroFiles, SegmentsFit, IInv, NEW l \in Running, NEW p, p = procs[l], p.filetype = "BINARY",
           NEW j \in 0..(p.file.size - 1)
    PROVE  Physical(p, ProgramAddress + j) = p.memory + j
  <1>1. p.memory \in Addresses /\ p.stack \in Addresses /\ p.file.size \in Request
    BY RunningFacts
  <1>2. /\ PageSize \in Nat \ {0} /\ PageCount \in Nat \ {0} /\ FirstPage \in Nat /\ Slack \in Nat
        /\ Total \in Nat \ {0} /\ FirstPage + Total + Slack =< PageCount /\ Pages = 0..(PageCount - 1)
        /\ 0 \in 0..(PageSize - 1) /\ HeapStart = FirstPage * PageSize
    BY PageFacts
  <1>3. PICK size \in Nat : /\ size = p.file.size /\ Span(0, size) = BlocksFor(size) /\ BlocksFor(size) \in 1..Slack
    BY <1>1, RequestPages
  <1>4. PICK z \in Nat, s \in 0..(PageSize - 1) :
            0 + j = z * PageSize + s /\ z < Span(0, size) /\ Span(0, size) \in Nat
    <2>1. j \in 0..(size - 1)
      BY <1>3
    <2>2. PICK o \in 0..(PageSize - 1) : o = 0
      BY <1>2
    <2>3. \E z \in Nat : \E s \in 0..(PageSize - 1) :
              o + j = z * PageSize + s /\ z < Span(o, size) /\ Span(o, size) \in Nat
      BY <2>1, ByteInside
    <2> QED
      BY <2>2, <2>3
  <1>5. PICK P \in Nat, E \in Nat, V \in Nat, M \in Nat :
            /\ ProgramAddress = P * PageSize /\ P = PageOf(ProgramAddress)
            /\ StackEnd = E * PageSize /\ E = PageOf(StackEnd)
            /\ VideoAddress = V * PageSize /\ V = PageOf(VideoAddress)
            /\ p.memory = M * PageSize /\ M = PageOf(p.memory)
    <2>1. ASSUME NEW x \in Bytes, paging_is_aligned(x) PROVE PageOf(x) \in Nat /\ x = PageOf(x) * PageSize
      BY <1>2, <2>1, LowerPage, AlignedIsLower
    <2>2. PageOf(p.memory) \in Nat /\ p.memory = PageOf(p.memory) * PageSize
      BY <1>1, <1>2, PlaceFacts DEF Places
    <2> QED
      BY <2>1, <2>2, Layout
  <1>6. P =< FirstPage /\ E =< P
    <2>1. P * PageSize =< FirstPage * PageSize
      BY <1>2, <1>5, LoadingAssumption
    <2>2. E * PageSize + StackSize =< P * PageSize /\ StackSize \in Nat
      BY <1>5, LoadingAssumption
    <2> QED
      BY <1>2, <2>1, <2>2, Z3
  <1>7. V + Span(0, VideoSize) =< E /\ Span(0, VideoSize) \in Nat
    <2>1. V * PageSize + VideoSize =< E * PageSize /\ VideoSize \in Nat
      BY <1>5, LoadingAssumption
    <2> QED
      BY <2>1, AlignedRoom
  <1>8. E + Span(0, StackSize) =< P /\ Span(0, StackSize) \in Nat
    <2>1. E * PageSize + StackSize =< P * PageSize /\ StackSize \in Nat
      BY <1>5, LoadingAssumption
    <2> QED
      BY <2>1, AlignedRoom
  <1>9. PICK v \in Pages : v = P + z
    BY <1>2, <1>3, <1>4, <1>6
  <1>10. PICK R : R = Ranges(p)
    OBVIOUS
  <1>11. /\ DOMAIN R = 1..3
         /\ R[1].virt = P /\ R[1].phys = M /\ R[1].count = Span(0, size)
         /\ R[2].virt = V /\ R[2].count = Span(0, VideoSize)
         /\ R[3].virt = E /\ R[3].count = Span(0, StackSize)
    <2>1. Cardinality(PagesOf(p.memory, size)) = Span(0, size)
      BY <1>1, PagesOfPlace DEF Places
    <2>2. Cardinality(PagesOf(p.stack, StackSize)) = Span(0, StackSize)
      BY <1>1, Layout, PagesOfPlace DEF Places
    <2>3. Cardinality(PagesOf(VideoAddress, VideoSize)) = Span(0, VideoSize)
      <3>1. VideoAddress % PageSize = 0 /\ VideoAddress \in Bytes /\ VideoSize \in Nat
        BY Layout DEF paging_is_aligned
      <3> QED
        BY <3>1, CountSpan
    <2> QED
      <3>1. /\ DOMAIN R = 1..3
            /\ R[1] = WritableRange(ProgramAddress, p.memory, p.file.size)
            /\ R[2] = WritableRange(VideoAddress, VideoAddress, VideoSize)
            /\ R[3] = WritableRange(StackEnd, p.stack, StackSize)
        BY <1>10, BinaryRanges
      <3>3. R[1].virt = P /\ R[1].phys = M /\ R[1].count = Span(0, size)
        <4>1. /\ R[1].virt = PageOf(ProgramAddress) /\ R[1].phys = PageOf(p.memory)
              /\ R[1].count = Cardinality(PagesOf(p.memory, p.file.size))
          BY <3>1 DEF WritableRange
        <4> QED
          BY <1>3, <1>5, <2>1, <4>1
      <3>4. R[2].virt = V /\ R[2].count = Span(0, VideoSize)
        <4>1. R[2].virt = PageOf(VideoAddress) /\ R[2].count = Cardinality(PagesOf(VideoAddress, VideoSize))
          BY <3>1 DEF WritableRange
        <4> QED
          BY <1>5, <2>3, <4>1
      <3>5. R[3].virt = E /\ R[3].count = Span(0, StackSize)
        <4>1. R[3].virt = PageOf(StackEnd) /\ R[3].count = Cardinality(PagesOf(p.stack, StackSize))
          BY <3>1 DEF WritableRange
        <4> QED
          BY <1>5, <2>2, <4>1
      <3> QED
        BY <3>1, <3>3, <3>4, <3>5
  <1>12. Covering(p, v) = {1}
    <2>1. v - P \in 0..(Span(0, size) - 1)
      BY <1>4, <1>5, <1>9
    <2>2. v - V \notin 0..(Span(0, VideoSize) - 1)
      BY <1>4, <1>5, <1>6, <1>7, <1>9
    <2>3. v - E \notin 0..(Span(0, StackSize) - 1)
      BY <1>4, <1>5, <1>8, <1>9
    <2> QED
      BY <1>10, <1>11, <2>1, <2>2, <2>3 DEF Covering
  <1>13. Shown(p, v).page = M + v - P
    <2>1. DOMAIN Ranges(p) = 1..3 /\ 3 \in Nat /\ Covering(p, v) # {}
      BY <1>10, <1>11, <1>12
    <2>2. PICK k \in Covering(p, v) : Shown(p, v).page = Ranges(p)[k].phys + v - Ranges(p)[k].virt
      BY <2>1, ShownTop
    <2> QED
      BY <1>10, <1>11, <1>12, <2>2
  <1>14. ProgramAddress + j = v * PageSize + s
    <2>1. P \in Int /\ z \in Int /\ PageSize \in Int /\ s \in Int /\ 0 + j = j
      BY <1>2
    <2>2. (P + z) * PageSize + s = P * PageSize + (z * PageSize + s)
      BY <2>1, Regroup
    <2>3. P * PageSize + (z * PageSize + s) = ProgramAddress + j
      BY <1>4, <1>5, <2>1
    <2> QED
      BY <1>9, <2>2, <2>3
  <1>15. Physical(p, ProgramAddress + j) = (M + v - P) * PageSize + s
    BY <1>13, <1>14, PhysicalShown
  <1>16. (M + v - P) * PageSize + s = p.memory + j
    <2>1. M \in Int /\ z \in Int /\ PageSize \in Int /\ s \in Int /\ 0 + j = j /\ M + v - P = M + z
      BY <1>2, <1>9
    <2>2. (M + z) * PageSize + s = M * PageSize + (z * PageSize + s)
      BY <2>1, Regroup
    <2>3. M * PageSize + (z * PageSize + s) = p.memory + j
      BY <1>4, <1>5, <2>1
    <2> QED
      BY <2>1, <2>2, <2>3
  <1> QED
    BY <1>15, <1>16

\* Where the pages of an accepted segment are, in the file, in memory and in
\* the address space
Shaped(ph, memory, V, O, r) ==
    /\ ph.vaddr = V * PageSize + r /\ ph.offset = O * PageSize + r
    /\ PageOf(ph.vaddr) = V /\ PageOf(memory + ph.offset) = PageOf(memory) + O
    /\ Span(r, ph.memsz) \in Nat
    /\ Cardinality(PagesOf(memory + ph.offset, ph.memsz)) = Span(r, ph.memsz)
    /\ PagesOf(ph.vaddr, ph.memsz) = V..(V + Span(r, ph.memsz) - 1)
    /\ V + Span(r, ph.memsz) =< PageCount

LEMMA SegmentShape ==
    ASSUME SegmentsFit, NEW f \in FileSet, NEW memory \in Places, NEW i \in 1..Len(f.phdrs),
           NEW ph, ph = f.phdrs[i], Accepts(PhysOf(memory, ph), ph.memsz),
           (ph.vaddr - ph.offset) % PageSize = 0
    PROVE  \E V \in Nat, O \in Nat, r \in 0..(PageSize - 1) : Shaped(ph, memory, V, O, r)
  <1>1. /\ ph.vaddr \in Bytes /\ ph.offset \in Nat /\ ph.memsz \in Nat /\ memory \in Nat
        /\ memory + ph.offset \in Bytes /\ memory + ph.offset + ph.memsz =< Word - PageSize
        /\ PageOf(ph.vaddr) + CountOf(memory + ph.offset, ph.memsz) =< PageCount
        /\ CountOf(memory + ph.offset, ph.memsz) = Cardinality(PagesOf(memory + ph.offset, ph.memsz))
    BY SegmentFits
  <1>2. PageSize \in Nat \ {0} /\ Pages \subseteq Nat
    BY PageFacts
  <1>3. PICK V \in Nat, r \in 0..(PageSize - 1) :
            V = PageOf(ph.vaddr) /\ ph.vaddr = V * PageSize + r /\ ph.vaddr % PageSize = r
    <2>1. PICK x \in Bytes : x = ph.vaddr
      BY <1>1
    <2>2. PageOf(x) \in Pages /\ \E r \in 0..(PageSize - 1) : x = PageOf(x) * PageSize + r /\ x % PageSize = r
      BY LowerPage
    <2>3. PICK r \in 0..(PageSize - 1) : x = PageOf(x) * PageSize + r /\ x % PageSize = r
      BY <2>2
    <2>4. PICK V \in Nat : V = PageOf(x)
      BY <1>2, <2>2
    <2>5. V = PageOf(ph.vaddr) /\ ph.vaddr = V * PageSize + r /\ ph.vaddr % PageSize = r
      BY <2>1, <2>3, <2>4
    <2> QED
      BY <2>5
  <1>4. ph.offset \in Bytes
    <2>1. f.phdrs[i].offset \in Bytes
      BY FileFacts
    <2> QED
      BY <2>1
  <1>5. PICK O \in Nat, s \in 0..(PageSize - 1) : ph.offset = O * PageSize + s
    <2>1. PICK x \in Bytes : x = ph.offset
      BY <1>4
    <2>2. PageOf(x) \in Pages /\ \E s \in 0..(PageSize - 1) : x = PageOf(x) * PageSize + s /\ x % PageSize = s
      BY LowerPage
    <2>3. PICK s \in 0..(PageSize - 1) : x = PageOf(x) * PageSize + s
      BY <2>2
    <2>4. PICK O \in Nat : O = PageOf(x)
      BY <1>2, <2>2
    <2>5. ph.offset = O * PageSize + s
      BY <2>1, <2>3, <2>4
    <2> QED
      BY <2>5
  <1>6. s = r
    <2>1. ph.vaddr - ph.offset \in Int
      BY <1>1 DEF Bytes
    <2>2. PICK d \in Int, t \in 0..(PageSize - 1) :
            ph.vaddr - ph.offset = d * PageSize + t /\ (ph.vaddr - ph.offset) % PageSize = t
      BY <1>2, <2>1, DivMod, Zenon
    <2>3. t = 0
      BY <2>2
    <2>4. V * PageSize + r - (O * PageSize + s) = d * PageSize
      BY <1>2, <1>3, <1>5, <2>2, <2>3
    <2> QED
      BY <1>2, <2>4, Z3
  <1>7. PICK M \in Nat : M = PageOf(memory) /\ memory = M * PageSize
    BY <1>2, PlaceFacts
  <1>8. memory + ph.offset = (M + O) * PageSize + r
    BY <1>2, <1>5, <1>6, <1>7, Z3
  <1>9. PageOf(memory + ph.offset) = M + O /\ (memory + ph.offset) % PageSize = r
    <2>1. PICK x \in Int : x = M + O
      OBVIOUS
    <2>2. PageOf(x * PageSize + r) = x /\ (x * PageSize + r) % PageSize = r
      BY PageOfSum
    <2> QED
      BY <1>8, <2>1, <2>2
  <1>10. /\ Span(r, ph.memsz) \in Nat
         /\ Cardinality(PagesOf(memory + ph.offset, ph.memsz)) = Span(r, ph.memsz)
    BY <1>1, <1>9, CountSpan
  <1>11. PagesOf(ph.vaddr, ph.memsz) = V..(V + Span(r, ph.memsz) - 1)
    BY <1>1, <1>3, PagesOfSpan
  <1>12. V + Span(r, ph.memsz) =< PageCount
    BY <1>1, <1>3, <1>10
  <1>13. Shaped(ph, memory, V, O, r)
    BY <1>3, <1>5, <1>6, <1>7, <1>9, <1>10, <1>11, <1>12 DEF Shaped
  <1> QED
    BY <1>13

LEMMA ElfBytes ==
    ASSUME NonzeroFiles, SegmentsFit, IInv, NEW l \in Running, NEW p, p = procs[l], p.filetype = "ELF",
           WellFormed(p.file), NEW i \in DOMAIN p.file.phdrs, NEW ph, ph = p.file.phdrs[i],
           NEW j \in 0..(ph.filesz - 1)
    PROVE  Physical(p, ph.vaddr + j) = p.memory + ph.offset + j
  <1>1. /\ p \in Process /\ Alive(mem, l, p) /\ p.file \in FileSet /\ p.memory \in Places
        /\ p.stack \in Addresses
    BY RunningFacts
  <1>2. PICK n \in Nat : n = Len(p.file.phdrs) /\ DOMAIN p.file.phdrs = 1..n
    BY <1>1, FileFacts
  <1>3. \A k \in 1..n : Accepts(PhysOf(p.memory, p.file.phdrs[k]), p.file.phdrs[k].memsz)
    BY <1>1, <1>2 DEF Alive
  <1>4. \A k \in 1..n : (p.file.phdrs[k].vaddr - p.file.phdrs[k].offset) % PageSize = 0
    BY <1>2 DEF WellFormed
  <1>5. /\ PageSize \in Nat \ {0} /\ Pages = 0..(PageCount - 1) /\ PageCount \in Nat \ {0}
        /\ 0 \in 0..(PageSize - 1)
    BY PageFacts
  <1>6. PICK M \in Nat : M = PageOf(p.memory) /\ p.memory = M * PageSize
    BY <1>1, <1>5, PlaceFacts
  <1>7. ASSUME NEW k \in 1..n, NEW q, q = p.file.phdrs[k]
        PROVE  \E V \in Nat, O \in Nat, r \in 0..(PageSize - 1) : Shaped(q, p.memory, V, O, r)
    <2>1. Accepts(PhysOf(p.memory, q), q.memsz) /\ (q.vaddr - q.offset) % PageSize = 0
      BY <1>3, <1>4, <1>7
    <2>2. PICK f \in FileSet, memory \in Places : f = p.file /\ memory = p.memory
      BY <1>1
    <2>3. k \in 1..Len(f.phdrs) /\ q = f.phdrs[k] /\ Accepts(PhysOf(memory, q), q.memsz)
      BY <1>2, <1>7, <2>1, <2>2
    <2>4. (q.vaddr - q.offset) % PageSize = 0
      BY <2>1
    <2>5. \E V \in Nat, O \in Nat, r \in 0..(PageSize - 1) : Shaped(q, memory, V, O, r)
      BY <2>3, <2>4, SegmentShape
    <2> QED
      BY <2>2, <2>5
  <1>a. PICK V \in Nat, O \in Nat, r \in 0..(PageSize - 1) : Shaped(ph, p.memory, V, O, r)
    BY <1>2, <1>7
  <1>8.       /\ ph.vaddr = V * PageSize + r /\ ph.offset = O * PageSize + r
              /\ PageOf(ph.vaddr) = V /\ PageOf(p.memory + ph.offset) = M + O
              /\ Span(r, ph.memsz) \in Nat
              /\ Cardinality(PagesOf(p.memory + ph.offset, ph.memsz)) = Span(r, ph.memsz)
              /\ PagesOf(ph.vaddr, ph.memsz) = V..(V + Span(r, ph.memsz) - 1)
              /\ V + Span(r, ph.memsz) =< PageCount
    BY <1>6, <1>a DEF Shaped
  <1>9. ph.memsz \in Nat /\ j \in 0..(ph.memsz - 1)
    <2>1. ph.filesz =< ph.memsz
      BY DEF WellFormed
    <2>2. ph.filesz \in Nat /\ ph.memsz \in Nat
      BY <1>1, <1>2, FileFacts
    <2> QED
      BY <2>1, <2>2
  <1>10. PICK z \in Nat, s \in 0..(PageSize - 1) : r + j = z * PageSize + s /\ z < Span(r, ph.memsz)
    <2>1. PICK m \in Nat : m = ph.memsz
      BY <1>9
    <2>2. j \in 0..(m - 1)
      BY <1>9, <2>1
    <2>3. \E z \in Nat : \E s \in 0..(PageSize - 1) :
              r + j = z * PageSize + s /\ z < Span(r, m) /\ Span(r, m) \in Nat
      BY <2>2, ByteInside
    <2> QED
      BY <2>1, <2>3
  <1>11. PICK v \in Pages : v = V + z
    BY <1>5, <1>8, <1>10
  <1>b. V \in Int /\ z \in Int /\ O \in Int /\ M \in Int /\ PageSize \in Int /\ r \in Int /\ s \in Int /\ j \in Int
    BY <1>5, <1>9
  <1>12. ph.vaddr + j = v * PageSize + s
    <2>1. (V + z) * PageSize + s = V * PageSize + (z * PageSize + s)
      BY <1>b, Regroup
    <2>2. PICK y \in Int : y = V * PageSize
      BY <1>b, Distribute
    <2>3. (y + r) + j = y + (r + j)
      BY <1>b
    <2>4. ph.vaddr + j = V * PageSize + (z * PageSize + s)
      BY <1>8, <1>10, <2>2, <2>3
    <2> QED
      BY <1>11, <2>1, <2>4
  <1>13. PICK R : R = Ranges(p)
    OBVIOUS
  <1>14. /\ DOMAIN R = 1..(n + 1)
         /\ \A k \in 1..n :
                /\ R[k].virt = PageOf(p.file.phdrs[k].vaddr)
                /\ R[k].phys = PageOf(p.memory + p.file.phdrs[k].offset)
                /\ R[k].count = Cardinality(PagesOf(p.memory + p.file.phdrs[k].offset, p.file.phdrs[k].memsz))
         /\ R[n + 1] = WritableRange(StackEnd, p.stack, StackSize)
    BY <1>1, <1>2, <1>13, ElfRanges
  <1>15. i \in Covering(p, v)
    <2>1. R[i].virt = V /\ R[i].count = Span(r, ph.memsz) /\ i \in DOMAIN R
      <3>1. i \in 1..n /\ i \in 1..(n + 1)
        BY <1>2
      <3>2. /\ R[i].virt = PageOf(ph.vaddr)
            /\ R[i].count = Cardinality(PagesOf(p.memory + ph.offset, ph.memsz))
        BY <1>14, <3>1
      <3> QED
        BY <1>8, <1>14, <3>1, <3>2
    <2>2. v - V \in 0..(Span(r, ph.memsz) - 1)
      BY <1>8, <1>10, <1>11
    <2> QED
      BY <1>13, <2>1, <2>2 DEF Covering
  <1>16. v \in PagesOf(ph.vaddr, ph.memsz)
    BY <1>8, <1>10, <1>11
  <1>17. PICK k \in Covering(p, v) : Shown(p, v).page = R[k].phys + v - R[k].virt
    <2>1. DOMAIN Ranges(p) = 1..(n + 1) /\ n + 1 \in Nat /\ Covering(p, v) # {}
      BY <1>13, <1>14, <1>15
    <2> QED
      BY <1>13, <2>1, ShownTop
  <1>18. k \in 1..(n + 1) /\ v - R[k].virt \in 0..(R[k].count - 1)
    BY <1>13, <1>14, <1>17 DEF Covering
  <1>19. k # n + 1
    <2> SUFFICES ASSUME k = n + 1 PROVE FALSE
      OBVIOUS
    <2>1. R[k].virt = PageOf(StackEnd) /\ R[k].count = Cardinality(PagesOf(p.stack, StackSize))
      BY <1>14 DEF WritableRange
    <2>2. StackEnd % PageSize = 0 /\ StackEnd \in Bytes /\ StackSize \in Nat
      BY Layout DEF paging_is_aligned
    <2>3. R[k].count = Span(0, StackSize) /\ Span(0, StackSize) \in Nat
      <3>1. p.stack \in Places
        BY <1>1 DEF Places
      <3>2. Cardinality(PagesOf(p.stack, StackSize)) = Span(0, StackSize)
        BY <2>2, <3>1, PagesOfPlace
      <3>3. Span(StackEnd % PageSize, StackSize) \in Nat
        BY <2>2, CountSpan
      <3> QED
        BY <2>1, <2>2, <3>2, <3>3
    <2>4. /\ PagesOf(StackEnd, StackSize) = PageOf(StackEnd)..(PageOf(StackEnd) + Span(0, StackSize) - 1)
          /\ PageOf(StackEnd) \in Int
      BY <2>2, CountSpan
    <2>5. v \in PagesOf(StackEnd, StackSize)
      BY <1>11, <1>18, <2>1, <2>3, <2>4
    <2>6. PagesOf(ph.vaddr, ph.memsz) \cap PagesOf(StackEnd, StackSize) = {}
      BY DEF WellFormed
    <2> QED
      BY <1>16, <2>5, <2>6
  <1>20. k \in 1..n
    BY <1>18, <1>19
  <1>21. PICK q : q = p.file.phdrs[k]
    OBVIOUS
  <1>c. PICK W \in Nat, Q \in Nat, t \in 0..(PageSize - 1) : Shaped(q, p.memory, W, Q, t)
    BY <1>7, <1>20, <1>21
  <1>22.      /\ q.vaddr = W * PageSize + t /\ q.offset = Q * PageSize + t
              /\ PageOf(q.vaddr) = W /\ PageOf(p.memory + q.offset) = M + Q
              /\ Span(t, q.memsz) \in Nat
              /\ Cardinality(PagesOf(p.memory + q.offset, q.memsz)) = Span(t, q.memsz)
              /\ PagesOf(q.vaddr, q.memsz) = W..(W + Span(t, q.memsz) - 1)
    BY <1>6, <1>c DEF Shaped
  <1>23. R[k].virt = W /\ R[k].phys = M + Q /\ R[k].count = Span(t, q.memsz)
    BY <1>14, <1>20, <1>21, <1>22
  <1>24. v \in PagesOf(q.vaddr, q.memsz)
    BY <1>11, <1>18, <1>22, <1>23
  <1>25. q.vaddr - q.offset = ph.vaddr - ph.offset
    <2>1. PagesOf(q.vaddr, q.memsz) \cap PagesOf(ph.vaddr, ph.memsz) # {}
      BY <1>16, <1>24
    <2> QED
      BY <1>2, <1>20, <1>21, <2>1 DEF WellFormed
  <1>26. W - Q = V - O
    BY <1>5, <1>8, <1>22, <1>25, Z3
  <1>27. Shown(p, v).page = M + O + z
    BY <1>11, <1>17, <1>23, <1>26
  <1>28. Physical(p, ph.vaddr + j) = (M + O + z) * PageSize + s
    BY <1>12, <1>27, PhysicalShown
  <1>29. (M + O + z) * PageSize + s = p.memory + ph.offset + j
    <2>1. PICK y \in Int : y = M + O
      BY <1>b
    <2>2. (y + z) * PageSize + s = y * PageSize + (z * PageSize + s)
      BY <1>b, Regroup
    <2>3. (M + O) * PageSize = M * PageSize + O * PageSize /\ M * PageSize \in Int /\ O * PageSize \in Int
      BY <1>b, Distribute
    <2>4. PICK a \in Int, b \in Int : a = M * PageSize /\ b = O * PageSize
      BY <2>3
    <2>5. (M + O + z) * PageSize + s = (a + b) + (r + j)
      BY <1>10, <2>1, <2>2, <2>3, <2>4
    <2>6. (a + b) + (r + j) = a + (b + r) + j
      BY <1>b
    <2> QED
      BY <1>6, <1>8, <2>4, <2>5, <2>6
  <1> QED
    BY <1>28, <1>29

LEMMA InvSegmentBytes ==
    ASSUME NonzeroFiles, SegmentsFit, IInv
    PROVE  SegmentBytes
  <1> SUFFICES ASSUME NEW l \in Running, NEW p, p = procs[l]
               PROVE  IF p.filetype = "BINARY"
                      THEN \A j \in 0..(p.file.size - 1) : Physical(p, ProgramAddress + j) = p.memory + j
                      ELSE WellFormed(p.file) =>
                            \A i \in DOMAIN p.file.phdrs :
                               p.file.phdrs[i].type = PT_LOAD => \A j \in 0..(p.file.phdrs[i].filesz - 1) :
                                  Physical(p, p.file.phdrs[i].vaddr + j) = p.memory + p.file.phdrs[i].offset + j
    BY DEF SegmentBytes
  <1>1. p.filetype \in {"ELF", "BINARY"}
    BY RunningFacts
  <1>2. CASE p.filetype = "BINARY"
    BY <1>2, BinaryBytes
  <1>3. CASE p.filetype = "ELF"
    BY <1>3, ElfBytes
  <1> QED
    BY <1>1, <1>2, <1>3

\* A running program finds each byte of its file where the headers say, or
\* from PEACHOS_PROGRAM_VIRTUAL_ADDRESS on for a raw binary, for pages and
\* tables of any size and wherever kzalloc put the file (process_map_elf,
\* process_map_binary, paging_get_physical_address).
THEOREM BytesInPlace == ASSUME NonzeroFiles, SegmentsFit PROVE Spec => []SegmentBytes
  <1>1. IInv => SegmentBytes
    BY InvSegmentBytes
  <1> QED
    BY <1>1, Invariance, PTL

-----------------------------------------------------------------------------
(* The bounds of an ELF file                                               *)

\* No loadable segment, wherever its file is, ends past the address space:
\* the additions of elf_process_phdr_pt_load do not overflow.
EndsInWord ==
    \A f \in FileSet, memory \in Places : \A i \in DOMAIN f.phdrs :
        f.phdrs[i].type = PT_LOAD =>
            /\ f.phdrs[i].vaddr + f.phdrs[i].filesz < Word
            /\ memory + f.phdrs[i].offset + f.phdrs[i].filesz < Word

\* A header that ElfBounds is about
Placed(ph, memory) ==
    /\ ph.offset \in Nat /\ ph.vaddr \in Nat \ {0} /\ ph.filesz \in Nat
    /\ ph.vaddr + ph.filesz < Word
    /\ memory + ph.offset + ph.filesz < Word

\* b are the bounds of the headers H: the ends of them all, each with the
\* place in memory of the header it is from
BoundsOf(b, memory, H) ==
    IF H = {} THEN b = NoBounds
    ELSE /\ \A h \in H : b.vbase =< h.vaddr /\ h.vaddr + h.filesz =< b.vend
         /\ \E h \in H : b.vbase = h.vaddr /\ b.pbase = memory + h.offset
         /\ \E h \in H : b.vend = h.vaddr + h.filesz /\ b.pend = memory + h.offset + h.filesz

\* What elf_process_phdr_pt_load assigns when no addition overflows
LEMMA PtLoad ==
    ASSUME NEW b \in Bounds, NEW memory \in Nat, NEW ph, Placed(ph, memory),
           NEW r, r = elf_process_phdr_pt_load(b, memory, ph)
    PROVE  /\ r \in Bounds
           /\ IF b.vbase >= ph.vaddr \/ b.vbase = 0
              THEN r.vbase = ph.vaddr /\ r.pbase = memory + ph.offset
              ELSE r.vbase = b.vbase /\ r.pbase = b.pbase
           /\ IF b.vend =< ph.vaddr + ph.filesz \/ b.vend = 0
              THEN r.vend = ph.vaddr + ph.filesz /\ r.pend = memory + ph.offset + ph.filesz
              ELSE r.vend = b.vend /\ r.pend = b.pend
  <1>1. /\ ph.offset \in Nat /\ ph.vaddr \in Nat \ {0} /\ ph.filesz \in Nat /\ Word \in Nat \ {0}
        /\ ph.vaddr + ph.filesz < Word
        /\ memory + ph.offset + ph.filesz < Word
    BY PageFacts DEF Placed
  <1>2. /\ (ph.vaddr + ph.filesz) % Word = ph.vaddr + ph.filesz
        /\ (memory + ph.offset) % Word = memory + ph.offset
        /\ (memory + ph.offset + ph.filesz) % Word = memory + ph.offset + ph.filesz
    <2>1. ASSUME NEW x \in Nat, x < Word PROVE x % Word = x
      BY <1>1, <2>1, Z3
    <2> QED
      BY <1>1, <2>1
  <1> QED
    BY <1>1, <1>2 DEF elf_process_phdr_pt_load, Bounds

LEMMA BoundsStep ==
    ASSUME NEW b \in Bounds, NEW memory \in Nat, NEW H, \A h \in H : Placed(h, memory),
           NEW ph, Placed(ph, memory), BoundsOf(b, memory, H)
    PROVE  BoundsOf(elf_process_phdr_pt_load(b, memory, ph), memory, H \cup {ph})
  <1>1. PICK r : r = elf_process_phdr_pt_load(b, memory, ph)
    OBVIOUS
  <1>2. /\ r \in Bounds
        /\ IF b.vbase >= ph.vaddr \/ b.vbase = 0
           THEN r.vbase = ph.vaddr /\ r.pbase = memory + ph.offset
           ELSE r.vbase = b.vbase /\ r.pbase = b.pbase
        /\ IF b.vend =< ph.vaddr + ph.filesz \/ b.vend = 0
           THEN r.vend = ph.vaddr + ph.filesz /\ r.pend = memory + ph.offset + ph.filesz
           ELSE r.vend = b.vend /\ r.pend = b.pend
    BY <1>1, PtLoad
  <1>3. \A h \in H \cup {ph} : h.offset \in Nat /\ h.vaddr \in Nat \ {0} /\ h.filesz \in Nat
    BY DEF Placed
  <1>4. b.vbase \in Nat /\ b.vend \in Nat /\ r.vbase \in Nat /\ r.vend \in Nat
    BY <1>2 DEF Bounds
  <1>5. CASE H = {}
    <2>1. b.vbase = 0 /\ b.vend = 0
      BY <1>5 DEF BoundsOf, NoBounds
    <2>2. /\ r.vbase = ph.vaddr /\ r.pbase = memory + ph.offset
          /\ r.vend = ph.vaddr + ph.filesz /\ r.pend = memory + ph.offset + ph.filesz
      BY <1>2, <2>1
    <2> QED
      BY <1>1, <1>3, <1>5, <2>2 DEF BoundsOf
  <1>6. CASE H # {}
    <2>1. /\ \A h \in H : b.vbase =< h.vaddr /\ h.vaddr + h.filesz =< b.vend
          /\ \E h \in H : b.vbase = h.vaddr /\ b.pbase = memory + h.offset
          /\ \E h \in H : b.vend = h.vaddr + h.filesz /\ b.pend = memory + h.offset + h.filesz
      BY <1>6 DEF BoundsOf
    <2>2. b.vbase # 0 /\ b.vend # 0
      BY <1>3, <2>1
    <2>3. r.vbase =< b.vbase /\ r.vbase =< ph.vaddr /\ b.vend =< r.vend /\ ph.vaddr + ph.filesz =< r.vend
      BY <1>2, <1>3, <1>4, <2>2
    <2>4. ASSUME NEW h \in H \cup {ph} PROVE r.vbase =< h.vaddr /\ h.vaddr + h.filesz =< r.vend
      BY <1>3, <1>4, <2>1, <2>3
    <2>5. \E h \in H \cup {ph} : r.vbase = h.vaddr /\ r.pbase = memory + h.offset
      BY <1>2, <2>1, <2>2
    <2>6. \E h \in H \cup {ph} : r.vend = h.vaddr + h.filesz /\ r.pend = memory + h.offset + h.filesz
      BY <1>2, <2>1, <2>2
    <2>7. H \cup {ph} # {}
      OBVIOUS
    <2> QED
      BY <1>1, <2>4, <2>5, <2>6, <2>7 DEF BoundsOf
  <1> QED
    BY <1>5, <1>6

LEMMA BoundsFound ==
    ASSUME NEW f \in FileSet, NEW memory \in Places, \A h \in LoadHeaders(f) : Placed(h, memory)
    PROVE  BoundsOf(elf_process_pheaders(f, memory), memory, LoadHeaders(f))
  <1>1. PICK n \in Nat : n = Len(f.phdrs) /\ DOMAIN f.phdrs = 1..n
    BY FileFacts
  <1>2. PICK g \in [0..n -> Bounds] :
                /\ g[0] = NoBounds
                /\ \A i \in 1..n : g[i] = Bounded(g[i - 1], memory, f.phdrs[i])
                /\ elf_process_pheaders(f, memory) = g[n]
    BY <1>1, BoundsLoop
  <1>3. memory \in Nat
    BY PlaceFacts
  <1> DEFINE Heads(i) == {f.phdrs[k] : k \in {j \in 1..i : f.phdrs[j].type = PT_LOAD}}
             S == {i \in 0..n : BoundsOf(g[i], memory, Heads(i))}
  <1>4. Heads(n) = LoadHeaders(f)
    BY <1>1 DEF LoadHeaders
  <1>5. 0 \in S
    <2>1. Heads(0) = {}
      OBVIOUS
    <2> QED
      BY <1>2, <2>1 DEF BoundsOf
  <1>6. ASSUME NEW k \in 0..(n - 1), k \in S PROVE k + 1 \in S
    <2>1. k + 1 \in 1..n /\ k + 1 \in 0..n /\ (k + 1) - 1 = k /\ k \in 0..n
      OBVIOUS
    <2>2. PICK ph : ph = f.phdrs[k + 1]
      OBVIOUS
    <2>3. g[k + 1] = Bounded(g[k], memory, ph) /\ g[k] \in Bounds
      BY <1>2, <2>1, <2>2
    <2>4. BoundsOf(g[k], memory, Heads(k))
      BY <1>6
    <2>5. \A j \in 1..(k + 1) : j \in 1..k \/ j = k + 1
      BY <2>1
    <2>6. CASE ph.type = PT_LOAD
      <3>1. Heads(k + 1) = Heads(k) \cup {ph}
        BY <2>1, <2>2, <2>5, <2>6
      <3>2. Heads(k) \cup {ph} \subseteq LoadHeaders(f)
        BY <1>1, <2>1, <2>2, <2>6 DEF LoadHeaders
      <3> HIDE DEF Heads
      <3>3. BoundsOf(elf_process_phdr_pt_load(g[k], memory, ph), memory, Heads(k) \cup {ph})
        BY <1>3, <2>3, <2>4, <3>2, BoundsStep
      <3> QED
        BY <2>1, <2>3, <2>6, <3>1, <3>3 DEF Bounded
    <2>7. CASE ph.type # PT_LOAD
      <3>1. Heads(k + 1) = Heads(k)
        BY <2>1, <2>2, <2>5, <2>7
      <3> HIDE DEF Heads
      <3> QED
        BY <2>1, <2>3, <2>4, <2>7, <3>1 DEF Bounded
    <2> QED
      BY <2>6, <2>7
  <1> HIDE DEF S
  <1>7. 0..n \subseteq S
    BY <1>5, <1>6, SetInduction, Zenon
  <1>8. BoundsOf(g[n], memory, Heads(n))
    <2>1. n \in 0..n
      OBVIOUS
    <2> QED
      BY <1>7, <2>1 DEF S
  <1> QED
    BY <1>2, <1>4, <1>8

LEMMA InvElfBounds ==
    ASSUME NonzeroFiles, EndsInWord, IInv
    PROVE  ElfBounds
  <1> SUFFICES ASSUME NEW l \in Running, NEW p, p = procs[l], NEW loads, loads = LoadHeaders(p.file),
                      p.filetype = "ELF", loads # {}, \A ph \in loads : ph.vaddr > 0
               PROVE  /\ p.bounds.vbase = Min({ph.vaddr : ph \in loads})
                      /\ p.bounds.vend = Max({ph.vaddr + ph.filesz : ph \in loads})
                      /\ \E ph \in loads : /\ p.bounds.vbase = ph.vaddr
                                           /\ p.bounds.pbase = p.memory + ph.offset
                      /\ \E ph \in loads : /\ p.bounds.vend = ph.vaddr + ph.filesz
                                           /\ p.bounds.pend = p.memory + ph.offset + ph.filesz
    BY DEF ElfBounds
  <1>1. /\ p.file \in FileSet /\ p.memory \in Places
        /\ p.bounds = elf_process_pheaders(p.file, p.memory)
    BY RunningFacts DEF Alive
  <1>2. ASSUME NEW h \in loads PROVE Placed(h, p.memory)
    <2>1. PICK i \in DOMAIN p.file.phdrs : h = p.file.phdrs[i] /\ p.file.phdrs[i].type = PT_LOAD
      BY DEF LoadHeaders
    <2>2. h.offset \in Nat /\ h.vaddr \in Nat /\ h.filesz \in Nat
      BY <1>1, <2>1, FileFacts
    <2>3. h.vaddr + h.filesz < Word /\ p.memory + h.offset + h.filesz < Word
      BY <1>1, <2>1 DEF EndsInWord
    <2> QED
      BY <2>2, <2>3 DEF Placed
  <1>3. BoundsOf(p.bounds, p.memory, loads)
    BY <1>1, <1>2, BoundsFound
  <1>4. /\ \A h \in loads : p.bounds.vbase =< h.vaddr /\ h.vaddr + h.filesz =< p.bounds.vend
        /\ \E h \in loads : p.bounds.vbase = h.vaddr /\ p.bounds.pbase = p.memory + h.offset
        /\ \E h \in loads : p.bounds.vend = h.vaddr + h.filesz /\ p.bounds.pend = p.memory + h.offset + h.filesz
    BY <1>3 DEF BoundsOf
  <1>5. \A h \in loads : h.vaddr \in Nat /\ h.filesz \in Nat
    BY <1>2 DEF Placed
  <1>6. p.bounds.vbase = Min({ph.vaddr : ph \in loads})
    <2> DEFINE V == {ph.vaddr : ph \in loads}
    <2>1. V \subseteq Nat /\ p.bounds.vbase \in V /\ \A y \in V : p.bounds.vbase =< y
      BY <1>4, <1>5
    <2> HIDE DEF V
    <2>2. Min(V) \in V /\ \A y \in V : Min(V) =< y
      BY <2>1, MinIsLeast
    <2>3. p.bounds.vbase \in Nat /\ Min(V) \in Nat
      BY <2>1, <2>2, Zenon
    <2>4. p.bounds.vbase =< Min(V) /\ Min(V) =< p.bounds.vbase
      BY <2>1, <2>2, Zenon
    <2>5. p.bounds.vbase = Min(V)
      BY <2>3, <2>4
    <2> QED
      BY <2>5 DEF V
  <1>7. p.bounds.vend = Max({ph.vaddr + ph.filesz : ph \in loads})
    <2> DEFINE V == {ph.vaddr + ph.filesz : ph \in loads}
    <2>1. V \subseteq Nat /\ p.bounds.vend \in V /\ \A y \in V : p.bounds.vend >= y
      BY <1>4, <1>5
    <2> HIDE DEF V
    <2>2. Max(V) \in V /\ \A y \in V : Max(V) >= y
      BY <2>1 DEF Max
    <2>3. p.bounds.vend \in Nat /\ Max(V) \in Nat
      BY <2>1, <2>2, Zenon
    <2>4. p.bounds.vend >= Max(V) /\ Max(V) >= p.bounds.vend
      BY <2>1, <2>2, Zenon
    <2>5. p.bounds.vend = Max(V)
      BY <2>3, <2>4
    <2> QED
      BY <2>5 DEF V
  <1> QED
    BY <1>4, <1>6, <1>7

\* The bounds elf_load computes in one pass are the lowest address and the
\* highest end of the loadable headers, with their places in memory, for any
\* number of headers in any order (elf_process_phdr_pt_load), when no
\* segment ends past the address space.
THEOREM BoundsOfHeaders == ASSUME NonzeroFiles, EndsInWord PROVE Spec => []ElfBounds
  <1>1. IInv => ElfBounds
    BY InvElfBounds
  <1> QED
    BY <1>1, Invariance, PTL

-----------------------------------------------------------------------------
(* CrashNeedsLeaks                                                         *)

\* The heap has room for the kernel's pages and PEACHOS_MAX_PROCESSES loads
\* of at most need blocks each, and no file needs more.
HeapHasRoom(need) ==
    /\ \A f \in FileSet : LoadNeeds(f) =< need
    /\ Entries + 2 + MaxProcesses * need =< Total

\* A program holds memory of its own, or a load has left some behind.
Leaked ==
    \E a \in mem.held :
        \/ a.owner.load = Kernel /\ a.owner.kind = "malloc"
        \/ a.owner.load \in Loads /\ procs[a.owner.load].state \in {"ended", "failed"}

\* All loads so far are running, and took the first blocks of the heap.
Quiet(need) ==
    /\ ~crashed
    /\ \E n \in 0..MaxLoads :
            /\ \A k \in Loads : procs[k].state = IF k =< n THEN "running" ELSE "none"
            /\ Low(mem.entries, Entries + 2 + n * need)

RoomInv(need) == CrashNeedsLeaks /\ (Leaked \/ Quiet(need))

\* Which blocks are free depends on what is held alone.
LEMMA LowSame ==
    ASSUME NEW m, MemOK(m), NEW n, MemOK(n), n.held = m.held, NEW k, Low(m.entries, k)
    PROVE  Low(n.entries, k)
  <1>1. {c \in Blocks : ~IsFree(m.entries, c)} = {c \in Blocks : ~IsFree(n.entries, c)}
    BY TakenBlocks
  <1> QED
    BY <1>1 DEF Low

LEMMA RoomOfLoads ==
    ASSUME NEW need \in Nat, HeapHasRoom(need), NEW n \in Nat, n < MaxProcesses
    PROVE  /\ Entries + 2 + n * need \in Nat
           /\ Entries + 2 + (n + 1) * need = (Entries + 2 + n * need) + need
           /\ (Entries + 2 + n * need) + need =< Total
  <1>1. Entries \in Nat /\ MaxProcesses \in Nat /\ Total \in Nat
    BY LoadingAssumption, PageFacts
  <1>2. PICK d \in Nat : MaxProcesses = (n + 1) + d
    <2>1. MaxProcesses - (n + 1) \in Nat /\ MaxProcesses = (n + 1) + (MaxProcesses - (n + 1))
      BY <1>1
    <2> QED
      BY <2>1
  <1>3. /\ MaxProcesses * need = (n + 1) * need + d * need /\ d * need \in Nat
        /\ (n + 1) * need = n * need + need /\ n * need \in Nat
    <2>1. ASSUME NEW a \in Nat, NEW b \in Nat PROVE (a + b) * need = a * need + b * need /\ b * need \in Nat
      BY Z3
    <2>2. 1 * need = need /\ n + 1 \in Nat
      OBVIOUS
    <2> QED
      BY <1>2, <2>1, <2>2
  <1> QED
    BY <1>1, <1>3 DEF HeapHasRoom

LEMMA InitRoom ==
    ASSUME NEW need \in Nat, Init
    PROVE  RoomInv(need)
  <1>1. PICK r : r = paging_new_4gb(Fresh, UserWritable, Kernel)
    OBVIOUS
  <1>2. PICK bs \in Burdens : mem = Burdened(r.mem, bs)
    BY <1>1 DEF Init, Fresh
  <1>3. PICK m : m = r.mem
    OBVIOUS
  <1>4. /\ Entries + 2 =< Total /\ Entries + 2 \in Nat
        /\ bs \in SUBSET ((Entries + 2)..(Total - 1))
    BY <1>2, LoadingAssumption, PageFacts
  <1>5. Uses(Fresh, m, Entries + 2) /\ MemOK(m)
    BY <1>1, <1>3, FreshMemory, UserFlagsType, NewSpace DEF Grown
  <1>6. Low(m.entries, Entries + 2)
    <2>1. 0 \in Nat /\ 0 + (Entries + 2) = Entries + 2
      BY <1>4
    <2> QED
      BY <1>4, <1>5, <2>1, FreshMemory DEF Uses
  <1>7. MemOK(mem) /\ mem.held = m.held \cup {Malloc(b) : b \in bs}
    BY <1>2, <1>3, <1>4, <1>5, <1>6, BurdenedOK
  <1>8. crashed = FALSE /\ \A k \in Loads : procs[k].state = "none"
    BY DEF Init, NoProcess
  <1>9. CASE bs = {}
    <2>1. mem.held = m.held
      BY <1>7, <1>9
    <2>2. Low(mem.entries, Entries + 2)
      BY <1>5, <1>6, <1>7, <2>1, LowSame
    <2>3. Entries + 2 + 0 * need = Entries + 2 /\ 0 \in 0..MaxLoads
      BY <1>4, LoadingAssumption
    <2>4. \A k \in Loads : ~(k =< 0)
      BY LoadingAssumption DEF Loads
    <2>5. \A k \in Loads : procs[k].state = IF k =< 0 THEN "running" ELSE "none"
      BY <1>8, <2>4
    <2>6. Quiet(need)
      BY <1>8, <2>2, <2>3, <2>5 DEF Quiet
    <2> QED
      BY <1>8, <2>6 DEF RoomInv, CrashNeedsLeaks
  <1>10. CASE bs # {}
    <2>1. PICK b \in bs : TRUE
      BY <1>10
    <2>2. Malloc(b) \in mem.held
      BY <1>7, <2>1
    <2>3. Malloc(b).owner.load = Kernel /\ Malloc(b).owner.kind = "malloc"
      BY DEF Malloc, Piece
    <2>4. Leaked
      BY <2>2, <2>3 DEF Leaked
    <2> QED
      BY <1>8, <2>4 DEF RoomInv, CrashNeedsLeaks
  <1> QED
    BY <1>9, <1>10

\* What was left behind stays while load l changes.
LEMMA LeakStays ==
    ASSUME IInv, NEW l \in Loads, Frame(mem, mem', l), procs[l].state \notin {"ended", "failed"},
           \A k \in Loads : k # l => procs'[k] = procs[k],
           NEW a \in mem.held,
           \/ a.owner.load = Kernel /\ a.owner.kind = "malloc"
           \/ a.owner.load \in Loads /\ procs[a.owner.load].state \in {"ended", "failed"}
    PROVE  /\ a \in mem'.held
           /\ a.owner.load \in Loads => procs'[a.owner.load] = procs[a.owner.load]
           /\ Leaked'
  <1>1. a.owner.load \in Loads \cup {Kernel} /\ a.owner.load # l
    BY KernelApart
  <1>2. a \in Mine(mem, a.owner.load)
    BY DEF Mine
  <1>3. a \in Mine(mem', a.owner.load)
    BY <1>1, <1>2 DEF Frame
  <1>4. a \in mem'.held
    BY <1>3 DEF Mine
  <1>5. a.owner.load \in Loads => procs'[a.owner.load] = procs[a.owner.load]
    BY <1>1
  <1>6. \/ a.owner.load = Kernel /\ a.owner.kind = "malloc"
        \/ a.owner.load \in Loads /\ procs'[a.owner.load].state \in {"ended", "failed"}
    BY <1>5
  <1>7. Leaked'
    BY <1>4, <1>6 DEF Leaked
  <1> QED
    BY <1>4, <1>5, <1>7

LEMMA LoadRoom ==
    ASSUME NonzeroFiles, NEW need \in Nat, HeapHasRoom(need), IInv, RoomInv(need),
           NEW l \in Loads, NEW f \in FileSet, Load(l, f)
    PROVE  RoomInv(need)'
  <1>1. PICK r : /\ r = process_load_for_slot(mem, f, l)
                 /\ mem' = r.mem /\ procs' = [procs EXCEPT ![l] = r.process]
                 /\ crashed' = r.crash
    BY DEF Load
  <1>2. /\ ~crashed /\ Cardinality(Running) < MaxProcesses
        /\ \A k \in Loads : procs[k].state = "none" <=> k >= l
    BY DEF Load
  <1>3. procs[l].state = "none" /\ l \in Nat /\ l >= 1
    BY <1>2 DEF Loads
  <1>4. MemOK(mem) /\ Mine(mem, l) = {} /\ procs \in [Loads -> Process]
    BY <1>3 DEF IInv, Status
  <1>5. Loaded(mem, l, f, r)
    BY <1>1, <1>4, LoadForSlot
  <1>6. /\ Frame(mem, mem', l) /\ procs'[l] = r.process /\ \A k \in Loads : k # l => procs'[k] = procs[k]
        /\ r.process.state \in {"running", "failed"}
        /\ Mine(mem', l) = {} => Full(mem.entries)
        /\ r.process.state = "running" => Uses(mem, mem', LoadNeeds(f))
        /\ crashed' => ~HasRoom(mem, LoadNeeds(f))
    BY <1>1, <1>4, <1>5 DEF Loaded
  <1>7. CASE Leaked
    <2>1. PICK a \in mem.held :
            \/ a.owner.load = Kernel /\ a.owner.kind = "malloc"
            \/ a.owner.load \in Loads /\ procs[a.owner.load].state \in {"ended", "failed"}
      BY <1>7 DEF Leaked
    <2>2. /\ a \in mem'.held /\ Leaked'
          /\ a.owner.load \in Loads => procs'[a.owner.load] = procs[a.owner.load]
      BY <1>3, <1>6, <2>1, LeakStays
    <2>3. CrashNeedsLeaks'
      <3>1. CASE a.owner.kind = "malloc"
        BY <2>2, <3>1 DEF CrashNeedsLeaks
      <3>2. CASE a.owner.kind # "malloc"
        <4>1. PICK j \in Loads : j = a.owner.load
          BY <2>1, <3>2
        <4>2. procs[j].state \in {"ended", "failed"} /\ procs'[j].state \in {"ended", "failed"}
          BY <2>1, <2>2, <3>2, <4>1
        <4>3. l > j
          BY <1>2, <1>3, <4>2 DEF Loads
        <4>4. procs'[l].state # "none"
          BY <1>6
        <4> QED
          BY <2>2, <4>1, <4>2, <4>3, <4>4 DEF CrashNeedsLeaks
      <3> QED
        BY <3>1, <3>2
    <2> QED
      BY <2>2, <2>3 DEF RoomInv
  <1>8. CASE Quiet(need)
    <2>1. PICK n \in 0..MaxLoads : /\ \A k \in Loads : procs[k].state = IF k =< n THEN "running" ELSE "none"
                                   /\ Low(mem.entries, Entries + 2 + n * need)
      BY <1>8 DEF Quiet
    <2>2. MaxLoads \in Nat /\ n \in Nat /\ MaxProcesses \in Nat
      BY LoadingAssumption
    <2>3. l = n + 1
      <3>1. ~(l =< n)
        BY <1>3, <2>1
      <3>2. ASSUME l > n + 1 PROVE FALSE
        <4>1. n + 1 \in Loads /\ ~(n + 1 =< n) /\ ~(n + 1 >= l)
          BY <1>3, <2>2, <3>2 DEF Loads
        <4>2. procs[n + 1].state = "none"
          BY <2>1, <4>1
        <4> QED
          BY <1>2, <4>1, <4>2
      <3> QED
        BY <1>3, <2>2, <3>1, <3>2
    <2>4. n < MaxProcesses
      <3>1. Running = 1..n
        <4>1. \A k \in Loads : procs[k].state = "running" <=> k =< n
          BY <2>1
        <4>2. 1..n \subseteq Loads /\ \A k \in Loads : k =< n <=> k \in 1..n
          BY <2>2 DEF Loads
        <4> QED
          BY <4>1, <4>2 DEF Running
      <3>2. Cardinality(1..(1 + n - 1)) = n
        BY <2>2, IntervalCount
      <3>3. 1 + n - 1 = n
        BY <2>2
      <3> QED
        BY <1>2, <3>1, <3>2, <3>3
    <2>5. PICK K : K = Entries + 2 + n * need
      OBVIOUS
    <2>6. K \in Nat /\ Entries + 2 + (n + 1) * need = K + need /\ K + need =< Total
      BY <2>2, <2>4, <2>5, RoomOfLoads
    <2>7. LoadNeeds(f) \in Nat /\ LoadNeeds(f) =< need /\ LoadNeeds(f) >= 1
      <3>1. LoadNeeds(f) >= 1
        BY NeedsType DEF LoadNeeds
      <3> QED
        BY <3>1, NeedsType DEF HeapHasRoom
    <2>8. Low(mem.entries, K) /\ K + LoadNeeds(f) =< Total /\ Total \in Nat
      <3>1. Total \in Nat
        BY PageFacts
      <3>2. Low(mem.entries, K)
        BY <2>1, <2>5
      <3> QED
        BY <2>6, <2>7, <3>1, <3>2
    <2>9. HasRoom(mem, LoadNeeds(f))
      BY <2>6, <2>8 DEF HasRoom
    <2>10. ~crashed'
      BY <1>6, <2>9
    <2>11. CASE r.process.state = "running"
      <3>1. Uses(mem, mem', need)
        BY <1>6, <2>7, <2>11, UsesMore
      <3>2. Low(mem'.entries, K + need)
        BY <2>6, <2>8, <3>1 DEF Uses
      <3>3. Low(mem'.entries, Entries + 2 + (n + 1) * need)
        BY <2>6, <3>2
      <3>4. n + 1 \in 0..MaxLoads
        BY <2>2, <2>3 DEF Loads
      <3>5. ASSUME NEW k \in Loads PROVE procs'[k].state = IF k =< n + 1 THEN "running" ELSE "none"
        <4>1. CASE k = l
          BY <1>6, <2>2, <2>3, <2>11, <4>1
        <4>2. CASE k # l
          <5>1. k =< n <=> k =< n + 1
            BY <2>2, <2>3, <4>2 DEF Loads
          <5> QED
            BY <1>6, <2>1, <4>2, <5>1
        <4> QED
          BY <4>1, <4>2
      <3>6. Quiet(need)'
        BY <2>10, <3>3, <3>4, <3>5 DEF Quiet
      <3> QED
        BY <2>10, <3>6 DEF RoomInv, CrashNeedsLeaks
    <2>12. CASE r.process.state = "failed"
      <3>1. ~Full(mem.entries)
        <4>1. K \in Blocks /\ K >= K
          BY <2>6, <2>7, <2>8, CellsFacts
        <4> QED
          BY <2>8, <4>1 DEF Low, Full
      <3>2. PICK a \in mem'.held : a.owner.load = l
        BY <1>6, <3>1 DEF Mine
      <3>3. Leaked'
        BY <1>6, <2>12, <3>2 DEF Leaked
      <3> QED
        BY <2>10, <3>3 DEF RoomInv, CrashNeedsLeaks
    <2> QED
      BY <1>6, <2>11, <2>12
  <1> QED
    BY <1>7, <1>8 DEF RoomInv

LEMMA TerminateRoom ==
    ASSUME NEW need, IInv, NEW l \in Loads, Terminate(l)
    PROVE  RoomInv(need)'
  <1>1. /\ procs \in [Loads -> Process] /\ ~crashed' /\ procs[l].state = "running"
        /\ procs' = [procs EXCEPT ![l].state = "ended"]
    BY DEF IInv, Terminate, Running
  <1>2. procs'[l].state = "ended"
    BY <1>1 DEF Process
  <1>3. Status(mem', l, procs'[l], crashed')
    BY TerminateInv DEF IInv
  <1>4. PICK a \in mem'.held : a.owner.load = l
    BY <1>2, <1>3 DEF Status, Mine
  <1>5. Leaked'
    BY <1>2, <1>4 DEF Leaked
  <1> QED
    BY <1>1, <1>5 DEF RoomInv, CrashNeedsLeaks

LEMMA CopyStringRoom ==
    ASSUME NEW need, IInv, RoomInv(need), NEW l \in Loads, CopyString(l)
    PROVE  RoomInv(need)'
  <1>1. PICK p \in Process : p = procs[l]
    BY DEF IInv
  <1>2. MemOK(mem) /\ Alive(mem, l, p)
    BY <1>1 DEF IInv, Status, CopyString, Running
  <1>3. /\ mem' = copy_string_from_task(mem, p, l) /\ procs' = procs
        /\ ~crashed /\ ~crashed'
    BY <1>1 DEF CopyString
  <1>4. MemOK(mem') /\ mem'.held = mem.held
    BY <1>2, <1>3, Copied
  <1>5. Leaked => Leaked'
    BY <1>3, <1>4 DEF Leaked
  <1>6. \A k : Low(mem.entries, k) => Low(mem'.entries, k)
    BY <1>2, <1>4, LowSame
  <1>7. Quiet(need) => Quiet(need)'
    BY <1>3, <1>6 DEF Quiet
  <1> QED
    BY <1>3, <1>5, <1>7 DEF RoomInv, CrashNeedsLeaks

\* With room in the heap for PEACHOS_MAX_PROCESSES programs, as config.h
\* leaves it for programs of up to two megabytes, the kernel is lost in
\* process_load_for_slot only while a program holds memory of its own or
\* after a load that ended or failed and left some behind.
THEOREM CrashesNeedLeaks ==
    ASSUME NonzeroFiles, NEW need \in Nat, HeapHasRoom(need)
    PROVE  Spec => []CrashNeedsLeaks
  <1>1. Init => RoomInv(need)
    BY InitRoom
  <1>2. IInv /\ RoomInv(need) /\ UNCHANGED vars => RoomInv(need)'
    BY DEF RoomInv, Leaked, Quiet, CrashNeedsLeaks, vars
  <1>3. IInv /\ RoomInv(need) /\ Next => RoomInv(need)'
    BY LoadRoom, TerminateRoom, CopyStringRoom DEF Next
  <1>4. RoomInv(need) => CrashNeedsLeaks
    BY DEF RoomInv
  <1> QED
    BY <1>1, <1>2, <1>3, <1>4, Invariance, PTL DEF Spec
=============================================================================
