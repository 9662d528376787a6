------------------------------- MODULE Paging -------------------------------
(***************************************************************************)
(* The functions of src/memory/paging/paging.c, and kzalloc and kfree as   *)
(* their callers use them, as operators on the memory m of the machine:    *)
(*   m.entries  the bytes of the heap's table (HeapTable.tla);             *)
(*   m.ram      the words of every page that kzalloc and paging.c write;   *)
(*   m.held     the allocations nobody has freed, each with its owner.     *)
(*                                                                         *)
(* The levels are kept as they are: a struct paging_4gb_chunk points to a  *)
(* directory, whose entries point to tables, and all of them are pages of  *)
(* the heap that kfree and kzalloc can recycle.                            *)
(***************************************************************************)
EXTENDS HeapTable

CONSTANT Entries        \* PAGING_TOTAL_ENTRIES_PER_TABLE

\* PAGING_PAGE_SIZE; a page and a block of the heap are both 4096 bytes
PageSize == BlockSize

Indexes == 0..(Entries - 1)
Pages   == 0..(Entries * Entries - 1)

ASSUME PagingAssumption ==
    /\ Entries \in Nat \ {0}
    /\ Word = Entries * Entries * PageSize
    /\ HeapStart + HeapBytes + Slack * PageSize =< Word

\* PAGING_IS_PRESENT, PAGING_IS_WRITEABLE, PAGING_ACCESS_FROM_ALL
PageFlags == {"PRESENT", "WRITEABLE", "ALL"}

\* A word of a table: the address of a page in its upper bits, flags below
Entry == [page : Pages, flags : SUBSET PageFlags]

ZeroPage == [i \in Indexes |-> [page |-> 0, flags |-> {}]]

PageOf(address) == address \div PageSize

-----------------------------------------------------------------------------
(* kheap.c                                                                 *)

\* The memory after kzalloc(size), and the pointer it returns
kzalloc(m, size, owner) ==
    LET Given(start, ptr, n) ==
            [entries |-> heap_mark_blocks_taken(m.entries, start, n),
             ram  |-> [p \in Pages |-> IF p - PageOf(ptr) \in 0..(n - 1) THEN ZeroPage
                                       ELSE m.ram[p]],
             held |-> m.held \cup {[ptr |-> ptr, blocks |-> k, owner |-> owner] :
                                        k \in {n} \ {0}}]
        From(start, n) ==
            IF start < 0
            THEN [mem |-> m, ptr |-> NULL]
            ELSE [mem |-> Given(start, heap_block_to_address(start), n),
                  ptr |-> heap_block_to_address(start)]
    IN  From(heap_get_start_block(m.entries, BlocksFor(size)), BlocksFor(size))

kfree(m, ptr) ==
    [m EXCEPT !.entries = heap_mark_blocks_free(@, heap_address_to_block(ptr)),
              !.held = {a \in @ : a.ptr # ptr}]

-----------------------------------------------------------------------------
(* paging.c                                                                *)

paging_is_aligned(address) == address % PageSize = 0

paging_align_to_lower_page(address) == address - (address % PageSize)

paging_align_address(address) ==
    IF paging_is_aligned(address)
    THEN address
    ELSE (address + PageSize - (address % PageSize)) % Word

\* paging_get_indexes of an aligned address
DirectoryIndex(virt) == virt \div (Entries * PageSize)
TableIndex(virt)     == (virt % (Entries * PageSize)) \div PageSize

\* chunk->directory_entry, the word at the start of the chunk
directory_entry(m, chunk) == m.ram[PageOf(chunk)][0].page * PageSize

\* The page of the table that the directory names for an address
TableOf(m, directory, virt) == m.ram[PageOf(directory)][DirectoryIndex(virt)].page

paging_get(m, directory, virt) == m.ram[TableOf(m, directory, virt)][TableIndex(virt)]

\* paging_set of an aligned address
paging_set(m, directory, virt, val) ==
    [m EXCEPT !.ram[TableOf(m, directory, virt)][TableIndex(virt)] = val]

paging_get_physical_address(m, directory, virt) ==
    paging_get(m, directory, paging_align_to_lower_page(virt)).page * PageSize
        + (virt % PageSize)

\* paging_map of aligned addresses
paging_map(m, chunk, virt, phys, flags) ==
    paging_set(m, directory_entry(m, chunk), virt, [page |-> PageOf(phys), flags |-> flags])

\* Mutant: the physical address does not advance with the virtual one.
paging_map_range_same(m, chunk, virt, phys, count, flags) ==
    LET after[i \in 0..count] ==
            IF i = 0 THEN m
            ELSE paging_map(after[i - 1], chunk, (virt + (i - 1) * PageSize) % Word, phys, flags)
    IN  after[count]

\* The loop of paging_map_range; pointers wrap around
paging_map_range(m, chunk, virt, phys, count, flags) ==
    LET after[i \in 0..count] ==
            IF i = 0 THEN m
            ELSE paging_map(after[i - 1], chunk,
                            (virt + (i - 1) * PageSize) % Word,
                            (phys + (i - 1) * PageSize) % Word, flags)
    IN  after[count]

\* The memory after paging_map_to, and whether it refuses with -EINVARG
paging_map_to(m, chunk, virt, phys, phys_end, flags) ==
    LET refused == \/ \E a \in {virt, phys, phys_end} : ~paging_is_aligned(a)
                   \/ phys_end < phys
    IN  [mem |-> IF refused THEN m
                 ELSE paging_map_range(m, chunk, virt, phys,
                                       (phys_end - phys) \div PageSize, flags),
         ok  |-> ~refused]

\* Mutant: offset is advanced before the table is filled in.
PlainTableNext(i, flags) ==
    [b \in Indexes |-> [page |-> (i + 1) * Entries + b, flags |-> flags]]

\* The table that paging_new_4gb fills in for directory entry i
PlainTable(i, flags) ==
    [b \in Indexes |-> [page |-> i * Entries + b, flags |-> flags]]

\* paging_new_4gb: the directory, then the tables, then the chunk.  Nothing
\* is checked: a table kzalloc refuses is written at address 0.  The answer
\* is null when the last of them, the chunk, is refused.
paging_new_4gb(m, flags, load) ==
    LET Page(now, kind) == kzalloc(now, PageSize, [load |-> load, kind |-> kind])
        Linked(directory, i, table) ==
            [table.mem EXCEPT
                !.ram[PageOf(table.ptr)] = PlainTable(i, flags),
                !.ram[PageOf(directory)][i] =
                    [page |-> PageOf(table.ptr), flags |-> flags \cup {"WRITEABLE"}]]
        Tables(now, directory) ==
            LET after[i \in 0..Entries] ==
                    IF i = 0 THEN now
                    ELSE Linked(directory, i - 1, Page(after[i - 1], "table"))
            IN  after[Entries]
        Named(directory, chunk) ==
            [chunk EXCEPT !.mem.ram[PageOf(chunk.ptr)][0] =
                [page |-> PageOf(directory), flags |-> {}]]
        Space(dir) == Named(dir.ptr, Page(Tables(dir.mem, dir.ptr), "chunk"))
    IN  Space(Page(m, "directory"))

\* Mutant: the loop stops one table short.
paging_free_4gb_short(m, chunk) ==
    LET directory == directory_entry(m, chunk)
        after[i \in 0..(Entries - 1)] ==
            IF i = 0 THEN m
            ELSE kfree(after[i - 1], m.ram[PageOf(directory)][i - 1].page * PageSize)
    IN  kfree(kfree(after[Entries - 1], directory), chunk)

\* paging_free_4gb: every table the directory names, the directory, the chunk
paging_free_4gb(m, chunk) ==
    LET directory == directory_entry(m, chunk)
        after[i \in 0..Entries] ==
            IF i = 0 THEN m
            ELSE kfree(after[i - 1], m.ram[PageOf(directory)][i - 1].page * PageSize)
    IN  kfree(kfree(after[Entries], directory), chunk)
=============================================================================
