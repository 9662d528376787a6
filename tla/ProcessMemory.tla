--------------------------- MODULE ProcessMemory ---------------------------
(***************************************************************************)
(* The memory of processes: process_malloc, process_free, the termination  *)
(* of a process's allocations and the injection of arguments (process.c,   *)
(* isr80h/heap.c), over the kernel heap and the page directory of each     *)
(* process (paging.c).                                                     *)
(*                                                                         *)
(* A page and a heap block have the same size, and process_malloc maps its *)
(* memory at its physical address, so pages are named by block numbers.    *)
(* Every page is readable from the start; a directory is modelled by the   *)
(* pages it lets its process write.                                        *)
(***************************************************************************)
EXTENDS HeapTable

CONSTANTS
    Procs,          \* the processes that exist at some time
    MaxAllocations, \* PEACHOS_MAX_PROGRAM_ALLOCATIONS
    MaxArgs,        \* bound: the arguments given to a new process
    ArgvEntry,      \* sizeof(const char *)
    ArgSize         \* sizeof(((struct command_argument *)0)->argument)

Indexes == 0..(MaxAllocations - 1)

ASSUME ProcessMemoryAssumption ==
    /\ MaxAllocations \in Nat \ {0}
    /\ MaxArgs \in Nat
    /\ ArgvEntry \in Nat \ {0} /\ ArgSize \in Nat \ {0}
    /\ \A n \in 1..MaxArgs : n * ArgvEntry < Word /\ BlocksFor(n * ArgvEntry) \in 1..Slack
    /\ ArgSize < Word /\ BlocksFor(ArgSize) \in 1..Slack
    \* No request wraps to no blocks when it is rounded up: kzalloc would go on
    \* to clear all of memory.  The heap, with what requests may take past its
    \* end, lies below the end of the address space, as in config.h.
    /\ \A s \in Sizes : BlocksFor(s) = 0 => s = 0
    /\ heap_block_to_address(Total + Slack) < Word

VARIABLES
    mem,            \* heap table, allocation tables, writable pages
    alive,          \* the processes in the process table
    kernel          \* the kernel's own allocations: page tables, tasks, ...

vars == <<mem, alive, kernel>>

-----------------------------------------------------------------------------
(* The functions of process.c, on the memory m                             *)

NoAllocation == [ptr |-> NULL, size |-> 0]

\* paging_align_address, in uint32_t arithmetic
paging_align_address(a) ==
    IF a % BlockSize = 0 THEN a ELSE (a + BlockSize - (a % BlockSize)) % Word

\* The end of an allocation that paging_map_to is given
EndOf(ptr, size) == paging_align_address((ptr + size) % Word)

\* What paging_map_to accepts of page aligned pointers
Mappable(ptr, size) == EndOf(ptr, size) >= ptr

\* The pages that paging_map_to sets for an allocation
Pages(ptr, size) ==
    LET first == heap_address_to_block(ptr)
        total == (EndOf(ptr, size) - ptr) \div BlockSize
    IN  first..(first + total - 1)

\* process_find_free_allocation_index looks for the first of these
FreeIndexes(m, p) == {i \in Indexes : m.allocations[p][i].ptr = NULL}

\* Mutant: the error path of process_malloc keeps the block.
KeepBlock(t, ptr) == t

\* The error path of process_malloc: kfree of the block just taken
GivenBack(t, ptr) == heap_mark_blocks_free(t, heap_address_to_block(ptr))

\* The memory after process_malloc, and the pointer it returns.  Without a
\* free entry in the allocation table, or when paging_map_to refuses, the
\* block just taken is freed again.
process_malloc(m, p, size) ==
    LET n     == BlocksFor(size)
        start == heap_get_start_block(m.entries, n)
        taken == heap_mark_blocks_taken(m.entries, start, n)
        ptr   == heap_block_to_address(start)
    IN  CASE start < 0 ->
               [mem |-> m, ptr |-> NULL]
          [] start >= 0 /\ (FreeIndexes(m, p) = {} \/ ~Mappable(ptr, size)) ->
               [mem |-> [m EXCEPT !.entries = GivenBack(taken, ptr)], ptr |-> NULL]
          [] OTHER ->
               [mem |-> [entries |-> taken,
                         allocations |-> [m.allocations EXCEPT
                            ![p][Min(FreeIndexes(m, p))] = [ptr |-> ptr, size |-> size]],
                         writable |-> [m.writable EXCEPT ![p] = @ \cup Pages(ptr, size)]],
                ptr |-> ptr]

\* Mutant: a pointer that is not in the table is taken for the first entry.
MatchingOrFirst(m, p, ptr) ==
    LET found == {i \in Indexes : m.allocations[p][i].ptr = ptr}
    IN  IF found = {} THEN {0} ELSE found

\* The entries process_get_allocation_by_addr searches for
Matching(m, p, ptr) == {i \in Indexes : m.allocations[p][i].ptr = ptr}

\* Mutant: the pages stay mapped.
StillMapped(pages, ptr, size) == pages

\* paging_map_to with no flags over an allocation
Unmapped(pages, ptr, size) == pages \ Pages(ptr, size)

\* process_free: unmap, forget every entry with this pointer, kfree.  A null
\* pointer matches the unused entries.
process_free(m, p, ptr) ==
    LET found == Matching(m, p, ptr)
    IN  IF found = {} \/ ~Mappable(ptr, m.allocations[p][Min(found)].size)
        THEN m
        ELSE [entries |-> heap_mark_blocks_free(m.entries, heap_address_to_block(ptr)),
              allocations |-> [m.allocations EXCEPT ![p] =
                    [i \in Indexes |-> IF i \in found THEN NoAllocation ELSE @[i]]],
              writable |-> [m.writable EXCEPT ![p] =
                    Unmapped(@, ptr, m.allocations[p][Min(found)].size)]]

\* process_terminate_allocations: process_free of each entry in turn
process_terminate_allocations(m, p) ==
    LET after[i \in 0..MaxAllocations] ==
            IF i = 0
            THEN m
            ELSE process_free(after[i - 1], p, after[i - 1].allocations[p][i - 1].ptr)
    IN  after[MaxAllocations]

\* process_inject_arguments with argc arguments: the argv array, then one
\* block of text for each, until one process_malloc fails
process_inject_arguments(m, p, argc) ==
    LET after[i \in 0..argc] ==
            IF i = 0
            THEN process_malloc(m, p, argc * ArgvEntry)
            ELSE IF after[i - 1].ptr = NULL
            THEN after[i - 1]
            ELSE process_malloc(after[i - 1].mem, p, ArgSize)
    IN  IF argc = 0 THEN m ELSE after[argc].mem

\* process_load_for_slot: a zeroed struct process, a directory that lets its
\* process write none of the heap's pages
Loaded(m, p) ==
    [m EXCEPT !.allocations[p] = [i \in Indexes |-> NoAllocation],
              !.writable[p] = {}]

-----------------------------------------------------------------------------

Init ==
    /\ \E memory \in [Cells \ Blocks -> Junk] :
            /\ \E c \in Cells : c < 0 /\ "NEXT" \notin memory[c]
            /\ mem = [entries |-> [c \in Cells |-> IF c \in Blocks THEN {} ELSE memory[c]],
                      allocations |-> [p \in Procs |-> [i \in Indexes |-> NoAllocation]],
                      writable |-> [p \in Procs |-> {}]]
    /\ alive = {}
    /\ kernel = {}

\* kernel_main and isr80h_command7: a process with argc arguments
Load(p, argc) ==
    /\ p \notin alive
    /\ alive' = alive \cup {p}
    /\ mem' = process_inject_arguments(Loaded(mem, p), p, argc)
    /\ UNCHANGED kernel

\* isr80h_command4_malloc
Malloc(p, size) ==
    /\ p \in alive
    /\ mem' = process_malloc(mem, p, size).mem
    /\ UNCHANGED <<alive, kernel>>

\* isr80h_command5_free, with whatever pointer the program passes
Free(p, ptr) ==
    /\ p \in alive
    /\ mem' = process_free(mem, p, ptr)
    /\ UNCHANGED <<alive, kernel>>

\* process_terminate: the allocations, and with the task the directory
Terminate(p) ==
    /\ p \in alive
    /\ alive' = alive \ {p}
    /\ mem' = [process_terminate_allocations(mem, p) EXCEPT !.writable[p] = {}]
    /\ UNCHANGED kernel

\* kmalloc and kfree inside the kernel: structs, page tables, stacks, files,
\* none of them of zero bytes (Loading.tla has the empty file)
KernelMalloc(size) ==
    LET n     == BlocksFor(size)
        start == heap_get_start_block(mem.entries, n)
    IN  /\ start >= 0
        /\ mem' = [mem EXCEPT !.entries = heap_mark_blocks_taken(@, start, n)]
        /\ kernel' = kernel \cup {[ptr |-> heap_block_to_address(start), blocks |-> n]}
        /\ UNCHANGED alive

KernelFree(a) ==
    /\ mem' = [mem EXCEPT !.entries = heap_mark_blocks_free(@, heap_address_to_block(a.ptr))]
    /\ kernel' = kernel \ {a}
    /\ UNCHANGED alive

\* The pointers a program may pass to free: null, any block, an odd address
Pointers == {NULL, HeapStart + 1} \cup {heap_block_to_address(b) : b \in Blocks}

Next ==
    \/ \E p \in Procs, argc \in 0..MaxArgs : Load(p, argc)
    \/ \E p \in Procs, size \in Sizes : Malloc(p, size)
    \/ \E p \in Procs, ptr \in Pointers : Free(p, ptr)
    \/ \E p \in Procs : Terminate(p)
    \/ \E size \in Sizes \ {0} : KernelMalloc(size)
    \/ \E a \in kernel : KernelFree(a)

Spec == Init /\ [][Next]_vars

-----------------------------------------------------------------------------

\* Type invariant of the memory.
TypeOK ==
    /\ mem.entries \in [Cells -> SUBSET Flags]
    /\ \A p \in Procs : \A i \in Indexes :
            /\ mem.allocations[p][i].ptr \in Pointers
            /\ mem.allocations[p][i].size \in 0..(Word - 1)
    /\ \A p \in Procs : mem.writable[p] \subseteq 0..(Total + Slack - 1)
    /\ alive \subseteq Procs
    /\ kernel \subseteq Allocation

\* The allocations that the table of process p holds
Held(p) ==
    {[ptr |-> a.ptr, blocks |-> BlocksFor(a.size)] :
        a \in {mem.allocations[p][i] : i \in Indexes} \ {NoAllocation}}

\* Everything somebody has been given and has not released
AllHeld == kernel \cup UNION {Held(p) : p \in Procs}

\* The memory a process's table lists is marked taken for it in the heap, as
\* is the kernel's: no free, of any pointer by any process, and no
\* termination releases memory somebody else still holds.
HeldIsTaken ==
    \A a \in AllHeld : \A c \in BlocksOf(a) \cap Blocks :
        mem.entries[c] = TakenEntry(c - heap_address_to_block(a.ptr), a.blocks)

\* A block is marked taken only while a process's table or the kernel lists
\* it: a process that ends, or a malloc that fails half-way, leaks no block.
NothingLeaks ==
    \A c \in Blocks : ~IsFree(mem.entries, c) => \E a \in AllHeld : c \in BlocksOf(a)

\* The heap pages a process can write are exactly those of the allocations in
\* its table; so a freed page is no longer writable, and no page of the
\* kernel or of another process is.
WriteIsolation ==
    /\ \A p \in Procs : mem.writable[p] = UNION {BlocksOf(a) : a \in Held(p)}
    /\ \A p, q \in Procs : p # q => mem.writable[p] \cap mem.writable[q] = {}
    /\ \A p \in Procs, k \in kernel : mem.writable[p] \cap BlocksOf(k) = {}

\* What process_free says of foreign pointers ("Not this processes pointer?
\* Then we cant free it."): while an entry stays in a process's table, no
\* step marks its blocks free.
OnlyOwnerFrees ==
    [][\A p \in Procs : \A a \in Held(p) : a \in Held(p)' =>
         \A c \in BlocksOf(a) \cap Blocks : ~IsFree(mem.entries', c)]_vars
=============================================================================
