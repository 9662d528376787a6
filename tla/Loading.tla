------------------------------- MODULE Loading -------------------------------
(***************************************************************************)
(* Loading and ending programs: process_load_for_slot and the loaders and  *)
(* mappings it calls (process.c, task.c), process_terminate, and the only  *)
(* function that changes another task's pages, copy_string_from_task, over *)
(* the heap, the page tables and the ELF loader.                           *)
(*                                                                         *)
(* A load is one handler and so one step; what makes it hard is the number *)
(* of allocations that may fail on the way and the state each leaves.      *)
(* Tasks.tla has the table of processes and the list of tasks.             *)
(***************************************************************************)
EXTENDS ElfLoader

CONSTANTS
    MaxLoads,           \* bound: the loads that are tried
    MaxProcesses,       \* PEACHOS_MAX_PROCESSES
    ProgramAddress,     \* PEACHOS_PROGRAM_VIRTUAL_ADDRESS
    StackEnd,           \* PEACHOS_PROGRAM_VIRTUAL_STACK_ADDRESS_END
    StackSize,          \* PEACHOS_USER_PROGRAM_STACK_SIZE
    VideoAddress,       \* 0xB8000
    VideoSize,          \* the bytes of the screen process_map_binary maps
    Burdens             \* the sets of blocks that other allocations may take

Loads == 1..MaxLoads

\* The kernel's own allocations carry this number in place of a load's
Kernel == 0

ASSUME LoadingAssumption ==
    /\ MaxLoads \in Nat /\ MaxProcesses \in Nat \ {0}
    /\ \A a \in {ProgramAddress, StackEnd, VideoAddress} :
            a \in 0..(Word - 1) /\ paging_is_aligned(a)
    \* the layout of config.h: screen, stack, program and heap in this order
    /\ VideoSize \in Nat \ {0} /\ VideoAddress + VideoSize =< StackEnd
    /\ StackSize \in Nat \ {0} /\ StackEnd + StackSize =< ProgramAddress
    /\ ProgramAddress =< HeapStart
    /\ BlocksFor(StackSize) \in 1..Slack
    \* the heap has room for the kernel's own pages; programs allocate behind them
    /\ Entries + 2 =< Total
    /\ Burdens \subseteq SUBSET ((Entries + 2)..(Total - 1))

VARIABLES
    mem,            \* the heap, the page tables, who holds what
    procs,          \* the struct process of each load
    kernel_chunk,   \* kernel.c: the kernel's own pages
    crashed         \* the kernel has used an error code as a task's address

vars == <<mem, procs, kernel_chunk, crashed>>

\* A load that has not been tried
NoProcess == [state |-> "none", res |-> "OK", file |-> CHOOSE f \in FileSet : TRUE,
              filetype |-> "ELF", elf_file |-> NULL, memory |-> NULL,
              bounds |-> NoBounds, stack |-> NULL, task |-> NULL, chunk |-> NULL]

-----------------------------------------------------------------------------
(* process.c and task.c                                                    *)

\* process_load_binary: unlike elf_load it checks what it is given and frees
\* it on failure
process_load_binary(m, f, load) ==
    LET Read(fd, data) ==
            CASE data.ptr = NULL ->
                   [mem |-> fclose(data.mem, fd), res |-> "ENOMEM", ptr |-> NULL]
              [] data.ptr # NULL /\ fread(f) = 1 ->
                   [mem |-> fclose(data.mem, fd), res |-> "OK", ptr |-> data.ptr]
              [] OTHER ->
                   [mem |-> fclose(kfree(data.mem, data.ptr), fd), res |-> "EIO", ptr |-> NULL]
        Opened(fd) ==
            IF fd.ptr = NULL THEN [mem |-> fd.mem, res |-> "EIO", ptr |-> NULL]
            ELSE Read(fd, kzalloc(fd.mem, f.size, [load |-> load, kind |-> "binary"]))
    IN  Opened(fopen(m, f, load))

\* process_load_data: as ELF, and as a raw binary when the format is wrong;
\* the struct elf_file and the memory of the first try are not freed then
process_load_data(m, f, load) ==
    LET Binary(raw) ==
            [mem |-> raw.mem, res |-> raw.res, filetype |-> "BINARY",
             elf_file |-> NULL, memory |-> raw.ptr, bounds |-> NoBounds]
        Tried(elf) ==
            IF elf.res = "EINFORMAT"
            THEN Binary(process_load_binary(elf.mem, f, load))
            ELSE [mem |-> elf.mem, res |-> elf.res, filetype |-> "ELF",
                  elf_file |-> elf.file, memory |-> elf.memory, bounds |-> elf.bounds]
    IN  Tried(elf_load(m, f, load))

UserFlags == {"PRESENT", "ALL"}
UserWritable == UserFlags \cup {"WRITEABLE"}

\* The flags process_map_elf gives to a segment
SegmentFlags(ph) == IF ph.w THEN UserWritable ELSE UserFlags

\* Mutant: the virtual address is not rounded down with the physical one.
map_segment_up(m, chunk, memory, ph) ==
    LET Map(phys) == paging_map_to(m, chunk,
                            paging_align_address(ph.vaddr),
                            paging_align_to_lower_page(phys),
                            paging_align_address((phys + ph.memsz) % Word),
                            SegmentFlags(ph))
    IN  Map((memory + ph.offset) % Word)

\* One round of the loop of process_map_elf
map_segment(m, chunk, memory, ph) ==
    LET Map(phys) == paging_map_to(m, chunk,
                            paging_align_to_lower_page(ph.vaddr),
                            paging_align_to_lower_page(phys),
                            paging_align_address((phys + ph.memsz) % Word),
                            SegmentFlags(ph))
    IN  Map((memory + ph.offset) % Word)

\* process_map_elf: all program headers, of whatever type, until one fails
process_map_elf(m, chunk, p) ==
    LET Round(before, ph) ==
            IF before.ok THEN map_segment(before.mem, chunk, p.memory, ph) ELSE before
        after[i \in 0..Len(p.file.phdrs)] ==
            IF i = 0 THEN [mem |-> m, ok |-> TRUE]
            ELSE Round(after[i - 1], p.file.phdrs[i])
    IN  after[Len(p.file.phdrs)]

\* The memory after mapping n bytes, whatever paging_map_to answers
MapBytes(m, chunk, virt, phys, n) ==
    paging_map_to(m, chunk, virt, phys, paging_align_address((phys + n) % Word), UserWritable).mem

\* process_map_binary: the program, then the screen; results are ignored
process_map_binary(m, chunk, p) ==
    [mem |-> MapBytes(MapBytes(m, chunk, ProgramAddress, p.memory, p.file.size),
                      chunk, VideoAddress, VideoAddress, VideoSize),
     ok  |-> TRUE]

\* process_map_memory: the program, then the stack
process_map_memory(m, chunk, p) ==
    LET Stack(program) ==
            IF program.ok
            THEN [program EXCEPT !.mem = MapBytes(@, chunk, StackEnd, p.stack, StackSize)]
            ELSE program
    IN  Stack(IF p.filetype = "ELF" THEN process_map_elf(m, chunk, p)
                                    ELSE process_map_binary(m, chunk, p))

\* task_free: the pages, then the struct
task_free(m, task, chunk) == kfree(paging_free_4gb(m, chunk), task)

\* process_load_for_slot, up to where it returns or the kernel is lost: when
\* task_new fails its result is an error code, which the test
\* ERROR_I(task) == 0 lets through to be used as the task.
process_load_for_slot(m, f, load) ==
    LET Alloc(now, size, kind) == kzalloc(now, size, [load |-> load, kind |-> kind])
        Failed(now, res, crash) ==
            [mem |-> now, crash |-> crash,
             process |-> [NoProcess EXCEPT !.file = f, !.state = "failed", !.res = res]]
        Mapped(p, map) ==
            IF map.ok
            THEN [mem |-> map.mem, crash |-> FALSE, process |-> [p EXCEPT !.state = "running"]]
            ELSE Failed(task_free(map.mem, p.task, p.chunk), "EINVARG", FALSE)
        Map(now, p) == Mapped(p, process_map_memory(now, p.chunk, p))
        Space(p, space) ==
            IF space.ptr = NULL THEN Failed(space.mem, "EIO", TRUE)
            ELSE Map(space.mem, [p EXCEPT !.chunk = space.ptr])
        Task(p, task) ==
            IF task.ptr = NULL THEN Failed(task.mem, "ENOMEM", TRUE)
            ELSE Space([p EXCEPT !.task = task.ptr],
                       paging_new_4gb(task.mem, UserFlags, load))
        Stack(p, stack) ==
            IF stack.ptr = NULL THEN Failed(stack.mem, "ENOMEM", FALSE)
            ELSE Task([p EXCEPT !.stack = stack.ptr], Alloc(stack.mem, PageSize, "task"))
        Data(data) ==
            IF data.res # "OK" THEN Failed(data.mem, data.res, FALSE)
            ELSE Stack([NoProcess EXCEPT
                            !.file = f, !.filetype = data.filetype, !.memory = data.memory,
                            !.elf_file = data.elf_file, !.bounds = data.bounds],
                       Alloc(data.mem, StackSize, "stack"))
        Struct(struct) ==
            IF struct.ptr = NULL THEN Failed(struct.mem, "ENOMEM", FALSE)
            ELSE Data(process_load_data(struct.mem, f, load))
    IN  Struct(Alloc(m, PageSize, "process"))

\* process_free_program_data
process_free_program_data(m, p) ==
    IF p.filetype = "ELF" THEN elf_close(m, p.elf_file, p.memory)
                          ELSE kfree(m, p.memory)

\* process_terminate, after the process's own allocations (ProcessMemory.tla)
process_terminate(m, p) ==
    task_free(kfree(process_free_program_data(m, p), p.stack), p.task, p.chunk)

\* Mutant: the task's entry for the temporary page is not put back.
copy_string_from_task_left(m, p, load) ==
    LET Copy(tmp) ==
            IF tmp.ptr = NULL THEN m
            ELSE kfree(paging_map(tmp.mem, p.chunk, tmp.ptr, tmp.ptr, UserWritable), tmp.ptr)
    IN  Copy(kzalloc(m, 1, [load |-> load, kind |-> "tmp"]))

\* copy_string_from_task, with a length below a page: a page of the heap is
\* opened to the task while the string is copied and then closed again
copy_string_from_task(m, p, load) ==
    LET Opened(now, tmp) == paging_map(now, p.chunk, tmp, tmp, UserWritable)
        Shut(now, directory, tmp) ==
            paging_set(Opened(now, tmp), directory, tmp, paging_get(now, directory, tmp))
        Copy(tmp) ==
            IF tmp.ptr = NULL THEN m
            ELSE kfree(Shut(tmp.mem, directory_entry(tmp.mem, p.chunk), tmp.ptr), tmp.ptr)
    IN  Copy(kzalloc(m, 1, [load |-> load, kind |-> "tmp"]))

-----------------------------------------------------------------------------

\* The memory with each of the blocks bs taken by an allocation of its own
Burdened(m, bs) ==
    [m EXCEPT !.entries = [c \in Cells |-> IF c \in bs THEN TakenEntry(0, 1) ELSE @[c]],
              !.held = @ \cup {[ptr |-> heap_block_to_address(b), blocks |-> 1,
                                owner |-> [load |-> Kernel, kind |-> "malloc"]] : b \in bs}]

\* kernel_main: the heap, then the kernel's own pages.  What programs have
\* allocated by the time the loads begin may be anywhere behind them.
Init ==
    /\ \E space \in {paging_new_4gb([entries |-> [c \in Cells |-> {}],
                                     ram |-> [p \in Pages |-> ZeroPage], held |-> {}],
                                    UserWritable, Kernel)} :
            /\ \E bs \in Burdens : mem = Burdened(space.mem, bs)
            /\ kernel_chunk = space.ptr
    /\ procs = [l \in Loads |-> NoProcess]
    /\ crashed = FALSE

Running == {l \in Loads : procs[l].state = "running"}

\* process_load.  With no slot free it answers -EISTKN and changes nothing.
Load(l, f) ==
    /\ ~crashed
    /\ \A k \in Loads : procs[k].state = "none" <=> k >= l
    /\ Cardinality(Running) < MaxProcesses
    /\ \E load \in {process_load_for_slot(mem, f, l)} :
            /\ mem' = load.mem
            /\ procs' = [procs EXCEPT ![l] = load.process]
            /\ crashed' = load.crash
    /\ UNCHANGED kernel_chunk

\* process_terminate, when a program exits or faults
Terminate(l) ==
    /\ ~crashed
    /\ l \in Running
    /\ mem' = process_terminate(mem, procs[l])
    /\ procs' = [procs EXCEPT ![l].state = "ended"]
    /\ UNCHANGED <<kernel_chunk, crashed>>

\* print and command 6: the kernel fetches a string from a program
CopyString(l) ==
    /\ ~crashed
    /\ l \in Running
    /\ mem' = copy_string_from_task(mem, procs[l], l)
    /\ UNCHANGED <<procs, kernel_chunk, crashed>>

Next ==
    \/ \E l \in Loads, f \in FileSet : Load(l, f)
    \/ \E l \in Loads : Terminate(l)
    \/ \E l \in Loads : CopyString(l)

Spec == Init /\ [][Next]_vars

-----------------------------------------------------------------------------

\* Type invariant of the machine's memory and of the processes.
TypeOK ==
    /\ mem.entries \in [Cells -> SUBSET Flags]
    /\ mem.ram \in [Pages -> [Indexes -> Entry]]
    /\ \A a \in mem.held : a.owner.load \in Loads \cup {Kernel}
    /\ \A l \in Loads : /\ procs[l].state \in {"none", "running", "failed", "ended"}
                        /\ procs[l].res \in Results
                        /\ procs[l].file \in FileSet
    /\ crashed \in BOOLEAN

\* What the processor finds for page v in the space of a chunk
Walk(chunk, v) == paging_get(mem, directory_entry(mem, chunk), v * PageSize)

Plain(v, flags) == [page |-> v, flags |-> flags]

\* The pages that bytes from..(from + n - 1) lie on, the page of from first
PagesOf(from, n) ==
    LET last == IF n = 0 /\ from % PageSize = 0 THEN PageOf(from) - 1
                ELSE PageOf(from + n - (IF n = 0 THEN 0 ELSE 1))
    IN  PageOf(from)..last

SegmentRanges(p) ==
    [i \in DOMAIN p.file.phdrs |->
        LET ph   == p.file.phdrs[i]
            phys == p.memory + ph.offset
        IN  [virt |-> PageOf(ph.vaddr), phys |-> PageOf(phys),
             count |-> Cardinality(PagesOf(phys, ph.memsz)), flags |-> UserFlags \cup {f \in {"WRITEABLE"} : ph.w}]]

WritableRange(virt, phys, n) ==
    [virt |-> PageOf(virt), phys |-> PageOf(phys),
     count |-> Cardinality(PagesOf(phys, n)), flags |-> UserWritable]

\* The ranges that make up the space of a process, the last one on top
Ranges(p) ==
    (IF p.filetype = "ELF"
     THEN SegmentRanges(p)
     ELSE << WritableRange(ProgramAddress, p.memory, p.file.size),
             WritableRange(VideoAddress, VideoAddress, VideoSize) >>)
    \o << WritableRange(StackEnd, p.stack, StackSize) >>

\* What page v of the space of p has to be
Shown(p, v) ==
    LET covering == {k \in DOMAIN Ranges(p) : v - Ranges(p)[k].virt \in 0..(Ranges(p)[k].count - 1)}
        At(r) == Plain(r.phys + v - r.virt, r.flags)
    IN  IF covering = {} THEN Plain(v, UserFlags)
                         ELSE At(Ranges(p)[Max(covering)])

\* In every reachable state, whatever was loaded, failed, ended or copied
\* since, walking the directory and the table of a running process finds its
\* segments or its binary, its stack and, for everything else, the page
\* itself, read only; and the kernel's own space is plain and writable
\* (test/paging.c: "We test that paging_new_4gb returns plain paging").  So
\* no table is freed, recycled or written for another process.
AddressSpace ==
    /\ \A l \in Running : \A v \in Pages : Walk(procs[l].chunk, v) = Shown(procs[l], v)
    /\ \A v \in Pages : Walk(kernel_chunk, v) = Plain(v, UserWritable)

\* The segments of f end inside the memory its file fills, so none has more
\* .bss than the rest of the last page of the file
Contained(f) ==
    \A i \in DOMAIN f.phdrs :
        f.phdrs[i].w => PagesOf(f.phdrs[i].offset, f.phdrs[i].memsz) \subseteq PagesOf(0, f.size)

PagesHeld(a) == PageOf(a.ptr)..(PageOf(a.ptr) + a.blocks - 1)

\* The memory that process l may change: its program, its stack, the screen
Own(l) ==
    (UNION {PagesHeld(a) : a \in {b \in mem.held :
                /\ b.owner.load = l
                /\ b.owner.kind \in {"elf_memory", "binary", "stack"}}})
        \cup (IF procs[l].filetype = "BINARY" THEN PagesOf(VideoAddress, VideoSize) ELSE {})

\* A running program can write only its own memory: not the kernel's, not a
\* page table, not a block that is free or that another process holds.  The
\* code does not ensure it for a file whose segments claim more memory than
\* the file has, nor for one read to address 0 because kzalloc refused.
Isolation ==
    \A l \in Running :
        Contained(procs[l].file) /\ procs[l].memory # NULL =>
            \A v \in Pages : LET e == Walk(procs[l].chunk, v)
                             IN  "WRITEABLE" \in e.flags => e.page \in Own(l)

\* The headers of f place its bytes the way the ELF format requires: address
\* and offset agree within a page, and segments that share a page of memory
\* share it in the file
WellFormed(f) ==
    /\ \A i \in DOMAIN f.phdrs :
            LET ph == f.phdrs[i]
            IN  /\ (ph.vaddr - ph.offset) % PageSize = 0
                /\ PagesOf(ph.vaddr, ph.memsz) \cap PagesOf(StackEnd, StackSize) = {}
                /\ ph.filesz =< ph.memsz
    /\ \A i, j \in DOMAIN f.phdrs :
            PagesOf(f.phdrs[i].vaddr, f.phdrs[i].memsz)
                \cap PagesOf(f.phdrs[j].vaddr, f.phdrs[j].memsz) # {}
            => f.phdrs[i].vaddr - f.phdrs[i].offset = f.phdrs[j].vaddr - f.phdrs[j].offset

Physical(p, virt) == paging_get_physical_address(mem, directory_entry(mem, p.chunk), virt)

\* A running program finds each byte of its file where the file's headers
\* say, or from PEACHOS_PROGRAM_VIRTUAL_ADDRESS on for a raw binary, also
\* when segments start inside a page, share one or cross from one table of
\* the directory to the next.
SegmentBytes ==
    \A l \in Running :
        LET p == procs[l]
        IN  IF p.filetype = "BINARY"
            THEN \A j \in 0..(p.file.size - 1) : Physical(p, ProgramAddress + j) = p.memory + j
            ELSE WellFormed(p.file) =>
                    \A i \in DOMAIN p.file.phdrs :
                        LET ph == p.file.phdrs[i]
                        IN  ph.type = PT_LOAD => \A j \in 0..(ph.filesz - 1) :
                                Physical(p, ph.vaddr + j) = p.memory + ph.offset + j

LoadHeaders(f) == {f.phdrs[i] : i \in {k \in DOMAIN f.phdrs : f.phdrs[k].type = PT_LOAD}}

\* The bounds elf_load computes in one pass are those of the loadable headers
\* in whatever order the file lists them: the lowest address and the highest
\* end, with the places in memory of the same bytes.
ElfBounds ==
    \A l \in Running :
        LET p == procs[l]
            loads == LoadHeaders(p.file)
        IN  p.filetype = "ELF" /\ loads # {} /\ (\A ph \in loads : ph.vaddr > 0) =>
              /\ p.bounds.vbase = Min({ph.vaddr : ph \in loads})
              /\ p.bounds.vend = Max({ph.vaddr + ph.filesz : ph \in loads})
              /\ \E ph \in loads : /\ p.bounds.vbase = ph.vaddr
                                   /\ p.bounds.pbase = p.memory + ph.offset
              /\ \E ph \in loads : /\ p.bounds.vend = ph.vaddr + ph.filesz
                                   /\ p.bounds.pend = p.memory + ph.offset + ph.filesz

Kinds(l) == {a.owner.kind : a \in {b \in mem.held : b.owner.load = l}}

\* What a raw binary keeps of the attempt to load it as ELF
Attempt(p) == IF p.filetype = "BINARY" THEN {"elf_file", "elf_memory"} ELSE {}

\* What each load still holds of the heap, and that nothing else is taken.
\* Every load keeps for ever the struct process and the path that fopen has
\* parsed, with its strings, which nothing frees; a raw binary also keeps
\* what the attempt to load it as ELF left.  A running process has one of
\* everything else, and no open file.  A load that failed keeps at most what
\* process_load_for_slot says it does not free ("TODO: Free the process
\* data") and a handle of the file system when there was no memory for the
\* descriptor.  No table, task or descriptor outlives its process, and
\* nothing is freed twice.
LeftBehind ==
    /\ \A l \in Loads : CASE
          procs[l].state = "none" -> Kinds(l) = {}
       [] procs[l].state = "running" ->
            /\ {"process", "path", "stack", "task", "directory", "table", "chunk"} \subseteq Kinds(l)
            /\ Kinds(l) \cap {"handle", "descriptor", "tmp"} = {}
       [] procs[l].state = "ended" ->
            /\ {"process", "path"} \subseteq Kinds(l)
            /\ Kinds(l) \subseteq {"process", "path"} \cup Attempt(procs[l])
       [] procs[l].state = "failed" ->
            crashed \/ Kinds(l) \subseteq {"process", "path", "handle", "elf_file", "elf_memory",
                                           "binary", "stack"}
    /\ \A a, b \in mem.held : a # b => PagesHeld(a) \cap PagesHeld(b) = {}
    /\ {c \in Blocks : ~IsFree(mem.entries, c)} = Blocks \cap UNION {BlocksOf(a) : a \in mem.held}

\* The heap has room for PEACHOS_MAX_PROCESSES programs: a task_new that
\* fails, whose error code the kernel then takes for a task, is met only when
\* programs hold memory of their own or earlier loads have left some behind.
CrashNeedsLeaks ==
    crashed => \E a \in mem.held :
        \/ a.owner.kind = "malloc"
        \/ \E l \in Loads : /\ a.owner.load = l
                            /\ procs[l].state \in {"ended", "failed"}
                            /\ \E k \in Loads : k > l /\ procs[k].state # "none"
=============================================================================
