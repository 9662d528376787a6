# A verification of the udemy_kernel operating system

This directory holds TLA+ models of the kernel in `src/`: modules that follow the
C code, TLC configurations that check them on small instances, and proofs,
checked by TLAPS, that the kernel heap, the memory of processes, the loader with
its address spaces, the scheduler, the keyboard and the shell's command line keep
their promises for every size. Paths
below are relative to `src/src/` of the repository, except `programs/`, which is
`src/programs/`.

## 1. The system

A single-processor 32-bit kernel. `kernel_main` sets up heap, file systems,
interrupts and paging, loads `blank.elf` twice and enters the first task.
From then on the kernel runs only inside interrupt and system-call handlers:
interrupts are enabled in ring 3 only, so **a handler is one atomic step and what
interleaves is handlers**.

| Component | State it keeps | Operations | Interacts with | What makes it correct |
|---|---|---|---|---|
| kernel heap (`memory/heap`) | one byte per 4 KiB block: taken, first, has-next | `kmalloc`, `kzalloc`, `kfree` | everybody | live pointers never alias; a free releases one allocation whole; nothing leaks in the table |
| tasks (`task/task.c`, `task.asm`) | doubly linked list, `current_task`, saved registers | `task_new`, `task_free`, `task_next`, save and return, `copy_string_from_task` | process table, clock, heap, paging | the list is the set of live tasks; registers survive a switch; nobody starves |
| processes (`task/process.c`) | table of 12 slots, `current_process`, per process an allocation table of 1024 entries | load, terminate, malloc, free, inject arguments | tasks, heap, paging, files | table, tasks and foreground agree; memory of a process is its own; a failed load leaves little behind |
| ELF loader (`loader/formats`) | the bounds of a loaded file | `elf_load`, `elf_close` | files, heap, processes | a program finds its bytes where its headers say |
| paging (`memory/paging`) | a directory and its tables per task, on the heap | new, free, map, translate | heap, processes | a process writes only its own pages |
| interrupts and system calls (`idt`, `isr80h`) | callback tables | clock, exceptions, commands 0 to 9 | tasks, processes, keyboard, terminal | the handlers leave the rest consistent |
| keyboard (`keyboard`) | ring buffer in every process, caps lock | key interrupt, `getkey` | `current_process` decides who gets a key, `current_task` who reads | every key arrives once, in order, at the process that had the keyboard |
| terminal (`terminal.c`) | cursor, screen | `terminal_writechar`, `print` | system calls | the screen shows what was printed |
| shell and library (`programs/shell`, `programs/stdlib`) | line buffer, `strtok`'s static pointer | read a line, parse it, run it | terminal, keyboard, malloc | the command is what was typed |
| files (`fs/file.c`), path parser (`fs/pparser.c`) | 512 descriptors | `fopen`, `fread`, `fseek`, `fstat`, `fclose` | file systems | a descriptor is a position in one file |
| FAT32 (`fs/fat/fat32.c`), stream (`disk/streamer.c`) | a handle per open file, one stream for all | lookup, open, read, seek | disk | reads return the file's bytes |
| FAT16 (`fs/fat/fat16.c`) | three streams, the root directory, items and descriptors on the heap | resolve, open, read, seek, stat, close | disk, heap | opens find what the disk lists; nothing is lost |
| boot code, GDT, TSS, port I/O | hardware set-up | | | not modelled |

Hard behaviours: the clock and keys arrive at any instruction; processes end in
any order, while the list, the table and the foreground pointer refer to them; freed
memory keeps its content until it is reused; several operations fail half-way (a
full allocation table, arguments that do not fit, a load that runs out of memory at
any of its steps, a mapping that fails after the task is in the list); and limits
are handled at the last moment or not at all (a nearly full heap, a full key
buffer, the last descriptor, the last row of the screen). `PROJECT.json`
lists these as hazards, each with its line and the properties that watch it.

## 2. Modules

| Module | Models | State and actions |
|---|---|---|
| `HeapTable` | the functions of `heap.c` | operators on a table; the table includes the memory around it, because the code indexes it below zero (`kfree(0)`) and past its end |
| `Heap` | `kheap.c` over it | `entries`, and `live`, what callers hold; `Malloc`, `MallocFails`, `Free`, `FreeNull` |
| `Allocator` | abstract: sets of disjoint runs of blocks | `Acquire`, `Release` |
| `MCHeap` | the loop of `heap_get_start_block` as a loop | compared with the declarative definition that `HeapTable` uses |
| `HeapTableProofs`, `HeapProofs` | the theorems about both | lemmas on a table that records a set of allocations; the theorems of `Heap` |
| `LoopTheorems` | | lemmas on remainders and on loops, written as recursive functions on `0..n` |
| `Tasks`, `MCTasks` | `task.c`, the process table of `process.c`, clock and exceptions of `idt.c`, commands 6, 7, 9 | `sched` is the C list with its pointers, `allocated` the tasks not freed, `processes`, `procs`, `current_process`; `cpu` and `seen` follow the registers; `workload` says how many processes live at a time and which never end |
| `TasksProofs` | its theorems | |
| `ProcessMemory` | malloc, free, arguments and termination in `process.c` over `HeapTable`, with the pages each directory lets its process write | `Load`, `Malloc`, `Free` (with any pointer), `Terminate`, and the kernel's own allocations |
| `ProcessMemoryProofs` | its theorems, on those of `HeapTableProofs` | |
| `Paging` | `paging.c` over `HeapTable` | operators on a memory: heap table, content of the pages that are tables, and who holds what |
| `ElfLoader` | `elfloader.c` over it | operators; a file is its size, what its first bytes say, and its program headers |
| `Loading`, `MCLoading` | `process_load` down to the last allocation, `process_terminate`, `copy_string_from_task` | composes the three above: `Load`, `Terminate`, `CopyString` |
| `LoadingProofs` | its theorems, on those of `HeapTableProofs` | |
| `Keyboard` | `classic.c`, `keyboard.c`, command 2 | the ring buffers; which process runs and which has the keyboard changes freely |
| `KeyQueue` | abstract: a bounded queue of keys per process | |
| `KeyboardProofs` | the theorems, the refinement included | |
| `Terminal` | `terminal.c` | operators on cursor and screen |
| `Console` | the shell on it: `shell.c`, `peachos.c`, `strtok` | one action per system call: `Prompt`, `Key`, `Return`, `Newline`, `Run`, and `OtherPrints` |
| `ConsoleProofs` | its theorems | |
| `PathParser` | `pparser.c` | a path as a sequence of characters into drive and parts |
| `Streamer` | `streamer.c` | a byte of the disk is named by its position, so a wrong byte is visible |
| `Fat32` | `fat32.c` as operators | |
| `Files`, `MCFiles` | `file.c` over parser and driver | `file_descriptors`, the shared `stream`, the last `answer` |
| `FileApi` | abstract: descriptors as positions in contents | |
| `Fat16`, `MCFat16` | `fat16.c` | the streams, the heap objects by kind, the descriptors, the last `answer`; `Resolve`, `Open`, `Read`, `Seek`, `Stat`, `Close` with their failures |

Abstractions worth knowing:

* **Tasks.** A task is an address; `kzalloc` may choose any free one, and
  `ReuseMemory` zeroes a freed one at any time, so a stale pointer shows.
  Registers are one number that user code changes. Handlers that return to
  the task they interrupted (`LoadFails` and every system call without a
  switch) store the registers and continue; the result in `eax` is left out.
  `task_get_next` with a null `current_task` is counted as a panic.
* **ProcessMemory.** Block and page have the same size and heap memory is
  mapped at its physical address, so pages are block numbers. The
  process's program and stack are among the kernel's allocations.
* **Loading.** Every allocation of a load is one call of `kzalloc` on the real
  heap table, in the order of the code, so each may be the first that fails: those of
  `fopen` too, which takes a root, a string and a struct for each part of the path, one more string at
  its end, a handle of the file system and a descriptor, and never frees the path. Structs
  and strings take one block, the stack as many as it needs. A null table is written at
  address 0, as the code would. Once the error code of a failed `task_new` is used as a
  task the behaviour ends (`crashed`). What programs have allocated before is one
  of a set of fillings of the heap.
* **Keyboard.** One scancode of each kind. The byte after the table, which the
  off-by-one check lets through, is either no character or one. The ghost
  `overrun` holds the processes for which more was typed ahead than fits.
* **Console.** A key arrives whenever one is awaited; the queue is `Keyboard`'s. Each
  `peachos_malloc` may fail. The screen is blank at the start, where the kernel has its
  art. The row is modelled as it grows, the writes past the screen as a flag.
* **Files.** Names are transformed character by character as
  `transform_filename_to_fat` does, and compared with the padded
  short name of the FAT. Disk errors do not occur: `disk_read_sector` waits for ever.
  Chains end with 0x0FFFFFF8 (`Fat32Assumption`); the other end marks, 0x0FFFFFF9 to
  0x0FFFFFFF, which `fat32.c:201` takes for clusters, are left out.
* **Fat16.** Heap objects are counted by kind. The heap may refuse any request, by its number
  within a call: `refused` is the set of those it refuses, given with the call. The item of a descriptor then has a null
  or a freed pointer (`ptr`), as it has after a directory could not be read. A word of the disk that is no FAT
  entry is one value chosen at the start, which matters because
  `fat16_get_fat_entry` looks in the wrong place. Taking a freed
  or null pointer for an object ends the behaviour (`wild`): that is `fat16_resolve` and
  `diskstreamer_new` writing to what they were refused, a search in a directory that was not
  loaded, `fat16_read`, `fat16_seek` and `fat16_stat` through a null clone, `fat16_read` through
  a freed or null directory, and `fat16_close` of a freed one. A search that goes on with a null
  item may also read no directory at address 4 and answer `-EIO`. No directory is empty.

## 3. Runs

Bounds are named in the modules and set in the `.cfg` files.

| Run | Instance | Shows |
|---|---|---|
| `heap` | 5 blocks, requests of 1 to 3 blocks (one size not a multiple of the block), 2 bytes below and 3 above the table with arbitrary content | all seven properties of the heap, `ScanAgrees` and the refinement included; the short run at the end and requests that fail both occur |
| `tasks` | 3 slots, 4 processes ever, 2 register values; two processes alive in any order, or three with the programs of `kernel_main` resident | list, table, foreground, registers, panic, and `EveryProcessRuns` |
| `tasks_three` | 3 slots, any may end | **violated**: `NextIsInTheList` |
| `process_memory` | 2 processes, 4 blocks, 2 entries each, up to 2 arguments | isolation, no leak, no release of what another holds; allocation table and heap both fill up |
| `process_zero` | the same with programs that ask for zero bytes or one block; the kernel never asks for zero | **violated**: `OnlyOwnerFrees`: a process frees the pointer of its `malloc(0)` after another was given the block |
| `loading` | pages of 4 bytes, tables of 9 entries, 64 blocks, stacks of two blocks, 3 loads of 9 files, 2 at a time, with paths of no, one and two parts; behind the kernel's pages an empty heap, one with 0 to 13 blocks free (so that each allocation of a load is once the first to fail), or one with every other block taken | `AddressSpace`, `Isolation`, `SegmentBytes`, `ElfBounds`, `LeftBehind`, `CrashNeedsLeaks` |
| `keyboard` | buffer of 2, counters modulo 4, up to 3 keys ahead | the ring is a queue through every wrap-around, and after an overrun no other process is affected |
| `console` | screen of 4 by 4, lines of 4 characters, 6 keys, one character of another program, any malloc fails | `LineOnScreen`, `CommandIsTyped`, `StaleOnlyAfterTrouble`, the cursor's range |
| `files` | clusters of 4 bytes in 2 sectors, a fragmented, an empty and a cluster-sized file, two directories, 3 descriptors, names with doubled and trailing slashes | `Files` implements `FileApi` under interleaved calls |
| `files_large` | a file that continues in cluster 256 | **violated**: `ZeroMeansLast` |
| `files_seek` | offsets past the end | **violated**: `SeekStaysInFile` |
| `fat16` | clusters of 4 bytes, a directory with a deleted item, one of two clusters, one with a name twice, a nested one; 2 descriptors, with seeks to positions 0 to 2; reads of two items of two bytes, which from 0 end with the cluster, from 1 go over its end and from 2 need the FAT; the heap refuses any one request of a resolve or an open, and both matches of a name given twice, while no other descriptor is open | `OpenFindsListed`, `ReadsTheFile`, `LostOnlyOffTheTidyPath`, `WildNeedsTrouble` |

The bounds suffice for what the code distinguishes: a heap table has neighbours
on both sides, a list has head, middle and tail, a ring wraps in index and
counter, a read crosses a sector and a cluster, a segment crosses from one page table
to the next, a line of the screen goes on in the next row. `tasks` leaves out three
processes that end in any order, because then the list is broken; `tasks_three` shows
it. In `files` the only offset is 0,
which the code refuses or ignores, because any other successful seek leaves
the handle inconsistent (`files_seek`). The table of descriptors has one more entry
than a caller can use: `file_get_descriptor` refuses the last number, and the
abstract specification says that fopen may answer an unusable number
when all others are taken.

Deadlock is checked, except where a behaviour really ends: `console` (the
user stops typing), `loading` (all loads are done, or the kernel has crashed) and `fat16`
(the disk was refused, or a wild pointer was used). After `panic` the model of
tasks loops as the code does.

**Fairness.** Only `Tasks` states any: weak fairness of `Clock`. The timer
interrupt is periodic, every task runs with the interrupt flag set
(`registers.flags = 0x202`) and handlers terminate, so a tick eventually comes;
nothing else is assumed of user programs.

## 4. What the code does not ensure

Four violations, each with its own run:

1. `task.c:84`: `next->prev` is not updated on removal. After a task and then its
   successor end, a live task's `next` points to freed memory.
2. `heap.c:93`: `malloc(0)` returns a block that stays
   free; freeing the pointer later releases whoever holds the block then.
3. `fat32.c:198`: cluster numbers are cut to 8 bits.
4. `fat32.c:475`: the guard of `fat32_seek` is inverted.

Properties that hold only under a condition name it in their text. The conditions
are limits of the code:

* `OverrunOnlyWhenFull`: a request larger than the free blocks at the end of the heap, with
  no longer run elsewhere, gets those blocks and memory past the heap's end (`heap.c:99`).
* `ImplementsKeyQueue`: a full key buffer is overwritten and loses its place
  (`keyboard.c:78`).
* `Isolation`: segments with more `.bss` than the rest of the file's last page map
  blocks of others as writable (`process.c:409`), and a file for which there was no memory is
  read to, and mapped from, address 0 (`elfloader.c:191`).
* `CrashNeedsLeaks`: a `task_new` that fails is taken for a task (`process.c:533`). With
  an empty heap that cannot happen; with allocations of programs, or the
  leftovers of earlier loads, it does.
* `LeftBehind`: every load keeps for ever the struct process and what `fopen` parsed of the
  path (`pparser.c:30`, `39`, `71`); a failed one also the file, as ELF or as raw
  binary, and the stack (`process.c:562`, "TODO: Free the process data"), and a handle of the file
  system when the descriptor was refused (`file.c:179`);
  a raw binary keeps for ever what the attempt to load it as ELF allocated.
* `LineOnScreen`: a backspace in the first column of a row leaves the cursor before the
  row, one in an empty line erases the prompt, and the screen does not scroll.
* `CommandIsTyped`: after a failed malloc `strtok` keeps a pointer into the old
  buffer, and the next command is parsed from there.
* FAT16: directories with a deleted item hide as many items at their end
  (`fat16.c:194`); of two items of one name the first is lost on the heap (`594`); a path through
  a directory that is missing or hidden, or to a directory of several clusters, follows a bad pointer
  (`614`, `560`), also when the heap refuses the directory, its items or the clone
  of a file's item (`533`, `545`, `580`): the open succeeds and a later call
  uses the pointer; reads past the first cluster look up the FAT in the wrong place (`381`).

## 5. Proofs

Eight modules hold theorems, each for every value of the constants that satisfies the
`ASSUME` of the component's module, which TLC evaluates in the component's runs.

| Module | Hypothesis | Proved |
|---|---|---|
| `HeapProofs` | `NonzeroSizes` | `TypeOK`, `Exclusive`, `TableMatchesLive`, the action properties `FreeReleasesExactly` and `OverrunOnlyWhenFull`, and that `Heap` implements `Allocator`; `ScanAgrees` without the hypothesis |
| `ProcessMemoryProofs` | `NonzeroSizes` | `TypeOK`, `HeldIsTaken`, `NothingLeaks`, `WriteIsolation`, and the action property `OnlyOwnerFrees` |
| `LoadingProofs` | `NonzeroFiles` | `TypeOK`, `LeftBehind`, `Isolation` |
| | and `SegmentsFit` | `AddressSpace`, `SegmentBytes` |
| | and `EndsInWord` | `ElfBounds` |
| | and `HeapHasRoom(need)` | `CrashNeedsLeaks` |
| `TasksProofs` | `FewTasks` | `TypeOK`, `ListIsTheLiveTasks`, `NextIsInTheList`, `CurrentIsLive`, `TableConsistent`, `ContextIntact`, `PanicOnlyWhenEmpty` |
| `KeyboardProofs` | none | `TypeOK`, `ZeroMarksFreeSlots`, and that `Keyboard` implements `KeyQueue` |
| `ConsoleProofs` | none | `TypeOK`, `LineOnScreen`, `StaleOnlyAfterTrouble`, `CommandIsTyped` |
| `HeapTableProofs`, `LoopTheorems` | | lemmas the others rest on |

**The hypotheses.** `NonzeroSizes` and `FewTasks` exclude exactly what a violation of section 4
is about, and both hold in the passing runs. `NonzeroSizes` (every request needs a block) is
needed because of `malloc(0)`: `OnlyOwnerFrees` is proved under it and
violated without it in `process_zero`. `FewTasks` (two processes at a time, or
three of which the two programs of `kernel_main` never end) is needed because of
the missing update of `next->prev`: `NextIsInTheList` is proved under it and violated without
it in `tasks_three`. Under it the number of loads, slots, addresses and register
values is arbitrary.

Those of `LoadingProofs` are about the files, and the first three hold for those of the run
`loading`. `NonzeroFiles` is `NonzeroSizes` for them: no size wraps to zero when it is rounded
up; an empty file is allowed. `SegmentsFit`: a segment whose mapping
`paging_map_to` accepts ends a page before the end of the address space, so that
pages do not wrap around; a header that wraps and is refused, as in the run, is allowed.
`EndsInWord`: the additions of `elf_process_phdr_pt_load` do not
overflow. `HeapHasRoom(need)`: behind the kernel's pages the heap has `need` blocks for each of
`PEACHOS_MAX_PROCESSES` slots, where no file needs more than `need`. What a load of
`s` blocks needs is `LoadNeeds`: the struct, at most `13 + 2s` for the file when its path has one part
(both attempts with their paths, handles and descriptors), the stack, the task and `Entries + 2`
pages. With `config.h` that is `1045 + 2s` of 25600 blocks, so the hypothesis holds for programs of up to about two
megabytes. In `loading` it would hold for files of one block; the run checks the
property with less room than the theorem asks for.

**The assumptions on constants** say what the code's own numbers satisfy. The heap is
made of whole blocks and no request exceeds the modelled memory past the
heap (`Slack`); the arguments of a program need a block and do not wrap (pointers of 4 bytes, 512
bytes each), no request of a program wraps to no blocks when it is rounded up (`kzalloc` would then
clear almost 4 GB, the kernel included), and the heap ends below the end of the address space; the
keyboard's buffer size divides the range of its counters (1024 and
2^32); a screen is narrower than 2^16, and so low that the 16-bit row does
not wrap while a line is typed at its end (80 by 25); letters are no control
characters. For the loader: screen, stack, program and heap lie in this order and at page
boundaries, as in `config.h`; no stack or file is larger than `Slack`; the heap has room for
the kernel's own pages, and programs allocate behind them.

**The invariants.**

* *Heap.* `IInv` is `Records(entries, live)`: the table matches the live allocations,
  they are disjoint and not empty, and some byte below the table lacks the
  has-next bit (the boot sector's signature), without which `kfree(0)` would run on into
  the table. `Malloc` preserves it because what the scan returns is free
  (`StartIsFree`), so no live allocation covers it; `Free` because the chain of
  has-next bits from an allocation's first block is the allocation
  (`ChainIsAllocation`); `FreeNull` because its chain ends below the table. The lemmas are about
  any table and any set of allocations, so `ProcessMemory` uses them too.
* *ProcessMemory.* `Sound`: the heap table records the entries of all allocation
  tables together with the kernel's allocations; no two entries share a pointer; the
  pages a process may write are those of its entries. A process that is not
  alive has an empty table. The steps of `process_malloc`, `process_free`,
  `process_inject_arguments` and `process_terminate` are followed through their error
  paths; the two loops (arguments, termination) by a loop invariant.
* *Loading.* `MemOK`: the heap table records the pieces held (`Records`, as for the heap)
  and no two share a pointer. `IInv` adds, for each load, what its state means: one not yet
  tried holds nothing; a running one is `Alive`, that is, it holds its data, stack, task, directory,
  tables and chunk, nothing else but its struct, its path and a failed attempt's leftovers, and its
  tables show `ViewOf` of its process, the plain space with one range after the other drawn
  over it; the others hold at most what they are allowed to leave. Such a view,
  and not only the pages in use, is needed because later ranges cover earlier ones. A step of
  load `l` is followed through every early return: `Grown` says that it added pieces of
  its own and touched no page that somebody else holds, `Redrawn` that it wrote its own
  tables or page 0 only. Together they give `Frame`, that every other load and the kernel have
  what they had, so the invariant of the others is untouched. The loops (tables,
  segments, pages of a range, headers) are handled as below. The properties follow: `AddressSpace` from the view, range
  by range; `SegmentBytes` from it with arithmetic on pages; `Isolation` because a
  writable range lies in the pieces it was drawn from; `ElfBounds` by an invariant of the loop over
  headers. `CrashNeedsLeaks` has an invariant of its own, `RoomInv`: either something has been
  left behind, or all loads so far are running and took the first blocks of the heap, `need` of them
  each at most; first fit never goes further than the first place from which all is free
  (`Uses`).
* *Tasks.* `Shape` lists the forms the C list takes with one, two or three tasks, stale
  `prev` pointers included: a removal may leave a single task that is its
  own `next`. `Tied` says that table, struct processes and tasks name each other, `Stored`
  that a task that does not run has its process's registers. The walk of
  `task_get_next`, from `Shape`, visits the live tasks.
* *Keyboard.* `Sound`, for a buffer that has not overrun: no more waits than fits, and zeros are
  the free slots. Neither is inductive alone. The refinement maps the slots from `head` to
  `tail` to a queue; that both wrap is arithmetic on remainders (`LoopTheorems`).
* *Console.* `TermInv` says where the cursor is and, in `Drawn`, that the cells of the line
  that lie on the screen show the buffer, for lines that leave the screen as
  well, because a backspace may come back; `LineInv` that the buffer is `Edited(typed)`. For
  `CommandIsTyped` the loop of the parser has an invariant, `ParsedSoFar`: the
  arguments are the first words of the line and the token is the start of the next;
  `strtok` writes its terminators behind it only, so the rest of the line is as it was typed.

**Loops** are recursive functions on `0..n`. That one computes what a
definition says is proved by `LoopInvariant` of `LoopTheorems`, an induction by least
counterexample in the naturals that takes the loop as a function and the
invariant as a set, so that no operator has to be instantiated. This is how
`ScanAgrees` and `CommandIsTyped` are proved.

**What a proof found.** `LeftBehind` said at first that a load that failed never keeps the memory of
a raw binary, and the run agreed, because its stacks took a single block. The proof does not
go through where the stack is refused after the binary was read (`process.c:519`): there
the binary stays. The property now says so, and the run has stacks of two blocks, with
which TLC finds the case.

**Only model-checked.** `EveryProcessRuns`, because it is liveness under fairness. All
properties of `Files` and `Fat16`, the refinement of `FileApi` and
`LostOnlyOffTheTidyPath` among them.

## 6. Not modelled, and the plan

Not modelled: boot code, GDT, TSS, the ATA protocol and port I/O (hardware
set-up without alternatives); the assembly stubs of the IDT beyond
saving registers; the registration of file systems and `fat32_resolve`, which happen once
at boot; the heap under `Files`, whose allocations are part of `Loading` and are counted in
`Fat16`; the lengths of strings copied
between user and kernel; the programs other than the shell, except as callers of system
calls; `old/`, `experiments/` and `test/`.

Left with TLC are the file systems. `Files` compares descriptors with the contents of the disk through
four nested loops (items, clusters, sectors, parts of a path), some of which call themselves
on what is left, and `Fat16` through as many that read words of
the disk that may be no FAT entry. What they compute would have to be proved loop by loop, as
for `ElfBounds`, before any of their properties; `HandleFollowsChain`, for disks whose chains end
and whose cluster numbers fit eight bits, is the one to begin with.
