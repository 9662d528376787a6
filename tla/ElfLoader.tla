------------------------------ MODULE ElfLoader ------------------------------
(***************************************************************************)
(* src/loader/formats/elfloader.c, on the memory of Paging.tla.            *)
(*                                                                         *)
(* A file f is what the loader finds on the disk: the number of parts of   *)
(* its path, whether it can be opened, its size, whether fread delivers    *)
(* all of it, what its first bytes say (signature, class, encoding,        *)
(* e_phoff # 0) and its program headers.                                   *)
(* elf32_phdr: p_type, p_offset, p_vaddr, p_filesz, p_memsz and PF_W.      *)
(***************************************************************************)
EXTENDS Paging, Sequences

CONSTANT FileSet        \* the files programs are loaded from

PT_LOAD  == 1

\* The results of a load: PEACHOS_ALL_OK and the errors of status.h
Results == {"OK", "EIO", "EINVARG", "EINFORMAT", "ENOMEM"}

ELFCLASS == {"NONE", "32", "64"}
ELFDATA  == {"NONE", "LSB", "MSB"}

Phdr == [type : Nat, offset : 0..(Word - 1), vaddr : 0..(Word - 1),
         filesz : 0..(Word - 1), memsz : 0..(Word - 1), w : BOOLEAN]

File == [parts : Nat, exists : BOOLEAN, size : 0..(Word - 1), whole : BOOLEAN,
         signature : BOOLEAN, class : ELFCLASS, encoding : ELFDATA,
         phoff : BOOLEAN, phdrs : Seq(Phdr)]

ASSUME ElfAssumption ==
    /\ FileSet \subseteq File /\ FileSet # {}
    /\ \A f \in FileSet : BlocksFor(f.size) \in 0..Slack

elf_validate_loaded(f) ==
    /\ f.signature
    /\ f.class \in {"NONE", "32"}
    /\ f.encoding \in {"NONE", "LSB"}
    /\ f.phoff

\* The bounds of a struct elf_file before any header is processed
NoBounds == [vbase |-> 0, vend |-> 0, pbase |-> 0, pend |-> 0]

\* Mutant: the end is taken from the last header instead of the highest.
elf_process_phdr_pt_load_last(b, memory, ph) ==
    LET lower == b.vbase >= ph.vaddr \/ b.vbase = 0
    IN  [vbase |-> IF lower THEN ph.vaddr ELSE b.vbase,
         pbase |-> IF lower THEN memory + ph.offset ELSE b.pbase,
         vend  |-> (ph.vaddr + ph.filesz) % Word,
         pend  |-> (memory + ph.offset + ph.filesz) % Word]

elf_process_phdr_pt_load(b, memory, ph) ==
    LET lower == b.vbase >= ph.vaddr \/ b.vbase = 0
        end   == (ph.vaddr + ph.filesz) % Word
        upper == b.vend =< end \/ b.vend = 0
    IN  [vbase |-> IF lower THEN ph.vaddr ELSE b.vbase,
         pbase |-> IF lower THEN (memory + ph.offset) % Word ELSE b.pbase,
         vend  |-> IF upper THEN end ELSE b.vend,
         pend  |-> IF upper THEN (memory + ph.offset + ph.filesz) % Word ELSE b.pend]

\* elf_process_pheaders and elf_process_pheader: the PT_LOAD headers in order
elf_process_pheaders(f, memory) ==
    LET after[i \in 0..Len(f.phdrs)] ==
            IF i = 0 THEN NoBounds
            ELSE IF f.phdrs[i].type = PT_LOAD
            THEN elf_process_phdr_pt_load(after[i - 1], memory, f.phdrs[i])
            ELSE after[i - 1]
    IN  after[Len(f.phdrs)]

-----------------------------------------------------------------------------
(* The file layer, as the loaders use it: what it takes from the heap and  *)
(* gives back (Files.tla models what it reads).  A path, a handle and a    *)
(* descriptor are blocks of the heap.                                      *)

Take(m, load, kind) == kzalloc(m, PageSize, [load |-> load, kind |-> kind])

\* pathparser_parse_path_part: the string of a part, then its struct.  Neither
\* is checked; without one of them the parser takes the path to end here.
pathparser_parse_path_part(m, load) ==
    LET Struct(string) == IF string.ptr = NULL THEN string ELSE Take(string.mem, load, "path")
    IN  Struct(Take(m, load, "path"))

\* pathparser_get_path_part at the end of the path: the string stays empty and
\* is freed, null or not
EndOfPath(m, load) ==
    LET Empty(string) == kfree(string.mem, string.ptr)
    IN  Empty(Take(m, load, "path"))

\* pathparser_parse: the root, the parts, and once more at the path's end.
\* The answer is the memory and whether there is a root with a first part.
pathparser_parse(m, parts, load) ==
    LET Round(before) ==
            IF before.ptr = NULL THEN before ELSE pathparser_parse_path_part(before.mem, load)
        Ended(last) == IF last.ptr = NULL THEN last.mem ELSE EndOfPath(last.mem, load)
        Parse(root) ==
            LET after[i \in 0..parts] == IF i = 0 THEN root ELSE Round(after[i - 1])
            IN  [mem |-> Ended(after[parts]), first |-> parts > 0 /\ after[1].ptr # NULL]
    IN  Parse(Take(m, load, "path"))

\* fopen: the path, the handle of fat32_open, the descriptor.  Nothing frees
\* the path.  A path cut short for want of memory asks fat32_open for one of
\* its directories, to which kzalloc refuses a handle as well.  When only the
\* descriptor is refused fopen answers its number, written to address 0 and
\* read back from there, and the table of descriptors has nothing under it:
\* to fstat, fread and fclose that is the same as no file, ptr = NULL here.
fopen(m, f, load) ==
    LET Closed(now) == [mem |-> now, handle |-> NULL, ptr |-> NULL]
        Described(handle, desc) == [mem |-> desc.mem, handle |-> handle, ptr |-> desc.ptr]
        Opened(handle) ==
            IF handle.ptr = NULL THEN Closed(handle.mem)
            ELSE Described(handle.ptr, Take(handle.mem, load, "descriptor"))
        Parsed(path) ==
            IF path.first /\ f.exists THEN Opened(Take(path.mem, load, "handle"))
            ELSE Closed(path.mem)
    IN  Parsed(pathparser_parse(m, f.parts, load))

\* Mutant: the handle is not freed with the descriptor.
fclose_handle_left(m, fd) == IF fd.ptr = NULL THEN m ELSE kfree(m, fd.ptr)

\* fclose and fat32_close: the handle, then the descriptor
fclose(m, fd) == IF fd.ptr = NULL THEN m ELSE kfree(kfree(m, fd.handle), fd.ptr)

\* What fread(ptr, size, 1, fd) answers: an error for no bytes, else the
\* number of items; a file that ends early is no error
fread(f) == IF f.size = 0 THEN -1 ELSE IF f.whole THEN 1 ELSE 0

-----------------------------------------------------------------------------

\* elf_load: the struct elf_file, the whole file in memory, its headers.  The
\* allocations are not checked: without memory the file is read to address
\* 0.  The file is closed whatever happens; no error path frees the struct or
\* the memory.  Without a descriptor it is fopen or fstat that fails.
elf_load(m, f, load) ==
    LET Answer(now, res, elf, memory) ==
            [mem |-> now, res |-> res, file |-> elf, memory |-> memory,
             bounds |-> IF res = "OK" THEN elf_process_pheaders(f, memory) ELSE NoBounds]
        Read(elf, fd, memory) ==
            Answer(fclose(memory.mem, fd),
                   IF fread(f) < 0 THEN "EINVARG"
                   ELSE IF elf_validate_loaded(f) THEN "OK" ELSE "EINFORMAT",
                   elf, memory.ptr)
        Opened(elf, fd) ==
            IF fd.ptr = NULL THEN Answer(fd.mem, "EIO", elf, NULL)
            ELSE Read(elf, fd,
                      kzalloc(fd.mem, f.size, [load |-> load, kind |-> "elf_memory"]))
        Struct(elf) == Opened(elf.ptr, fopen(elf.mem, f, load))
    IN  Struct(kzalloc(m, PageSize, [load |-> load, kind |-> "elf_file"]))

\* elf_close
elf_close(m, elf_file, elf_memory) ==
    IF elf_file = NULL THEN m ELSE kfree(kfree(m, elf_memory), elf_file)
=============================================================================
