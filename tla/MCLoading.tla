------------------------------ MODULE MCLoading ------------------------------
(***************************************************************************)
(* Loading.tla on pages of four bytes, tables of nine entries and a set   *)
(* of small files.  The program area starts two pages below the end of the *)
(* first table, so that programs cross from one table to the next.         *)
(***************************************************************************)
EXTENDS Loading

Segment(offset, vaddr, filesz, memsz, w) ==
    [type |-> PT_LOAD, offset |-> offset, vaddr |-> vaddr,
     filesz |-> filesz, memsz |-> memsz, w |-> w]

\* PT_GNU_STACK, which linkers add: no bytes, at address 0
StackHeader == [Segment(0, 0, 0, 0, TRUE) EXCEPT !.type = 7]

Elf(size, phdrs) ==
    [parts |-> 1, exists |-> TRUE, size |-> size, whole |-> TRUE, signature |-> TRUE,
     class |-> "32", encoding |-> "LSB", phoff |-> TRUE, phdrs |-> phdrs]

Raw(size) == [Elf(size, <<>>) EXCEPT !.signature = FALSE]

\* Code, and data that starts inside a page and crosses into the next table;
\* the headers are not in the order of the addresses
TwoSegments == Elf(12, << Segment(5, 33, 6, 7, TRUE), Segment(0, 28, 4, 4, FALSE), StackHeader >>)

\* Code and data that share a page
SharedPage == Elf(6, << Segment(0, 28, 3, 3, FALSE), Segment(3, 31, 3, 3, TRUE) >>)

\* .bss past the end of the file, in a directory
Bss == [Elf(4, << Segment(0, 28, 4, 9, TRUE) >>) EXCEPT !.parts = 2]

\* A header whose size makes the end of the range wrap around
Wraps == Elf(4, << Segment(0, 28, 4, 4, TRUE), Segment(0, 4, 4, 318, TRUE) >>)

Elf64   == [SharedPage EXCEPT !.class = "64"]
Missing == [Raw(4) EXCEPT !.exists = FALSE]
NoName  == [Missing EXCEPT !.parts = 0]
Cut     == [Raw(5) EXCEPT !.whole = FALSE]

MCFileSet == {TwoSegments, SharedPage, Bss, Wraps, Elf64, Missing, NoName, Cut, Raw(0)}

\* The blocks behind the kernel's own pages
Behind == (Entries + 2)..(Total - 1)

\* Nothing; all but a few blocks; single blocks with gaps of one between them
MCBurdens ==
    {{}}
    \cup {{b \in Behind : b >= Entries + 2 + free} : free \in 0..13}
    \cup {{b \in Behind : b % 2 = odd} : odd \in {0, 1}}
=============================================================================
