----------------------------- MODULE HeapTable -----------------------------
(***************************************************************************)
(* The functions of src/memory/heap/heap.c, as operators on the table t of *)
(* the heap they are given.                                                *)
(*                                                                         *)
(* The table has one byte per block, which says whether the block is taken *)
(* and whether another block of the same allocation follows.  It is plain  *)
(* memory at PEACH_OS_HEAP_TABLE_ADDRESS: the code indexes it with an int  *)
(* that may be negative (kfree of a null pointer) or past its end, so a    *)
(* table here includes the bytes around it.                                *)
(***************************************************************************)
EXTENDS Integers, FiniteSetsExt

CONSTANTS
    BlockSize,      \* PEACH_OS_HEAP_BLOCK_SIZE, in bytes
    HeapBytes,      \* PEACH_OS_HEAP_SIZE_BYTES
    HeapStart,      \* PEACH_OS_HEAP_ADDRESS
    Word,           \* 2^32, the range of uint32_t
    Sizes,          \* the sizes, in bytes, that callers ask for
    Slack,          \* the bytes kept past the end of the table
    Junk            \* the bytes that memory around the table may hold at boot

\* table->total, computed by kheap_init and confirmed by heap_validate_table
Total == HeapBytes \div BlockSize

Blocks == 0..(Total - 1)

\* The table index that heap_address_to_block computes for a null pointer
NullBlock == -(HeapStart \div BlockSize)

\* The bytes of memory that the code can reach by indexing the table
Cells == NullBlock..(Total + Slack - 1)

\* HEAP_BLOCK_TABLE_ENTRY_TAKEN, HEAP_BLOCK_IS_FIRST and HEAP_BLOCK_HAS_NEXT;
\* HEAP_BLOCK_TABLE_ENTRY_FREE is the empty set of flags
Flags == {"TAKEN", "FIRST", "NEXT"}

\* Mutant: a size that is already aligned is rounded up to the next block.
heap_align_value_to_next(val) == (val - (val % BlockSize) + BlockSize) % Word

\* heap_align_value_to_upper, in uint32_t arithmetic
heap_align_value_to_upper(val) ==
    IF val % BlockSize = 0
    THEN val
    ELSE (val - (val % BlockSize) + BlockSize) % Word

\* The number of blocks heap_malloc asks for
BlocksFor(size) == heap_align_value_to_upper(size) \div BlockSize

ASSUME HeapAssumption ==
    /\ BlockSize \in Nat \ {0}
    /\ HeapBytes \in Nat \ {0}
    /\ HeapBytes % BlockSize = 0
    /\ HeapStart \in Nat \ {0}
    /\ HeapStart % BlockSize = 0
    /\ Word \in Nat \ {0}
    /\ Slack \in Nat
    /\ Junk \subseteq SUBSET Flags
    /\ Sizes \subseteq 0..(Word - 1)
    /\ \A s \in Sizes : BlocksFor(s) \in 0..Slack

-----------------------------------------------------------------------------

heap_block_to_address(block) == HeapStart + block * BlockSize

\* C's division truncates towards zero; the pointers are block aligned, for
\* which it agrees with \div.
heap_address_to_block(address) == (address - HeapStart) \div BlockSize

NULL == 0

ENOMEM == -1

\* An allocation: the pointer kmalloc returned and the blocks it marked
Allocation == [ptr : {heap_block_to_address(b) : b \in Blocks},
               blocks : 0..Slack]

\* The blocks of memory an allocation stands for, past the heap's end included
BlocksOf(a) ==
    LET first == heap_address_to_block(a.ptr)
    IN  first..(first + a.blocks - 1)

\* Mutant: only the first block of an allocation counts as taken.
IsFreeUnlessFirst(t, i) == "FIRST" \notin t[i]

\* heap_get_entry_type(entry) == HEAP_BLOCK_TABLE_ENTRY_FREE
IsFree(t, i) == "TAKEN" \notin t[i]

\* The starts of runs of n free blocks
Fits(t, n) == {b \in Blocks : b + n =< Total /\ \A i \in b..(b + n - 1) : IsFree(t, i)}

\* The blocks from which everything up to the table's end is free
Trailing(t) == {b \in Blocks : \A i \in b..(Total - 1) : IsFree(t, i)}

\* Mutant: a scan that fails answers the index where it stopped.
heap_get_start_block_past_end(t, n) ==
    IF n > 0 /\ Fits(t, n) # {} THEN Min(Fits(t, n)) ELSE Total

\* What the scan of heap_get_start_block returns: the first fit, and when
\* the loop runs out of table the start of the run it was counting, however
\* short.  A request for no blocks never meets bc == total_blocks.
heap_get_start_block(t, n) ==
    IF n > 0 /\ Fits(t, n) # {} THEN Min(Fits(t, n))
    ELSE IF Trailing(t) # {} THEN Min(Trailing(t))
    ELSE ENOMEM

\* The byte heap_mark_blocks_taken stores for the i-th of n blocks
TakenEntry(i, n) ==
    {"TAKEN"} \cup (IF i = 0 THEN {"FIRST"} ELSE {})
              \cup (IF i < n - 1 THEN {"NEXT"} ELSE {})

\* Mutant: i < end_block in the loop, so the last block stays free.
heap_mark_blocks_taken_short(t, start, n) ==
    [c \in Cells |-> IF c = start \/ c \in start..(start + n - 2)
                     THEN TakenEntry(c - start, n)
                     ELSE t[c]]

heap_mark_blocks_taken(t, start, n) ==
    [c \in Cells |-> IF c \in start..(start + n - 1)
                     THEN TakenEntry(c - start, n)
                     ELSE t[c]]

\* Mutant: the loop of heap_mark_blocks_free never breaks.
ChainToEnd(t, start) == {c \in Cells : start =< c /\ c < Total}

\* Mutant: only the first block is cleared.
ChainFirstOnly(t, start) == {start}

\* The bytes the loop of heap_mark_blocks_free clears: it goes on while the
\* byte it has just cleared said HAS_NEXT and the index is below total.
Chain(t, start) ==
    {c \in Cells : /\ start =< c
                   /\ c < Total
                   /\ \A d \in start..(c - 1) : "NEXT" \in t[d]}

heap_mark_blocks_free(t, start) ==
    [c \in Cells |-> IF c \in Chain(t, start) THEN {} ELSE t[c]]
=============================================================================
