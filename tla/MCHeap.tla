------------------------------- MODULE MCHeap -------------------------------
(***************************************************************************)
(* Heap.tla on a heap of a few blocks, with the scan of                    *)
(* heap_get_start_block transcribed as the loop it is.                     *)
(***************************************************************************)
EXTENDS Heap

\* Mutant: a taken block does not reset the count of free ones.
ScanStepNoReset(s, i, n) ==
    IF s.done THEN s
    ELSE IF ~IsFree(entries, i) THEN [s EXCEPT !.bs = -1]
    ELSE [bc   |-> s.bc + 1,
          bs   |-> IF s.bs = -1 THEN i ELSE s.bs,
          done |-> s.bc + 1 = n]

\* One iteration of the for loop of heap_get_start_block at index i, on the
\* loop's locals: bc, bs and whether the loop has been left by break.
ScanStep(s, i, n) ==
    IF s.done THEN s
    ELSE IF ~IsFree(entries, i) THEN [bc |-> 0, bs |-> -1, done |-> FALSE]
    ELSE [bc   |-> s.bc + 1,
          bs   |-> IF s.bs = -1 THEN i ELSE s.bs,
          done |-> s.bc + 1 = n]

\* heap_get_start_block(heap, n), the loop
Scan(n) ==
    LET after[i \in 0..Total] ==
            IF i = 0 THEN [bc |-> 0, bs |-> -1, done |-> FALSE]
                     ELSE ScanStep(after[i - 1], i - 1, n)
    IN  after[Total].bs

\* In every table the kernel can produce, and for every request, the loop of
\* heap_get_start_block finds the block that the declarative definition
\* names: the first run long enough, else the short run at the end.  In
\* particular it reports -ENOMEM only if no run is long enough.
ScanAgrees ==
    \A n \in 0..(Total + 1) : Scan(n) = heap_get_start_block(entries, n)
=============================================================================
