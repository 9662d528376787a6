----------------------------- MODULE PathParser -----------------------------
(***************************************************************************)
(* The path parser of src/fs/pparser.c.  A path is the sequence of its     *)
(* characters; what pathparser_parse makes of it is the number of a drive  *)
(* and the parts, or a null pointer.                                       *)
(***************************************************************************)
EXTENDS Integers, Sequences, SequencesExt

CONSTANT MaxPath        \* PEACHOS_MAX_PATH

ASSUME PathAssumption == MaxPath \in Nat \ {0}

DigitChars == <<"0", "1", "2", "3", "4", "5", "6", "7", "8", "9">>

isdigit(c) == c \in ToSet(DigitChars)

tonumericdigit(c) == SelectInSeq(DigitChars, LAMBDA d : d = c) - 1

pathparser_path_valid_format(filename) ==
    /\ Len(filename) >= 3
    /\ isdigit(filename[1])
    /\ filename[2] = ":" /\ filename[3] = "/"

\* What is left of a path behind its first n characters and a slash there
AfterPart(path, n) == SubSeq(path, n + 2, Len(path))

\* pathparser_get_path_part: the characters up to a slash or the end
pathparser_get_path_part(path) ==
    LET slash == SelectInSeq(path, LAMBDA c : c = "/")
        n     == IF slash = 0 THEN Len(path) ELSE slash - 1
    IN  [part |-> SubSeq(path, 1, n), rest |-> AfterPart(path, n)]

\* The parts that pathparser_parse links together: it stops at the first one
\* that is empty, at the end of the path or between two slashes
Parts(path) ==
    LET after[i \in 0..Len(path)] ==
            IF i = 0
            THEN [parts |-> <<>>, rest |-> path, done |-> FALSE]
            ELSE LET before == after[i - 1]
                     next   == pathparser_get_path_part(before.rest)
                 IN  IF before.done THEN before
                     ELSE IF next.part = <<>> THEN [before EXCEPT !.done = TRUE]
                     ELSE [before EXCEPT !.parts = Append(@, next.part), !.rest = next.rest]
    IN  after[Len(path)].parts

NoPath == [drive |-> -1, parts |-> <<>>]

pathparser_parse(filename) ==
    IF Len(filename) > MaxPath \/ ~pathparser_path_valid_format(filename)
    THEN NoPath
    ELSE [drive |-> tonumericdigit(filename[1]),
          parts |-> Parts(SubSeq(filename, 4, Len(filename)))]
=============================================================================
