------------------------------ MODULE FileApi ------------------------------
(***************************************************************************)
(* What the callers of fopen, fread, fseek, fstat and fclose rely on: an   *)
(* open descriptor is a position in the content of one file, reads return  *)
(* the content from there on and move it, descriptors are independent, and *)
(* a call that is refused changes nothing.  Files.tla is shown to          *)
(* implement this.                                                         *)
(***************************************************************************)
EXTENDS Integers, Sequences, FiniteSetsExt

CONSTANTS
    Descriptors,    \* the descriptors that can be open
    Numbers,        \* the numbers a caller may pass for a descriptor
    Requests,       \* what a caller may pass to fopen: a file and a mode
    Content,        \* the bytes of each file, by path
    Sizes,          \* the sizes of an item that a caller may read
    Counts          \* the numbers of items

VARIABLES
    open,           \* for each descriptor, the file and position, or Closed
    answer          \* the last call, its arguments, its result and its bytes

Closed == [file |-> <<>>, pos |-> -1]

IsOpen(fd) == fd \in Descriptors /\ open[fd] # Closed

Answers(call, args, res, data) ==
    answer' = [call |-> call, args |-> args, res |-> res, data |-> data]

Init ==
    /\ open = [fd \in Descriptors |-> Closed]
    /\ answer = [call |-> "", args |-> <<>>, res |-> 0, data |-> <<>>]

Open(file, fd) ==
    /\ ~IsOpen(fd)
    /\ open' = [open EXCEPT ![fd] = [file |-> file, pos |-> 0]]
    /\ Answers("fopen", <<file, "r">>, fd, <<>>)

\* No such file, or not to be read
OpenRefused(r) ==
    /\ r[1] \notin DOMAIN Content \/ r[2] # "r"
    /\ Answers("fopen", r, 0, <<>>)
    /\ UNCHANGED open

\* With every descriptor taken, fopen answers 0 or a number that no other
\* call accepts.
OpenUnusable(file) ==
    /\ \A fd \in Descriptors : IsOpen(fd)
    /\ answer'.res \notin Descriptors
    /\ Answers("fopen", <<file, "r">>, answer'.res, <<>>)
    /\ UNCHANGED open

Read(fd, size, nmemb) ==
    LET left  == Len(Content[open[fd].file]) - open[fd].pos
        count == Min({left, size * nmemb})
    IN  /\ IsOpen(fd)
        /\ size * nmemb > 0
        /\ open' = [open EXCEPT ![fd].pos = @ + count]
        /\ Answers("fread", <<fd, size, nmemb>>, count \div size,
                   SubSeq(Content[open[fd].file], open[fd].pos + 1, open[fd].pos + count))

ReadRefused(fd, size, nmemb) ==
    /\ ~IsOpen(fd) \/ size * nmemb = 0
    /\ answer'.res < 0
    /\ Answers("fread", <<fd, size, nmemb>>, answer'.res, <<>>)
    /\ UNCHANGED open

Seek(fd) ==
    /\ IsOpen(fd)
    /\ \E pos \in 0..Len(Content[open[fd].file]) : open' = [open EXCEPT ![fd].pos = pos]
    /\ Answers("fseek", <<fd>>, 0, <<>>)

SeekRefused(fd) ==
    /\ answer'.res < 0
    /\ Answers("fseek", <<fd>>, answer'.res, <<>>)
    /\ UNCHANGED open

Stat(fd) ==
    /\ IsOpen(fd)
    /\ Answers("fstat", <<fd>>, 0, <<Len(Content[open[fd].file])>>)
    /\ UNCHANGED open

Close(fd) ==
    /\ IsOpen(fd)
    /\ open' = [open EXCEPT ![fd] = Closed]
    /\ Answers("fclose", <<fd>>, 0, <<>>)

NotOpen(fd) ==
    /\ ~IsOpen(fd)
    /\ answer'.res < 0
    /\ \E call \in {"fstat", "fclose"} : Answers(call, <<fd>>, answer'.res, <<>>)
    /\ UNCHANGED open

Next ==
    \/ \E file \in DOMAIN Content, fd \in Descriptors : Open(file, fd)
    \/ \E r \in Requests : OpenRefused(r)
    \/ \E file \in DOMAIN Content : OpenUnusable(file)
    \/ \E fd \in Numbers, size \in Sizes, nmemb \in Counts :
            Read(fd, size, nmemb) \/ ReadRefused(fd, size, nmemb)
    \/ \E fd \in Numbers : Seek(fd) \/ SeekRefused(fd) \/ Stat(fd) \/ Close(fd) \/ NotOpen(fd)

Spec == Init /\ [][Next]_<<open, answer>>
=============================================================================
