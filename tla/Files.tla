------------------------------- MODULE Files -------------------------------
(***************************************************************************)
(* The file layer: the descriptor table of fs/file.c over the path parser  *)
(* of PathParser.tla and the FAT32 driver of Fat32.tla.  All handles share *)
(* the one disk stream of the file system, and calls on different          *)
(* descriptors interleave.                                                 *)
(***************************************************************************)
EXTENDS Fat32, PathParser

CONSTANTS
    MaxDescriptors, \* PEACHOS_MAX_FILE_DESCRIPTORS
    Requests,       \* what callers may pass to fopen: a file name and a mode
    Sizes,          \* the sizes of an item to read
    Counts,         \* the numbers of items to read
    Offsets,        \* the offsets to seek
    Whence          \* the seek modes

VARIABLES
    file_descriptors,   \* for each index of the table, what fopen stored there
    stream,             \* fat_private->read_stream->pos
    answer              \* the last call, its arguments, its result and its bytes

vars == <<file_descriptors, stream, answer>>

ASSUME FilesAssumption ==
    /\ MaxDescriptors \in Nat \ {0}
    /\ Offsets \subseteq Nat /\ Sizes \subseteq Nat /\ Counts \subseteq Nat

Indexes == 0..(MaxDescriptors - 1)

\* What a caller may pass for a descriptor: fclose(0) follows a failed fopen
Numbers == 0..MaxDescriptors

NoDescriptor == [filename |-> <<>>, private |-> Handle(NoItem)]

FreeIndexes == {i \in Indexes : file_descriptors[i] = NoDescriptor}

Answers(call, args, res, data) ==
    answer' = [call |-> call, args |-> args, res |-> res, data |-> data]

-----------------------------------------------------------------------------

\* Descriptors start at 1
IndexOf(fd) == fd - 1

\* file_get_descriptor returns one: the last descriptor of the table is
\* never found
Found(fd) ==
    /\ 0 < fd
    /\ fd < MaxDescriptors
    /\ file_descriptors[IndexOf(fd)] # NoDescriptor

\* The handle of a descriptor that was found
Private(fd) == file_descriptors[IndexOf(fd)].private

Init ==
    /\ file_descriptors = [i \in Indexes |-> NoDescriptor]
    /\ stream = 0
    /\ answer = [call |-> "", args |-> <<>>, res |-> 0, data |-> <<>>]

\* disk_get
DiskExists(drive) == drive = 0

\* The checks of fopen before it calls the driver: the path parses and names
\* more than a drive, the drive exists, the mode is known; then fat32_open's
\* own check of the mode
Acceptable(filename, mode) ==
    /\ pathparser_parse(filename).parts # <<>>
    /\ DiskExists(pathparser_parse(filename).drive)
    /\ mode = "r"

\* What the driver makes of an acceptable file name
Looked(filename) == get_path_directory_item(pathparser_parse(filename).parts, stream)

\* fopen up to the driver's answer: the request is refused
OpenInvalid(filename, mode) ==
    /\ ~Acceptable(filename, mode)
    /\ Answers("fopen", <<filename, mode>>, 0, <<>>)
    /\ UNCHANGED <<file_descriptors, stream>>

\* fopen of a path that the driver does not find
OpenNotFound(filename, mode) ==
    /\ Acceptable(filename, mode)
    /\ Looked(filename).item = NoItem
    /\ stream' = Looked(filename).stream
    /\ Answers("fopen", <<filename, mode>>, 0, <<>>)
    /\ UNCHANGED file_descriptors

\* fopen of a path that the driver finds, with a free descriptor
Open(filename, mode) ==
    LET i == Min(FreeIndexes)
    IN  /\ Acceptable(filename, mode)
        /\ Looked(filename).item # NoItem
        /\ FreeIndexes # {}
        /\ file_descriptors' = [file_descriptors EXCEPT
                ![i] = [filename |-> filename, private |-> Handle(Looked(filename).item)]]
        /\ stream' = Looked(filename).stream
        /\ Answers("fopen", <<filename, mode>>, i + 1, <<>>)

\* fopen with every descriptor taken: 0, and the driver's handle is lost
OpenNoDescriptor(filename, mode) ==
    /\ Acceptable(filename, mode)
    /\ Looked(filename).item # NoItem
    /\ FreeIndexes = {}
    /\ stream' = Looked(filename).stream
    /\ Answers("fopen", <<filename, mode>>, 0, <<>>)
    /\ UNCHANGED file_descriptors

\* fread
Read(fd, size, nmemb) ==
    LET r == fat32_read(Private(fd), stream, size, nmemb)
    IN  /\ size # 0 /\ nmemb # 0
        /\ Found(fd)
        /\ file_descriptors' = [file_descriptors EXCEPT ![IndexOf(fd)].private = r.s.h]
        /\ stream' = r.s.stream
        /\ Answers("fread", <<fd, size, nmemb>>, r.items, r.s.out)

\* fread of nothing, or without a descriptor
ReadInvalid(fd, size, nmemb) ==
    /\ size = 0 \/ nmemb = 0 \/ ~Found(fd)
    /\ Answers("fread", <<fd, size, nmemb>>, -EINVARG, <<>>)
    /\ UNCHANGED <<file_descriptors, stream>>

\* fseek
Seek(fd, offset, whence) ==
    LET s == fat32_seek(Private(fd), stream, offset, whence)
    IN  /\ Found(fd)
        /\ file_descriptors' = [file_descriptors EXCEPT ![IndexOf(fd)].private = s.h]
        /\ stream' = s.stream
        /\ Answers("fseek", <<fd>>, s.res, <<>>)

\* fstat, with the size that fat32_stat reports
Stat(fd) ==
    /\ Found(fd)
    /\ Answers("fstat", <<fd>>, 0, <<Private(fd).file_size>>)
    /\ UNCHANGED <<file_descriptors, stream>>

\* fclose: fat32_close always succeeds
Close(fd) ==
    /\ Found(fd)
    /\ file_descriptors' = [file_descriptors EXCEPT ![IndexOf(fd)] = NoDescriptor]
    /\ Answers("fclose", <<fd>>, 0, <<>>)
    /\ UNCHANGED stream

\* fseek, fstat and fclose without a descriptor
NotOpen(call, fd) ==
    /\ ~Found(fd)
    /\ Answers(call, <<fd>>, -EIO, <<>>)
    /\ UNCHANGED <<file_descriptors, stream>>

Next ==
    \/ \E r \in Requests : \/ OpenInvalid(r[1], r[2])
                         \/ OpenNotFound(r[1], r[2])
                         \/ Open(r[1], r[2])
                         \/ OpenNoDescriptor(r[1], r[2])
    \/ \E fd \in Numbers, size \in Sizes, nmemb \in Counts :
            Read(fd, size, nmemb) \/ ReadInvalid(fd, size, nmemb)
    \/ \E fd \in Numbers, offset \in Offsets, whence \in Whence : Seek(fd, offset, whence)
    \/ \E fd \in Numbers : Stat(fd) \/ Close(fd)
    \/ \E fd \in Numbers, call \in {"fseek", "fstat", "fclose"} : NotOpen(call, fd)

Spec == Init /\ [][Next]_vars

-----------------------------------------------------------------------------
(* What the disk holds, independently of the driver                        *)

\* A chain goes on after a cluster unless the FAT says it ends there.
IsLast(cluster) == cluster \notin DOMAIN FAT \/ FAT[cluster] = EndMark

\* The clusters of the chain that starts at a cluster
ChainFrom(cluster) ==
    LET hops == Cardinality(DOMAIN FAT)
        chain[i \in 0..hops] ==
            IF i = 0
            THEN IF cluster = 0 THEN <<>> ELSE <<cluster>>
            ELSE LET before == chain[i - 1]
                 IN  IF before = <<>> \/ IsLast(Last(before)) THEN before
                     ELSE Append(before, FAT[Last(before)])
    IN  chain[hops]

\* The bytes of the file whose item this is
BytesOf(item) ==
    [i \in 1..item.size |->
        DataStart + (ChainFrom(item.cluster)[((i - 1) \div ClusterSize) + 1] - 2) * ClusterSize
                  + ((i - 1) % ClusterSize)]

\* A name of up to BaseLength characters and an extension, padded
Padded(s, n) == [i \in 1..n |-> IF i \in DOMAIN s THEN toupper(s[i]) ELSE " "]

ShortName(part) ==
    LET dot == SelectInSeq(part, LAMBDA c : c = ".")
    IN  IF dot = 0
        THEN Padded(part, NameLength)
        ELSE Padded(SubSeq(part, 1, dot - 1), BaseLength)
             \o Padded(SubSeq(part, dot + 1, Len(part)), NameLength - BaseLength)

\* The items of the directory that starts at a cluster
ItemsOf(cluster) ==
    UNION {ToSet(Directory[c]) : c \in ToSet(ChainFrom(cluster)) \cap DOMAIN Directory}

\* The items that a path names, one at most
Named(path) ==
    LET named[i \in 0..Len(path)] ==
            IF i = 0 THEN {[NoItem EXCEPT !.dir = TRUE, !.cluster = RootCluster]}
            ELSE UNION {{item \in ItemsOf(d.cluster) : item.name = ShortName(path[i])} :
                            d \in {e \in named[i - 1] : e.dir}}
    IN  named[Len(path)]

\* The parts of a name "0:/part/part", by the slashes in it: part i stands
\* between slash i and the next one or the end.  Nothing behind two slashes
\* in a row, or behind a slash at the end, counts.
NameParts(filename) ==
    LET slashes  == {k \in DOMAIN filename : filename[k] = "/"}
        Stop(k)  == Min({e \in k + 1..Len(filename) + 1 :
                            e = Len(filename) + 1 \/ e \in slashes}) - 1
        counted  == {k \in slashes : \A e \in slashes : e =< k => Stop(e) > e}
        Nth(n)   == CHOOSE k \in counted : Cardinality({e \in counted : e =< k}) = n
    IN  [n \in 1..Cardinality(counted) |-> SubSeq(filename, Nth(n) + 1, Stop(Nth(n)))]

\* The names that start with the drive, and are not too long
OnDrive0(filename) ==
    /\ Len(filename) \in 3..MaxPath
    /\ SubSeq(filename, 1, 3) = <<"0", ":", "/">>

\* The bytes of every file that a name stands for
DiskContent ==
    [filename \in {f \in {r[1] : r \in Requests} :
                        /\ OnDrive0(f)
                        /\ NameParts(f) # <<>>
                        /\ Named(NameParts(f)) # {}} |->
        BytesOf(CHOOSE item \in Named(NameParts(filename)) : TRUE)]

-----------------------------------------------------------------------------

\* Type invariant of the descriptor table: a handle is inside its cluster
\* and not past the end of its file.
TypeOK ==
    /\ \A i \in Indexes :
        LET h == file_descriptors[i].private
        IN  /\ h.file_pos \in 0..h.file_size
            /\ h.position_in_cluster \in 0..(ClusterSize - 1)
            /\ h.current_cluster \in Nat
    /\ stream \in Nat
    /\ answer.res \in Int

Expected == INSTANCE FileApi
              WITH Descriptors <- 1..(MaxDescriptors - 1),
                   Content <- DiskContent,
                   open <- [fd \in 1..(MaxDescriptors - 1) |->
                              LET d == file_descriptors[fd - 1]
                              IN  IF d = NoDescriptor
                                  THEN [file |-> <<>>, pos |-> -1]
                                  ELSE [file |-> d.filename, pos |-> d.private.file_pos]]

\* fopen finds exactly the files that the directories list, and every read
\* returns the bytes of the file the descriptor was opened for, from where
\* the last read of this descriptor ended, whatever calls on other
\* descriptors moved the shared stream in between; refused calls change
\* nothing.  The last descriptor of the table is not one a caller can use:
\* fopen hands it out, but file_get_descriptor never finds it.
ImplementsFileApi == Expected!Spec

\* Where a handle stands follows from how much it has read: cluster and
\* offset are those of byte file_pos in the file's chain.
HandleFollowsChain ==
    \A i \in Indexes :
        LET h     == file_descriptors[i].private
            chain == ChainFrom(h.starting_cluster)
            hop   == h.file_pos \div ClusterSize
        IN  /\ h.position_in_cluster = h.file_pos % ClusterSize
            /\ h.current_cluster = IF hop < Len(chain) THEN chain[hop + 1] ELSE 0

\* What get_next_cluster_id says ("Return 0 if this cluster is last"), for
\* the cluster a descriptor stands in: zero if it is the last, and only then.
ZeroMeansLast ==
    \A i \in Indexes :
        LET c == file_descriptors[i].private.current_cluster
        IN  c # 0 => (get_next_cluster_id(c) = 0 <=> IsLast(c))

\* What fat32_seek says when it starts to walk ("We know that file will not
\* end"): a seek that succeeds has not run out of clusters.
SeekStaysInFile ==
    answer.call = "fseek" /\ answer.res = 0
        => Private(answer.args[1]).current_cluster # 0
=============================================================================
