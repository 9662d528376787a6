------------------------------- MODULE Fat16 -------------------------------
(***************************************************************************)
(* The FAT16 driver (fs/fat/fat16.c) under the calls that fs/file.c makes  *)
(* of it: resolve once, then open, read, seek, stat and close on a few     *)
(* descriptors, interleaved.  The driver reads through three streams and   *)
(* keeps what it knows of a file in objects on the kernel heap, which may  *)
(* refuse any of them.                                                     *)
(*                                                                         *)
(* The disk is read only.  Items gives the directory item at each position *)
(* that holds one, FAT the entries of the table; a position of the disk    *)
(* outside both holds some word that is fixed, stray.                      *)
(***************************************************************************)
EXTENDS Streamer, SequencesExt

CONSTANTS
    Disks,              \* what a disk may hold where the signature should be, and
                        \* which of the requests that fat16_resolve makes of the
                        \* heap are refused, by number
    ReservedSectors, FatCopies, SectorsPerFat, RootDirEntries,
    SectorsPerCluster,  \* fields of struct fat_header
    ItemSize,           \* sizeof(struct fat_directory_item)
    Items,              \* the directory items, by position
    FAT,                \* the FAT's entries that are in use
    Strays,             \* what a word that is no FAT entry may hold
    Leftovers,          \* what freed memory may hold where a cluster is read
    Requests,           \* what to open: a path, a sequence of names; a mode; and
                        \* which requests for memory are refused meanwhile
    Reads,              \* the sizes and numbers of items to read
    Offsets, Whence,    \* the offsets and modes to seek with
    MaxOpen,            \* bound: the descriptors open at a time
    MaxBeside,          \* bound: the ones beside one for which the heap refused memory
    MaxPos,             \* bound: how far SEEK_CUR moves a position
    MaxObjects          \* bound: objects on the heap when a file is opened

VARIABLES
    state,          \* "new", then "resolved" or, with another signature, "refused"
    fs,             \* the positions of the streams, and the heap objects by kind
    descriptors,    \* the descriptors that the file layer holds
    stray,          \* what a word of the disk that is no FAT entry holds
    wild,           \* the driver took a null or a freed pointer for an object
    answer          \* the last call, its arguments, its result and its bytes

vars == <<state, fs, descriptors, stray, wild, answer>>

Slots == 1..MaxOpen

Kinds == {"private", "stream", "directory", "items", "fat_item", "clone", "descriptor"}

NoItem == [filename |-> <<>>, ext |-> <<>>, dir |-> FALSE, readonly |-> FALSE,
           cluster |-> 0, size |-> 0]

\* struct fat_item: a file with a clone of its directory item, or a directory
\* with its items.  The pointer to the clone or the directory is live, null or
\* to freed memory (ptr).
FatItem(type, ptr) == [type |-> type, ptr |-> ptr, item |-> NoItem, items |-> <<>>]
FileItem(item) == [FatItem("file", "live") EXCEPT !.item = item]
DirectoryItem(items) == [FatItem("directory", "live") EXCEPT !.items = items]

\* No struct fat_item at all
NoFatItem == FatItem("none", "null")

\* struct fat_file_descriptor, with the path it was opened for and whether
\* the heap refused something meanwhile
Descriptor(path, item, refused) == [path |-> path, item |-> item, pos |-> 0, refused |-> refused]
Closed == Descriptor(<<>>, NoFatItem, FALSE)

RootDirSector == FatCopies * SectorsPerFat + ReservedSectors

ClusterSize == SectorsPerCluster * SectorSize

ASSUME Fat16Assumption ==
    /\ {SectorsPerCluster, ItemSize, MaxOpen} \subseteq Nat \ {0}
    /\ {ReservedSectors, FatCopies, SectorsPerFat, RootDirEntries} \subseteq Nat
    /\ ClusterSize % ItemSize = 0
    /\ \A c \in DOMAIN FAT : c \in Nat /\ FAT[c] \in 0..65535
    /\ \A r \in Reads : r[1] \in Nat \ {0} /\ r[2] \in Nat \ {0}
    /\ Offsets \subseteq Nat
    /\ \A k \in Disks : k[2] \subseteq Nat
    /\ \A r \in Requests : r[3] \subseteq Nat

\* Of a call that asks the heap for nothing
Answers(call, args, res, data) ==
    answer' = [call |-> call, args |-> args, res |-> res, data |-> data, refused |-> FALSE]

-----------------------------------------------------------------------------
(* The heap, as far as the driver uses it                                  *)

\* What a call works on: the streams and the heap, the requests it has made
\* of the heap, which of them are refused, and whether it has gone wild
Call(refused) == [streams |-> fs.streams, heap |-> fs.heap,
                  asked |-> 0, refused |-> refused, wild |-> FALSE]

\* What it leaves
FsOf(s) == [streams |-> s.streams, heap |-> s.heap]

\* The heap has refused it something
WasRefused(s) == \E i \in s.refused : i =< s.asked

AnswersAfter(s, call, args, res) ==
    answer' = [call |-> call, args |-> args, res |-> res, data |-> <<>>,
               refused |-> WasRefused(s)]

\* The next request of this call will be refused
Refuses(s) == s.asked + 1 \in s.refused

kzalloc(s, kind) ==
    [s EXCEPT !.asked = @ + 1, !.heap[kind] = IF Refuses(s) THEN @ ELSE @ + 1]

\* A request whose answer is written to without a look at it
kzalloc_unchecked(s, kind) == [kzalloc(s, kind) EXCEPT !.wild = @ \/ Refuses(s)]

kfree(s, kind) == [s EXCEPT !.heap[kind] = @ - 1]

-----------------------------------------------------------------------------
(* Names                                                                   *)

Lowercase == [A |-> "a", B |-> "b", D |-> "d", E |-> "e", F |-> "f", G |-> "g"]

tolower(c) == IF c \in DOMAIN Lowercase THEN Lowercase[c] ELSE c

\* Mutant: the last character of a field is left out.
fat16_to_proper_string_short(s) ==
    LET blank == SelectInSeq(s, LAMBDA c : c = " ")
    IN  SubSeq(s, 1, (IF blank = 0 THEN Len(s) ELSE blank) - 1)

\* The characters of a field up to a blank or its end
fat16_to_proper_string(s) ==
    LET blank == SelectInSeq(s, LAMBDA c : c = " ")
    IN  SubSeq(s, 1, (IF blank = 0 THEN Len(s) + 1 ELSE blank) - 1)

fat16_get_full_relative_filename(item) ==
    fat16_to_proper_string(item.filename)
    \o (IF item.ext[1] = " " THEN <<>> ELSE <<".">> \o fat16_to_proper_string(item.ext))

\* istrncmp finds no difference
SameName(s, t) ==
    /\ Len(s) = Len(t)
    /\ \A i \in DOMAIN s : tolower(s[i]) = tolower(t[i])

-----------------------------------------------------------------------------
(* Clusters                                                                *)

\* Where the data begins: root_directory.ending_sector_pos
EndingSector == RootDirSector + (RootDirEntries * ItemSize) \div SectorSize

fat16_cluster_to_sector(cluster) == EndingSector + (cluster - 2) * SectorsPerCluster

\* The word of the disk at a position
WordAt(pos) ==
    LET cluster == (pos - ReservedSectors * SectorSize) \div 2
    IN  IF cluster \in DOMAIN FAT THEN FAT[cluster] ELSE stray

\* The position multiplies where it should add.
fat16_get_fat_entry(s, cluster) ==
    LET Read(at) == [s |-> [s EXCEPT !.streams.fat = diskstreamer_read(at, 2).stream],
                     entry |-> WordAt(at)]
    IN  Read(diskstreamer_seek(s.streams.fat, ReservedSectors * SectorSize * cluster * 2))

\* The entries that end the walk, and with it the read: 0xFF8 and 0xFFF, the
\* bad cluster 0xFF7, the reserved ones 0xFF0 and 0xFF6, and zero
Stops == {4088, 4095, 4087, 4080, 4086, 0}

\* The answer is -EIO, or a cluster.
fat16_get_cluster_for_offset(s, starting_cluster, offset) ==
    LET Follow(fat) == [s |-> fat.s,
                        cluster |-> IF fat.entry \in Stops THEN -EIO ELSE fat.entry]
        Step(before) == IF before.cluster = -EIO THEN before
                        ELSE Follow(fat16_get_fat_entry(before.s, before.cluster))
        after[i \in 0..(offset \div ClusterSize)] ==
            IF i = 0 THEN [s |-> s, cluster |-> starting_cluster] ELSE Step(after[i - 1])
    IN  after[offset \div ClusterSize]

\* starting_pos: where in the cluster an offset of the file falls
ReadPosition(cluster, offset) ==
    fat16_cluster_to_sector(cluster) * SectorSize + (offset % ClusterSize)

\* fat16_read_internal: at most a cluster's worth of bytes at a time, from
\* the offset on, even over the end of the cluster
fat16_read_internal(s, cluster, offset, total) ==
    LET Took(b, now, read) == [s |-> [now EXCEPT !.streams.cluster = read.stream],
                               out |-> b.out \o read.data, res |-> 0]
        From(b, use) ==
            IF use.cluster < 0
            THEN [b EXCEPT !.s = use.s, !.res = use.cluster]
            ELSE Took(b, use.s, diskstreamer_read(
                        diskstreamer_seek(use.s.streams.cluster,
                            ReadPosition(use.cluster, offset + Len(b.out))),
                        Min({ClusterSize, total - Len(b.out)})))
        Step(b) ==
            IF Len(b.out) < total /\ b.res = 0
            THEN From(b, fat16_get_cluster_for_offset(b.s, cluster, offset + Len(b.out)))
            ELSE b
        after[i \in 0..total] ==
            IF i = 0 THEN [s |-> s, out |-> <<>>, res |-> 0] ELSE Step(after[i - 1])
    IN  after[total]

-----------------------------------------------------------------------------
(* Directories                                                             *)

IsDeleted(item) == item.filename[1] = "E5"

\* The items at a position and behind it, up to one that is zero
RawItems(at) ==
    LET n == CHOOSE k \in 0..Cardinality(DOMAIN Items) :
                /\ at + k * ItemSize \notin DOMAIN Items
                /\ \A j \in 0..(k - 1) : at + j * ItemSize \in DOMAIN Items
    IN  [i \in 1..n |-> Items[at + (i - 1) * ItemSize]]

\* The items of a directory that are in use
InUse(raw) == SelectSeq(raw, LAMBDA item : ~IsDeleted(item))

\* How many items of a directory are in use
fat16_get_total_items_for_directory(s, sector) ==
    LET Count(at, raw) ==
            [s |-> [s EXCEPT !.streams.directory =
                        diskstreamer_read(at, (Len(raw) + 1) * ItemSize).stream],
             total |-> Len(InUse(raw))]
        From(at) == Count(at, RawItems(at))
    IN  From(diskstreamer_seek(s.streams.directory, sector * SectorSize))

\* The items that the bytes at these positions are
AsItems(positions) ==
    [i \in 1..(Len(positions) \div ItemSize) |->
        LET at == positions[(i - 1) * ItemSize + 1]
        IN  IF at \in DOMAIN Items THEN Items[at] ELSE NoItem]

\* Mutant: one item too many is read.
directory_size_more(total) == (total + 1) * ItemSize

directory_size(total) == total * ItemSize

\* Mutant: without memory for its items the directory is kept.
WithoutItemsKept(s) == s

\* Without memory for its items the directory is freed.
WithoutItems(s) == kfree(s, "directory")

\* fat16_load_fat_directory of the directory whose item this is.  As many
\* items are read as are in use, deleted ones among them.  After a failure
\* the caller gets the pointer to what has just been freed.
fat16_load_fat_directory(s, item) ==
    LET Loaded(r) ==
            IF r.res < 0
            THEN [s |-> kfree(kfree(r.s, "items"), "directory"),
                  item |-> FatItem("directory", "freed")]
            ELSE [s |-> r.s, item |-> DirectoryItem(AsItems(r.out))]
        Counted(t) ==
            IF Refuses(t.s)
            THEN [s |-> WithoutItems(kzalloc(t.s, "items")),
                  item |-> FatItem("directory", "freed")]
            ELSE Loaded(fat16_read_internal(kzalloc(t.s, "items"), item.cluster, 0,
                                            directory_size(t.total)))
    IN  IF Refuses(s)
        THEN [s |-> kzalloc(s, "directory"), item |-> FatItem("directory", "null")]
        ELSE Counted(fat16_get_total_items_for_directory(kzalloc(s, "directory"),
                        fat16_cluster_to_sector(item.cluster)))

\* What fat16_clone_directory_item returns, in its struct fat_item
fat16_clone_directory_item(s, item) ==
    [s |-> kzalloc(s, "clone"),
     item |-> IF Refuses(s) THEN FatItem("file", "null") ELSE FileItem(item)]

fat16_new_fat_item_for_directory_item(s, item) ==
    CASE Refuses(s) -> [s |-> kzalloc(s, "fat_item"), item |-> NoFatItem]
      [] ~Refuses(s) /\ item.dir -> fat16_load_fat_directory(kzalloc(s, "fat_item"), item)
      [] ~Refuses(s) /\ ~item.dir -> fat16_clone_directory_item(kzalloc(s, "fat_item"), item)

\* The last item of the name is taken, and what an earlier one was given is
\* not freed.  No part of a path is empty, as the name of a zero item is.
fat16_find_item_in_directory(s, items, name) ==
    FoldLeft(LAMBDA b, item :
                IF SameName(fat16_get_full_relative_filename(item), name)
                THEN fat16_new_fat_item_for_directory_item(b.s, item) ELSE b,
             [s |-> s, item |-> NoFatItem], SelectSeq(items, LAMBDA item : item # NoItem))

\* What a struct fat_item points to, by kind
Owned(item) ==
    CASE item.ptr = "null" -> <<>>
      [] item.ptr # "null" /\ item.type = "file" -> <<"clone">>
      [] item.ptr # "null" /\ item.type = "directory" -> <<"items", "directory">>

\* fat16_fat_item_free.  It looks whether a directory is null; kfree of a null
\* clone frees nothing (Heap.tla).  A directory that was freed is used, and
\* freed once more.
fat16_fat_item_free(s, item) ==
    [FoldLeft(kfree, s, Append(Owned(item), "fat_item")) EXCEPT
        !.wild = @ \/ item.ptr = "freed"]

\* The root directory's items, as fat16_get_root_directory has read them
RootItems ==
    LET Seen(raw) == SubSeq(raw, 1, Len(InUse(raw)))
    IN  Seen(RawItems(RootDirSector * SectorSize))

\* fat16_get_directory_entry.  The search goes on with a null item when one
\* is missing and more parts follow (null).  It goes wild when it takes for a
\* directory one that is null or freed.
fat16_get_directory_entry(s, path) ==
    LET Pass(b, found) == [b EXCEPT !.s = fat16_fat_item_free(found.s, b.item),
                                    !.item = found.item]
        Step(b, name) ==
            CASE b.done -> b
              [] ~b.done /\ b.item = NoFatItem ->
                    [b EXCEPT !.done = TRUE, !.null = TRUE]
              [] ~b.done /\ b.item.type = "file" ->
                    [b EXCEPT !.done = TRUE, !.item = NoFatItem]
              [] ~b.done /\ b.item.type = "directory" /\ b.item.ptr # "live" ->
                    [b EXCEPT !.done = TRUE, !.s.wild = TRUE]
              [] OTHER ->
                    Pass(b, fat16_find_item_in_directory(b.s, b.item.items, name))
        Below(root) ==
            FoldLeft(Step,
                     [s |-> root.s, item |-> root.item, done |-> root.item = NoFatItem,
                      null |-> FALSE],
                     Tail(path))
    IN  Below(fat16_find_item_in_directory(s, RootItems, path[1]))

-----------------------------------------------------------------------------
(* Actions                                                                 *)

Init ==
    /\ state = "new"
    /\ fs = [streams |-> [cluster |-> 0, fat |-> 0, directory |-> 0],
             heap |-> [k \in Kinds |-> 0]]
    /\ descriptors = [d \in Slots |-> Closed]
    /\ stray \in Strays
    /\ wild = FALSE
    /\ answer = [call |-> "", args |-> <<>>, res |-> 0, data |-> <<>>, refused |-> FALSE]

Running == state = "resolved" /\ ~wild

\* It writes to the stream without a look at what kzalloc gave it.
diskstreamer_new(s) == kzalloc_unchecked(s, "stream")

diskstreamer_close(s) == kfree(s, "stream")

\* fat16_init_private: the private data is cleared and has three streams
fat16_init_private(s) ==
    diskstreamer_new(diskstreamer_new(diskstreamer_new(kzalloc_unchecked(s, "private"))))

\* fat16_get_root_directory: the items are counted, then read, if there is
\* memory for them
fat16_get_root_directory(s) ==
    LET Read(now) ==
            [now EXCEPT !.streams.directory =
                diskstreamer_read(diskstreamer_seek(@, RootDirSector * SectorSize),
                                  RootDirEntries * ItemSize).stream]
        Counted(now) ==
            IF Refuses(now) THEN [s |-> kzalloc(now, "items"), res |-> -ENOMEM]
            ELSE [s |-> Read(kzalloc(now, "items")), res |-> 0]
    IN  Counted(fat16_get_total_items_for_directory(s, RootDirSector).s)

\* fat16_resolve that fails: the private data is freed, its streams are not
ResolveFails(s, signature, res) ==
    /\ state' = "refused"
    /\ fs' = FsOf(kfree(diskstreamer_close(s), "private"))
    /\ AnswersAfter(s, "fat16_resolve", <<signature>>, res)
    /\ UNCHANGED <<descriptors, stray, wild>>

\* fat16_resolve that succeeds
ResolveDone(s, signature) ==
    /\ state' = "resolved"
    /\ fs' = FsOf(diskstreamer_close(s))
    /\ AnswersAfter(s, "fat16_resolve", <<signature>>, 0)
    /\ UNCHANGED <<descriptors, stray, wild>>

\* fat16_resolve that was refused the private data or a stream
ResolveWild(s, signature) ==
    /\ wild' = TRUE
    /\ AnswersAfter(s, "fat16_resolve", <<signature>>, 0)
    /\ UNCHANGED <<state, fs, descriptors, stray>>

\* fat16_resolve: the disk's signature should be 0x29
Resolve(signature, refused) ==
    /\ state = "new" /\ ~wild
    /\ \E s \in {diskstreamer_new(fat16_init_private(Call(refused)))} :
        \/ s.wild /\ ResolveWild(s, signature)
        \/ ~s.wild /\ signature # 41 /\ ResolveFails(s, signature, -EFSNOTUS)
        \/ /\ ~s.wild /\ signature = 41
           /\ \E root \in {fat16_get_root_directory(s)} :
                \/ root.res = 0 /\ ResolveDone(root.s, signature)
                \/ root.res < 0 /\ ResolveFails(root.s, signature, -EIO)

FreeSlots == {d \in Slots : descriptors[d] = Closed}

Objects == FoldFunction(LAMBDA a, b : a + b, 0, fs.heap)

\* fat16_open in another mode than for reading
OpenReadOnly(path, mode) ==
    /\ Running
    /\ mode # "r"
    /\ Answers("fat16_open", <<path>>, -ERDONLY, <<>>)
    /\ UNCHANGED <<state, fs, descriptors, stray, wild>>

\* fat16_open without memory for the descriptor
OpenNoMemory(s, path) ==
    /\ AnswersAfter(kzalloc(s, "descriptor"), "fat16_open", <<path>>, -ENOMEM)
    /\ UNCHANGED <<state, fs, descriptors, stray, wild>>

\* fat16_open of a path that is not found, or whose search comes to a null
\* item that memory at address 4 does not make a directory
OpenNotFound(path, r) ==
    /\ ~r.s.wild
    /\ r.item = NoFatItem
    /\ fs' = FsOf(kfree(r.s, "descriptor"))
    /\ AnswersAfter(r.s, "fat16_open", <<path>>, -EIO)
    /\ UNCHANGED <<state, descriptors, stray, wild>>

\* fat16_open of a path that is found
OpenFound(path, r) ==
    /\ ~r.s.wild
    /\ r.item # NoFatItem
    /\ fs' = FsOf(r.s)
    /\ descriptors' = [descriptors EXCEPT
            ![Min(FreeSlots)] = Descriptor(path, r.item, WasRefused(r.s))]
    /\ AnswersAfter(r.s, "fat16_open", <<path>>, Min(FreeSlots))
    /\ UNCHANGED <<state, stray, wild>>

\* fat16_open whose search goes wild, or takes a null item for a directory
OpenWild(path, r) ==
    /\ r.s.wild \/ r.null
    /\ wild' = TRUE
    /\ AnswersAfter(r.s, "fat16_open", <<path>>, 0)
    /\ UNCHANGED <<state, fs, descriptors, stray>>

\* fat16_open for reading: the descriptor is allocated, then comes the search
Open(path, mode, refused) ==
    /\ Running /\ mode = "r"
    /\ FreeSlots # {} /\ Objects < MaxObjects
    /\ refused # {} \/ (\E d \in Slots : descriptors[d].refused)
            => Cardinality(Slots \ FreeSlots) =< MaxBeside
    /\ \/ Refuses(Call(refused)) /\ OpenNoMemory(Call(refused), path)
       \/ /\ ~Refuses(Call(refused))
          /\ \E r \in {fat16_get_directory_entry(kzalloc(Call(refused), "descriptor"), path)} :
                OpenNotFound(path, r) \/ OpenFound(path, r) \/ OpenWild(path, r)

\* A call that uses what the item of a descriptor points to when that is
\* null or freed
GoesWild(call, d) ==
    /\ Running
    /\ wild' = TRUE
    /\ Answers(call, <<d>>, 0, <<>>)
    /\ UNCHANGED <<state, fs, descriptors, stray>>

\* Mutant: the position of the descriptor is left out.
ItemOffsetZero(pos, size, i) == i * size

\* offset: where in the file the item after i others is
ItemOffset(pos, size, i) == pos + i * size

\* fat16_read from a cluster on: the items one by one, until one fails.  The
\* position of the descriptor does not move.
ReadFrom(cluster, pos, size, nmemb) ==
    LET Took(before, r) == [s |-> r.s, out |-> before.out \o r.out, res |-> r.res]
        Step(before, i) ==
            IF before.res < 0 THEN before
            ELSE Took(before, fat16_read_internal(before.s, cluster,
                                                  ItemOffset(pos, size, i), size))
        after[i \in 0..nmemb] ==
            IF i = 0 THEN [s |-> fs, out |-> <<>>, res |-> 0] ELSE Step(after[i - 1], i - 1)
    IN  after[nmemb]

\* fat16_get_first_cluster as fat16_read calls it.  Of a directory it takes
\* the cluster from behind the struct fat_directory, where the heap holds
\* something left over.
FirstCluster(item) == IF item.type = "file" THEN {item.item.cluster} ELSE Leftovers

\* fat16_read
Read(d, size, nmemb, cluster) ==
    /\ Running
    /\ descriptors[d].item.ptr = "live"
    /\ \E r \in {ReadFrom(cluster, descriptors[d].pos, size, nmemb)} :
            /\ fs' = r.s
            /\ Answers("fat16_read", <<d, size, nmemb>>,
                       IF r.res < 0 THEN r.res ELSE nmemb, r.out)
    /\ UNCHANGED <<state, descriptors, stray, wild>>

\* fat16_read through a clone or a directory that is null or freed
ReadWild(d) ==
    /\ descriptors[d] # Closed
    /\ descriptors[d].item.ptr # "live"
    /\ GoesWild("fat16_read", d)

\* The position after fat16_seek, which checks only the offset, and its result
fat16_seek(desc, offset, whence) ==
    CASE desc.item.type # "file" ->
            [pos |-> desc.pos, res |-> -EINVARG]
      [] desc.item.type = "file" /\ offset >= desc.item.item.size ->
            [pos |-> desc.pos, res |-> -EIO]
      [] desc.item.type = "file" /\ offset < desc.item.item.size ->
            CASE whence = "SEEK_SET" -> [pos |-> offset, res |-> 0]
              [] whence = "SEEK_CUR" -> [pos |-> desc.pos + offset, res |-> 0]
              [] whence = "SEEK_END" -> [pos |-> desc.pos, res |-> -EUNIMP]
              [] OTHER -> [pos |-> desc.pos, res |-> -EINVARG]

\* A file whose clone is null
NullClone(d) == descriptors[d].item.type = "file" /\ descriptors[d].item.ptr = "null"

Seek(d, offset, whence) ==
    LET r == fat16_seek(descriptors[d], offset, whence)
    IN  /\ Running
        /\ descriptors[d] # Closed
        /\ ~NullClone(d)
        /\ r.pos =< MaxPos
        /\ descriptors' = [descriptors EXCEPT ![d].pos = r.pos]
        /\ Answers("fat16_seek", <<d>>, r.res, <<>>)
        /\ UNCHANGED <<state, fs, stray, wild>>

\* fat16_seek takes the size from a null clone
SeekWild(d) == NullClone(d) /\ GoesWild("fat16_seek", d)

\* fat16_stat: a file's size, and whether it is read only
Stat(d) ==
    LET item == descriptors[d].item
    IN  /\ Running
        /\ descriptors[d] # Closed
        /\ ~NullClone(d)
        /\ IF item.type = "file"
           THEN Answers("fat16_stat", <<d>>, 0, <<item.item.size, item.item.readonly>>)
           ELSE Answers("fat16_stat", <<d>>, -EINVARG, <<>>)
        /\ UNCHANGED <<state, fs, descriptors, stray, wild>>

\* fat16_stat takes size and attributes from a null clone
StatWild(d) == NullClone(d) /\ GoesWild("fat16_stat", d)

\* Mutant: the item is freed as that of a file, whatever it is.
fat16_free_file_descriptor_clone(s, desc) ==
    kfree(kfree(kfree(s, "clone"), "fat_item"), "descriptor")

fat16_free_file_descriptor(s, desc) ==
    kfree(fat16_fat_item_free(s, desc.item), "descriptor")

\* fat16_close
Close(d) ==
    /\ Running
    /\ descriptors[d] # Closed
    /\ \E s \in {fat16_free_file_descriptor(Call({}), descriptors[d])} :
            /\ ~s.wild
            /\ fs' = FsOf(s)
    /\ descriptors' = [descriptors EXCEPT ![d] = Closed]
    /\ Answers("fat16_close", <<d>>, 0, <<>>)
    /\ UNCHANGED <<state, stray, wild>>

\* fat16_close of a directory that was freed before
CloseWild(d) ==
    /\ descriptors[d] # Closed
    /\ fat16_free_file_descriptor(Call({}), descriptors[d]).wild
    /\ GoesWild("fat16_close", d)

Next ==
    \/ \E k \in Disks : Resolve(k[1], k[2])
    \/ \E r \in Requests : OpenReadOnly(r[1], r[2]) \/ Open(r[1], r[2], r[3])
    \/ \E d \in Slots, r \in Reads : \E cluster \in FirstCluster(descriptors[d].item) :
            Read(d, r[1], r[2], cluster)
    \/ \E d \in Slots, offset \in Offsets, whence \in Whence : Seek(d, offset, whence)
    \/ \E d \in Slots : Stat(d) \/ Close(d)
    \/ \E d \in Slots : ReadWild(d) \/ SeekWild(d) \/ StatWild(d) \/ CloseWild(d)

Spec == Init /\ [][Next]_vars

-----------------------------------------------------------------------------
(* What the disk holds, independently of the driver                        *)

PositionOf(cluster) == (EndingSector + (cluster - 2) * SectorsPerCluster) * SectorSize

\* The name of an item, without its blanks
NameOf(item) ==
    LET Trim(s) == SelectSeq(s, LAMBDA c : c # " ")
    IN  IF Trim(item.ext) = <<>> THEN Trim(item.filename)
        ELSE Trim(item.filename) \o <<".">> \o Trim(item.ext)

\* A directory by the position of its items; the root is not a cluster
RootAt == RootDirSector * SectorSize
DirectoryAt(item) == PositionOf(item.cluster)

\* The items in use of the directory at a position
Live(at) == InUse(RawItems(at))

\* The items in use that have a name, in the order of the directory
Having(at, name) == SelectSeq(Live(at), LAMBDA item : SameName(NameOf(item), name))

\* A directory without deleted items, and within its first cluster
Plain(at) ==
    /\ Live(at) = RawItems(at)
    /\ at # RootAt => Len(Live(at)) * ItemSize =< ClusterSize

\* The items that a path names
Named(path) ==
    LET named[i \in 1..Len(path)] ==
            UNION {ToSet(Having(at, path[i])) :
                    at \in IF i = 1 THEN {RootAt}
                           ELSE {DirectoryAt(e) : e \in {f \in named[i - 1] : f.dir}}}
    IN  named[Len(path)]

\* What the first n parts of a path name, and the directories they lead to
Prefix(path, n) == Named(SubSeq(path, 1, n))
DirectoriesAt(path, n) ==
    IF n = 0 THEN {RootAt} ELSE {DirectoryAt(e) : e \in {f \in Prefix(path, n) : f.dir}}

\* Every directory on the way is plain, a path that goes on goes on below a
\* directory, and no name is given twice
IsTidy(path) ==
    /\ \A n \in 0..Len(path) : \A at \in DirectoriesAt(path, n) : Plain(at)
    /\ \A n \in 1..(Len(path) - 1) : \A e \in Prefix(path, n) : e.dir
    /\ \A n \in 1..Len(path) : \A at \in DirectoriesAt(path, n - 1) :
            Len(Having(at, path[n])) =< 1

\* The items of a directory that the driver looks at: as many from its
\* beginning as are in use
Seen(at) == SubSeq(RawItems(at), 1, Len(Live(at)))

Large(at) == at # RootAt /\ Len(Live(at)) * ItemSize > ClusterSize

\* The item that the first n parts of a path lead to, the last one where a
\* name is given twice
LedTo(path) ==
    LET Choice(at, name) ==
            LET found == SelectSeq(Seen(at), LAMBDA item : SameName(NameOf(item), name))
            IN  IF found = <<>> THEN NoItem ELSE Last(found)
        led[n \in 1..Len(path)] ==
            IF n = 1 THEN Choice(RootAt, path[1])
            ELSE IF led[n - 1].dir THEN Choice(DirectoryAt(led[n - 1]), path[n]) ELSE NoItem
    IN  led

\* The path leads to a directory larger than its first cluster
IsSprawling(path) ==
    \E n \in 1..Len(path) : LedTo(path)[n].dir /\ Large(DirectoryAt(LedTo(path)[n]))

\* A directory on the way does not show a part in the middle of the path
HasGap(path) ==
    \E n \in 2..(Len(path) - 1) : LedTo(path)[n - 1].dir /\ LedTo(path)[n] = NoItem

\* The same, for every path at once
Paths     == {r[1] : r \in Requests}
NamedBy   == [path \in Paths |-> Named(path)]
Tidy      == {path \in Paths : IsTidy(path)}
Sprawling == {path \in Paths : IsSprawling(path)}
Gaps      == {path \in Paths : HasGap(path)}

\* The clusters of a file, as the FAT lists them: 0xFFF8 and above end a chain
ChainFrom(cluster) ==
    LET hops == Cardinality(DOMAIN FAT)
        Further(clusters) ==
            IF FAT[Last(clusters)] >= 65528 THEN clusters
            ELSE Append(clusters, FAT[Last(clusters)])
        chain[i \in 0..hops] ==
            IF i = 0 THEN <<cluster>>
            ELSE Further(chain[i - 1])
    IN  chain[hops]

\* The bytes of the clusters of a file
BytesOf(item) ==
    LET Bytes(chain) ==
            [i \in 1..(Len(chain) * ClusterSize) |->
                PositionOf(chain[((i - 1) \div ClusterSize) + 1]) + ((i - 1) % ClusterSize)]
    IN  Bytes(ChainFrom(item.cluster))

\* Reads that need no FAT entry and end where the file's clusters are side
\* by side on the disk
InReach(item, pos, size, nmemb) ==
    LET Run(chain) == IF Len(chain) > 1 /\ chain[2] = chain[1] + 1 THEN 2 ELSE 1
    IN  /\ size =< ClusterSize
        /\ pos + (nmemb - 1) * size < ClusterSize
        /\ pos + nmemb * size =< Run(ChainFrom(item.cluster)) * ClusterSize

\* The heap objects of a kind that the driver still has pointers to
Reachable(kind) ==
    LET Open16 == {d \in Slots : descriptors[d] # Closed}
        Files16 == {d \in Open16 : descriptors[d].item.type = "file"}
        Live16(S) == {d \in S : descriptors[d].item.ptr = "live"}
        Dirs   == Live16(Open16 \ Files16)
    IN  CASE kind \in {"descriptor", "fat_item"} -> Cardinality(Open16)
          [] kind = "clone" -> Cardinality(Live16(Files16))
          [] kind = "directory" -> Cardinality(Dirs)
          [] kind = "items" ->
                Cardinality(Dirs) + (IF state = "resolved" THEN 1 ELSE 0)
          [] kind = "private" -> IF state = "resolved" THEN 1 ELSE 0
          [] kind = "stream" -> IF state = "resolved" THEN 3 ELSE 0

\* The objects nobody can free any more
Lost == [k \in Kinds |-> fs.heap[k] - Reachable(k)]

-----------------------------------------------------------------------------

\* Type invariant: no heap object is freed more often than it was
\* allocated, and an open descriptor has a position.
TypeOK ==
    /\ state \in {"new", "resolved", "refused"}
    /\ \A k \in Kinds : fs.heap[k] \in Nat
    /\ \A st \in {"cluster", "fat", "directory"} : fs.streams[st] \in Nat
    /\ \A d \in Slots : descriptors[d].pos \in 0..MaxPos
    /\ wild \in BOOLEAN

\* fat16_open finds only what the directories list, and finds it unless the
\* heap refuses it memory or the path is not tidy: with a deleted item in a
\* directory, as many items at its end are never seen.
OpenFindsListed ==
    answer.call = "fat16_open" /\ ~wild =>
        /\ answer.res > 0 => NamedBy[answer.args[1]] # {}
        /\ answer.res \in {-EIO, -ENOMEM} /\ ~answer.refused =>
                NamedBy[answer.args[1]] = {} \/ answer.args[1] \notin Tidy

\* A read within reach returns the bytes of the file the descriptor was
\* opened for, from the descriptor's position on, whatever other calls moved
\* the shared streams in between.  Reads further into a file depend on
\* fat16_get_fat_entry and may fail or return other bytes.
ReadsTheFile ==
    answer.call = "fat16_read" /\ ~wild =>
        LET d     == descriptors[answer.args[1]]
            bytes == answer.args[2] * answer.args[3]
        IN  \A item \in NamedBy[d.path] :
                d.path \in Tidy /\ ~item.dir /\ InReach(item, d.pos, answer.args[2], answer.args[3])
                => /\ answer.res = answer.args[3]
                   /\ answer.data = SubSeq(BytesOf(item), d.pos + 1, d.pos + bytes)

\* Heap objects are lost only by opening a path that is not tidy (a name
\* given twice, a path below a file) or by a resolve that fails.  Every other
\* call frees what it does not hand out, also when the heap refuses it
\* something halfway.
LostOnlyOffTheTidyPath ==
    [][Lost' # Lost =>
            \/ answer'.call = "fat16_open" /\ answer'.args[1] \notin Tidy
            \/ answer'.call = "fat16_resolve" /\ answer'.res < 0]_vars

\* The driver takes a freed or a null pointer for an object only after the
\* heap has refused a request of the same call, or of the call that opened
\* the descriptor; on a path to a directory larger than its first cluster; or
\* on a path on which a directory does not show a part in the middle.  With
\* memory enough, deleted items at the end of a path, names given twice and
\* paths below a file are harmless.
WildNeedsTrouble ==
    wild =>
        \/ answer.refused
        \/ /\ answer.call = "fat16_open"
           /\ answer.args[1] \in Sprawling \cup Gaps
        \/ /\ answer.call \in {"fat16_read", "fat16_seek", "fat16_stat", "fat16_close"}
           /\ LET d == descriptors[answer.args[1]]
              IN  d.refused \/ d.path \in Sprawling
=============================================================================
