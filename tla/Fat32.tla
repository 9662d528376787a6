------------------------------- MODULE Fat32 -------------------------------
(***************************************************************************)
(* The FAT32 driver (fs/fat/fat32.c) over the disk stream                  *)
(* of Streamer.tla, as operators on the disk and on a file handle.         *)
(*                                                                         *)
(* A directory cluster is given by its items, and a file name by its       *)
(* characters.                                                             *)
(***************************************************************************)
EXTENDS Streamer, SequencesExt

CONSTANTS
    ClusterSize,    \* fat_private->cluster_size_bytes
    FatStart,       \* the position of the FAT
    DataStart,      \* the position of cluster 2
    FAT,            \* the FAT's entries that are in use
    Directory,      \* the items of each directory cluster
    ItemsPerCluster,\* cluster_size_bytes / sizeof(struct fat_directory_item)
    RootCluster,    \* BPB_RootClus
    BaseLength,     \* 8, the characters of a name before the dot
    NameLength,     \* 11, the characters of a name
    MaxHops         \* bound: the clusters of the longest directory

\* The FAT entry that get_next_cluster_id takes for the end of a chain
EndMark == 268435448

\* The zeroed item that get_path_directory_item leaves if it finds nothing
NoItem == [name |-> <<>>, dir |-> FALSE, cluster |-> 0, size |-> 0]

\* Chains end with EndMark.  The FAT allows the seven values above it too, which
\* get_next_cluster_id takes for clusters 249 to 255; no such disk is modelled.
ASSUME Fat32Assumption ==
    /\ ClusterSize \in Nat \ {0}
    /\ \A c \in DOMAIN FAT : c \in Nat /\ FAT[c] \in 0..EndMark
    /\ \A c \in DOMAIN Directory : Len(Directory[c]) =< ItemsPerCluster

-----------------------------------------------------------------------------
(* Clusters                                                                *)

get_cluster_data_disk_pos(cluster) == DataStart + (cluster - 2) * ClusterSize

\* The FAT's entry; an entry not in use is zero
get_cluster_value(cluster) == IF cluster \in DOMAIN FAT THEN FAT[cluster] ELSE 0

\* The stream after get_cluster_value has read four bytes of the FAT
AfterFat(stream, cluster) ==
    diskstreamer_read(diskstreamer_seek(stream, FatStart + 4 * cluster), 4).stream

\* Mutant: the end mark is not recognised.
get_next_cluster_id_no_end(cluster) == get_cluster_value(cluster) % 256

\* get_next_cluster_id returns a uint8_t
get_next_cluster_id(cluster) ==
    LET value == get_cluster_value(cluster)
    IN  IF value = EndMark THEN 0 ELSE value % 256

-----------------------------------------------------------------------------
(* Directories                                                             *)

Uppercase == [a |-> "A", b |-> "B", d |-> "D", e |-> "E"]

toupper(c) == IF c \in DOMAIN Uppercase THEN Uppercase[c] ELSE c

\* One character of the loop of transform_filename_to_fat; s.at is dest_pos
NameStep(s, c) ==
    CASE s.at > NameLength -> s
      [] s.at =< NameLength /\ c = "." ->
            IF s.dot THEN s ELSE [s EXCEPT !.dot = TRUE, !.at = BaseLength + 1]
      [] OTHER -> [s EXCEPT !.name[s.at] = toupper(c), !.at = @ + 1]

transform_filename_to_fat(src) ==
    FoldLeft(NameStep,
             [name |-> [i \in 1..NameLength |-> " "], at |-> 1, dot |-> FALSE],
             src).name

\* The items of a cluster up to the zero that ends a directory
ItemsIn(cluster) == IF cluster \in DOMAIN Directory THEN Directory[cluster] ELSE <<>>

\* No zero before the cluster's end: the directory goes on in the next one
MoreItems(cluster) == Len(ItemsIn(cluster)) = ItemsPerCluster

\* One cluster of the search for an item in a directory
SearchStep(s, name) ==
    LET hit  == SelectInSeq(ItemsIn(s.cluster), LAMBDA item : item.name = name)
        read == diskstreamer_read(
                    diskstreamer_seek(s.stream, get_cluster_data_disk_pos(s.cluster)),
                    ClusterSize).stream
        next == get_next_cluster_id(s.cluster)
    IN  CASE s.done ->
               s
          [] ~s.done /\ hit # 0 ->
               [s EXCEPT !.item = ItemsIn(s.cluster)[hit], !.done = TRUE, !.stream = read]
          [] ~s.done /\ hit = 0 /\ ~MoreItems(s.cluster) ->
               [s EXCEPT !.done = TRUE, !.stream = read]
          [] OTHER ->
               [s EXCEPT !.cluster = next, !.done = next = 0,
                         !.stream = AfterFat(read, s.cluster)]

\* The search of one directory
Search(cluster, name, stream) ==
    LET after[i \in 0..MaxHops] ==
            IF i = 0
            THEN [cluster |-> cluster, item |-> NoItem, done |-> FALSE, stream |-> stream]
            ELSE SearchStep(after[i - 1], name)
    IN  after[MaxHops]

\* The item that get_path_directory_item finds for a path, and the stream
\* afterwards.  A part that is not a directory ends the search.
get_path_directory_item(path, stream) ==
    LET after[i \in 0..Len(path)] ==
            IF i = 0
            THEN [item |-> [NoItem EXCEPT !.dir = TRUE, !.cluster = RootCluster],
                  stream |-> stream]
            ELSE LET before == after[i - 1]
                     s == Search(before.item.cluster,
                                 transform_filename_to_fat(path[i]), before.stream)
                 IN  IF before.item.dir
                     THEN [item |-> s.item, stream |-> s.stream]
                     ELSE [before EXCEPT !.item = NoItem]
    IN  after[Len(path)]

-----------------------------------------------------------------------------
(* File handles                                                            *)

\* fat32_open: the handle of the file that a directory item names
Handle(item) ==
    [starting_cluster |-> item.cluster, file_size |-> item.size, file_pos |-> 0,
     current_cluster |-> item.cluster, position_in_cluster |-> 0]

\* Mutant: the position within the cluster is not reset.
NextClusterKeepPosition(h) ==
    IF h.position_in_cluster < ClusterSize THEN h
    ELSE [h EXCEPT !.current_cluster = get_next_cluster_id(h.current_cluster)]

\* At the end of a cluster the handle moves on to the next one
NextCluster(h) ==
    IF h.position_in_cluster < ClusterSize THEN h
    ELSE [h EXCEPT !.position_in_cluster = 0,
                   !.current_cluster = get_next_cluster_id(h.current_cluster)]

\* The stream after NextCluster
AfterNext(stream, h) ==
    IF h.position_in_cluster < ClusterSize THEN stream
    ELSE AfterFat(stream, h.current_cluster)

\* One pass through the loop of fat32_read_internal; s.res is -1 until it
\* returns
ReadStep(s) ==
    LET h     == s.h
        count == Min({ClusterSize - h.position_in_cluster, h.file_size - h.file_pos, s.left})
        read  == diskstreamer_read(
                    diskstreamer_seek(s.stream,
                        get_cluster_data_disk_pos(h.current_cluster) + h.position_in_cluster),
                    count)
        moved == [h EXCEPT !.file_pos = @ + count, !.position_in_cluster = @ + count]
        next  == NextCluster(moved)
    IN  [h      |-> next,
         stream |-> AfterNext(read.stream, moved),
         out    |-> s.out \o read.data,
         left   |-> s.left - count,
         res    |-> CASE s.left = count -> 1
                      [] s.left # count /\ next.file_pos = next.file_size -> 0
                      [] s.left # count /\ next.current_cluster = 0 -> 0
                      [] OTHER -> -1]

\* fat32_read_internal, which appends to s.out; every pass but the last
\* reads at least a byte
fat32_read_internal(s, size) ==
    LET after[i \in 0..size] ==
            IF i = 0
            THEN [s EXCEPT !.left = size, !.res = -1]
            ELSE LET before == after[i - 1]
                 IN  IF before.res = -1 THEN ReadStep(before) ELSE before
    IN  after[size]

\* fat32_read: items of the given size until one is incomplete
fat32_read(h, stream, size, nmemb) ==
    LET after[i \in 0..nmemb] ==
            IF i = 0
            THEN [s |-> [h |-> h, stream |-> stream, out |-> <<>>, left |-> 0, res |-> 1],
                  items |-> 0]
            ELSE LET before == after[i - 1]
                     s == fat32_read_internal(before.s, size)
                 IN  IF before.s.res = 0 THEN before
                     ELSE [s |-> s, items |-> before.items + s.res]
    IN  after[nmemb]

\* The loop of fat32_seek; s.h.file_pos stays as it is
SeekStep(s) ==
    LET count == Min({s.left, ClusterSize - s.h.position_in_cluster})
        moved == [s.h EXCEPT !.position_in_cluster = @ + count]
    IN  IF s.left = 0 THEN s
        ELSE [h |-> NextCluster(moved), stream |-> AfterNext(s.stream, moved),
              left |-> s.left - count]

Walk(h, stream, offset) ==
    LET after[i \in 0..offset] ==
            IF i = 0 THEN [h |-> h, stream |-> stream, left |-> offset]
                     ELSE SeekStep(after[i - 1])
    IN  after[offset]

\* The guard of fat32_seek
SeekRefused(h, offset) == h.file_size > h.file_pos + offset

\* The handle from which fat32_seek counts
SeekFrom(h, mode) ==
    IF mode = "SEEK_SET"
    THEN [h EXCEPT !.current_cluster = h.starting_cluster,
                   !.position_in_cluster = 0, !.file_pos = 0]
    ELSE h

fat32_seek(h, stream, offset, mode) ==
    LET from == SeekFrom(h, mode)
        s    == Walk(from, stream, offset)
    IN  CASE mode = "SEEK_END" ->
               [h |-> h, stream |-> stream, res |-> -EUNIMP]
          [] mode # "SEEK_END" /\ SeekRefused(from, offset) ->
               [h |-> h, stream |-> stream, res |-> -EINVARG]
          [] OTHER ->
               [h |-> s.h, stream |-> s.stream, res |-> 0]
=============================================================================
