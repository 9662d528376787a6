------------------------------ MODULE MCFat16 ------------------------------
(***************************************************************************)
(* A small disk for Fat16.tla: sectors of two bytes, clusters of four, two *)
(* directory items to a cluster, names of two characters and an extension  *)
(* of one.  The FAT is at 16, the root directory at 54, cluster 2 at 70.   *)
(***************************************************************************)
EXTENDS Fat16

File(filename, ext, cluster, size) ==
    [NoItem EXCEPT !.filename = filename, !.ext = ext, !.cluster = cluster, !.size = size]

Dir(filename, cluster) == [File(filename, <<" ">>, cluster, 0) EXCEPT !.dir = TRUE]

Blank == <<" ">>

\* "a" lies in the clusters 2 and 3, "g/d/ab.e" in 4.  The directory "d" has a
\* deleted item, "e" goes on from cluster 17 to 18, "f" has an empty file twice and
\* "g" fills its cluster.
MCItems ==
    54 :> [File(<<"A", " ">>, Blank, 2, 7) EXCEPT !.readonly = TRUE]
    @@ 56 :> File(<<"A", "B">>, <<"E">>, 8, 8)
    @@ 58 :> Dir(<<"D", " ">>, 5)
    @@ 60 :> Dir(<<"E", " ">>, 17)
    @@ 62 :> Dir(<<"F", " ">>, 11)
    @@ 64 :> Dir(<<"G", " ">>, 13)
    @@ 82 :> File(<<"E5", " ">>, Blank, 8, 8)
    @@ 84 :> File(<<"B", " ">>, Blank, 8, 8)
    @@ 106 :> File(<<"B", " ">>, Blank, 0, 0)
    @@ 108 :> File(<<"B", " ">>, Blank, 0, 0)
    @@ 114 :> File(<<"B", " ">>, Blank, 8, 3)
    @@ 116 :> Dir(<<"D", " ">>, 15)
    @@ 122 :> File(<<"A", "B">>, <<"E">>, 4, 1)
    @@ 130 :> File(<<"A", " ">>, Blank, 8, 8)
    @@ 132 :> File(<<"B", " ">>, Blank, 8, 8)
    @@ 134 :> File(<<"D", " ">>, Blank, 8, 8)

MCFat == 2 :> 3 @@ 8 :> 9 @@ 17 :> 18
         @@ [c \in {3, 4, 5, 9, 11, 13, 15, 18} |-> 65535]

\* Of the six requests of fat16_resolve the heap refuses none or one.
MCDisks == {<<0, {}>>} \cup {<<41, {}>>} \cup {<<41, {i}>> : i \in 1..6}

\* With memory for everything: a file, in two modes; a file in a directory
\* with a deleted item; a directory, one of two clusters, and a file in it; a
\* name given twice; a file two levels down, in other letters; names that are
\* missing or not shown, at the end and on the way; a path below a file.
\* The heap refuses any one request for a file, for a directory and for a
\* file two levels down, and any or both of the matches of a name given
\* twice, the only case in which a call asks on after a refusal.
MCRequests ==
    LET a == <<"a">> b == <<"b">> d == <<"d">> e == <<"e">> f == <<"f">> g == <<"G">>
        abe == <<"a", "B", ".", "e">>
        Refused(path, sets) == {<<path, "r", refused>> : refused \in sets}
        Single(numbers) == {{i} : i \in numbers}
    IN  {<< <<a>>, "w", {}>>}
        \cup {<<p, "r", {}>> : p \in {
                <<a>>, <<d, b>>, <<g>>, <<e>>, <<e, a>>, <<f, b>>, <<g, d, abe>>,
                <<b>>, <<g, a, b>>, <<d, b, a>>, <<a, b>>}}
        \cup Refused(<<a>>, Single(1..3))
        \cup Refused(<<g>>, Single(3..4))
        \cup Refused(<<g, d, abe>>, Single(2..9))
        \cup Refused(<<f, b>>, {{5}, {6}, {5, 6}, {7}, {8}, {6, 8}})

\* Two items of two bytes: from position 0 they end with the cluster, from 1
\* the second goes on into the next cluster, from 2 it needs the FAT
MCReads == {<<2, 2>>}
=============================================================================
