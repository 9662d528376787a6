------------------------------ MODULE MCFiles ------------------------------
(***************************************************************************)
(* Small disk images for Files.tla: clusters of four bytes, two sectors to *)
(* a cluster, two items to a directory cluster, names of two characters    *)
(* and an extension of one.                                                *)
(***************************************************************************)
EXTENDS Files

Item(name, isdir, cluster, size) ==
    [name |-> name, dir |-> isdir, cluster |-> cluster, size |-> size]

\* Root: clusters 2 and 3.  "a" takes six bytes in the clusters 6 and 5,
\* "ab.e" is empty, "d" is a directory, whose "b" fills cluster 7.
MCFat == 0 :> EndMark @@ 2 :> 3 @@ 3 :> EndMark @@ 4 :> EndMark
         @@ 5 :> EndMark @@ 6 :> 5 @@ 7 :> EndMark

MCDirectory ==
    2 :> <<Item(<<"A", " ", " ">>, FALSE, 6, 6), Item(<<"A", "B", "E">>, FALSE, 0, 0)>>
    @@ 3 :> <<Item(<<"D", " ", " ">>, TRUE, 4, 0)>>
    @@ 4 :> <<Item(<<"B", " ", " ">>, FALSE, 7, 4)>>

\* Files that exist, one with a slash at the end and one with a part behind
\* two slashes; a missing one, one below a file, the drive alone, a drive
\* that is not there, no drive, a name longer than MaxPath, another mode
MCRequests ==
    {<<f, "r">> : f \in {<<"0", ":", "/", "a">>,
                        <<"0", ":", "/", "a", "b", ".", "e", "/", "/", "b">>,
                        <<"0", ":", "/", "d", "/", "b", "/">>,
                        <<"0", ":", "/", "b">>,
                        <<"0", ":", "/", "a", "/", "b">>,
                        <<"0", ":", "/", "/", "a">>,
                        <<"1", ":", "/", "a">>,
                        <<"a", ":", "/", "a">>,
                        <<"0", ":", "/", "d", "/", "b", "/", "/", "/", "/", "/">>}}
    \cup {<< <<"0", ":", "/", "a">>, "w">>}

\* The same disk with the second cluster of "a" moved to 256
MCFatLarge == 0 :> EndMark @@ 2 :> 3 @@ 3 :> EndMark @@ 4 :> EndMark
              @@ 6 :> 256 @@ 7 :> EndMark @@ 256 :> EndMark
=============================================================================
