--------------------------- MODULE MCFileBrowser ---------------------------
(* Small instances of FileBrowser for TLC: a start directory t with a file a *)
(* and a directory d that has an a of its own.                               *)
EXTENDS FileBrowser

Top == <<"t">>
Tree ==
    (<<>> :> "dir") @@ (Top :> "dir") @@ (<<"t", "a">> :> "file")
    @@ (<<"t", "d">> :> "dir") @@ (<<"t", "d", "a">> :> "file")

OneTree == {Tree}

\* The user types a directory, or one that is not there, and may start with a
\* favourite; one request, which may stop half-way.
Windows ==
    [favourites : {Empty, ("a" :> <<"t", "d", "a">>)}, texts : {{<<"t", "d">>, <<"x">>}},
     maxRequests : {1}, halves : {TRUE}]
Whole == {[s EXCEPT !.halves = FALSE] : s \in Windows}

\* Two requests whose refreshes overlap.
Refreshes == [favourites : {Empty}, texts : {{}}, maxRequests : {2}, halves : {FALSE}]

AllSessions == Windows \cup Refreshes

SomeNames == {"b"}
AllNames == {"t", "a", "d", "b", "x", "New Folder0"}
AllOps == 2..8

=============================================================================
