---------------------------- MODULE MCBackendOps ----------------------------
(* Small instances of BackendOps for TLC.                                    *)
EXTENDS BackendOps, TLC

File(d) == FileNode(d, {"x"})
Dir == DirNode({"x"})

Root == (<<>> :> Dir)

\* home holds a directory with a file, an empty directory below it and a lone
\* file; usb is a second device; tmp/link is where favourites live.
Home ==
    (<<"home">> :> Dir) @@ (<<"home", "d">> :> Dir)
    @@ (<<"home", "d", "f">> :> File("1")) @@ (<<"home", "d", "h">> :> File("7")) @@ (<<"home", "d", "e">> :> Dir)
    @@ (<<"home", "g">> :> File("2"))
Usb == (<<"usb">> :> Dir)
Tmp == (<<"tmp">> :> Dir)
Plain == Root @@ Home @@ Usb @@ Tmp

\* The destination has entries of the same names already.
Taken == Plain @@ (<<"usb", "d">> :> Dir) @@ (<<"usb", "d", "f">> :> FileNode("3", {}))
         @@ (<<"usb", "g">> :> FileNode("4", {}))

\* A directory of the same name on the same device, with an entry in it.
Merged == Plain @@ (<<"tmp", "d">> :> Dir) @@ (<<"tmp", "d", "k">> :> File("8"))

\* Links to a file, to a directory and to nothing, one of them inside d.
Linked == Plain @@ (<<"tmp", "link">> :> Dir)
          @@ (<<"tmp", "link", "g">> :> LinkNode(<<"home", "g">>))
          @@ (<<"tmp", "link", "d">> :> LinkNode(<<"home", "d">>))
          @@ (<<"home", "d", "l">> :> LinkNode(<<"tmp">>))
          @@ (<<"home", "d", "z">> :> LinkNode(<<"home", "none">>))

\* In the place of favourites, a file and a directory.
Occupied == Plain @@ (<<"tmp", "link">> :> Dir) @@ (<<"tmp", "link", "d">> :> Dir)
            @@ (<<"tmp", "link", "g">> :> File("6"))

\* Folders whose numbers are in use.
Folders(ks) == [p \in {<<"home", Numbered[k]>> : k \in ks} |-> Dir]

AllNames == {"home", "d", "e", "f", "g", "h", "k", "l", "z", "none", "usb", "tmp", "link", "n"}
            \cup {Numbered[i] : i \in 1..10}
UsbMount == {"usb"}
NoFaults == {}
AllFaults == {"deny", "write", "nodir", "read", "mode"}

Of(type, src, dest) == [type |-> type, src |-> src, dest |-> dest, mode |-> {}]
Into(dir, src) == Append(dir, Last(src))

Sources == {<<"home", "d">>, <<"home", "g">>, <<"home", "d", "f">>, <<"home", "d", "e">>, <<"home", "none">>}
Places == {<<"usb">>, <<"tmp">>, <<"none">>, <<"home">>, <<"home", "d">>, <<"usb", "d">>}

\* A move does not put a directory inside itself, and a copy is not made onto
\* its source.
NotInside == {sd \in Sources \X Places : ~IsPrefix(sd[1], sd[2])}
Elsewhere == {sd \in NotInside : Front(sd[1]) # sd[2]}

MoveTrees == {Plain, Taken, Merged}
Moves == {Of(Move, sd[1], Into(sd[2], sd[1])) : sd \in NotInside}
Copies == {Of(Copy, sd[1], Into(sd[2], sd[1])) : sd \in Elsewhere}

\* A copy reads through links; into tmp, it finds the entries it makes.
Leading ==
    Root @@ Usb @@ Tmp @@ (<<"home">> :> Dir) @@ (<<"home", "d">> :> Dir)
    @@ (<<"home", "d", "f">> :> File("1")) @@ (<<"home", "d", "l">> :> LinkNode(<<"tmp">>))
    @@ (<<"home", "g">> :> File("2")) @@ (<<"tmp", "k">> :> LinkNode(<<"home", "g">>))

CopyTrees == {Plain, Taken, Leading}

\* A copy of a directory into itself finds the entries it makes, too.
Small ==
    Root @@ (<<"home">> :> Dir) @@ (<<"home", "d">> :> Dir)
    @@ (<<"home", "d", "f">> :> File("1")) @@ (<<"home", "d", "e">> :> Dir)
CopyInside == {<<Small, Of(Copy, <<"home", "d">>, <<"home", "d", "d">>)>>}

SingleTrees == {Plain, Linked, Occupied, Plain @@ Folders(1..9), Plain @@ Folders({1, 2, 4}), Plain @@ Folders(1..10)}
Entries == Sources \cup {<<"tmp", "link", "g">>, <<"tmp", "link", "d">>, <<"home", "d", "z">>}
Singles ==
    {Of(Delete, s, <<>>) : s \in Entries}
    \cup {Of(Mkdir, <<d, "n">>, <<>>) : d \in {"home", "none"}}
    \cup {Of(Rename, s, Append(Front(s), n)) : s \in Entries, n \in {"g", "h"}}
    \cup {[Of(Chmod, s, <<>>) EXCEPT !.mode = {"x", "w"}] : s \in Sources}
    \cup {Of(Symlink, s, Into(<<"tmp", "link">>, s)) : s \in Sources}

AllCommands ==
    (MoveTrees \X Moves) \cup (CopyTrees \X Copies) \cup CopyInside \cup (SingleTrees \X Singles)

\* A move of a directory into itself.
Inside == {<<Plain, Of(Move, <<"home", "d">>, <<"home", "d", "d">>)>>}

=============================================================================
