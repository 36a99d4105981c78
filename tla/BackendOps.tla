----------------------------- MODULE BackendOps -----------------------------
(* What one command of dir_manage_gtk/backend.c does to the files: the       *)
(* branch of main for its message type and the functions it calls, one       *)
(* system call (or one run of calls nobody can tell apart) per step.  A      *)
(* command starts on any of the given trees and runs to its reply.  The      *)
(* recursion of move_directory and copy_file is an explicit stack of frames. *)
(*                                                                           *)
(* A path is a sequence of names.  Its string is at most PATH_MAX bytes      *)
(* long; here, PathMax names.                                                *)
EXTENDS Naturals, Sequences, SequencesExt, Maps, Trees

CONSTANTS
    Names,          \* names of files and directories
    Cases,          \* pairs: a file system, and a command that may find it,
                    \* a record [type, src, dest, mode]
    Mounts,         \* top-level names on a device of their own
    PathMax,        \* bound: names in a path
    Faults          \* what may go wrong in this instance

\* deny   a call fails and the code sees it
\* write  the disk is full: fwrite is short
\* nodir  the mkdir of a copied directory fails, which nobody looks at
\* read   fread, fclose or readdir fails, which the code takes for the end
\* mode   the chmod of a copied file fails, which nobody looks at
\* cut    see Joined
ASSUME FaultsAssumption ==
    Faults \subseteq {"deny", "write", "nodir", "read", "mode", "cut"}
ASSUME PathMaxAssumption == PathMax \in Nat

Delete == 2
Mkdir == 3
Rename == 4
Move == 5
Copy == 6
Chmod == 7
Symlink == 8

\* A file has data, a link has a target (not a link itself); the mode is a set
\* of permissions, of which "w" (write for the others) is in the umask.
FileNode(d, m) == [kind |-> "file", data |-> d, mode |-> m, to |-> <<>>]
DirNode(m) == [kind |-> "dir", data |-> "", mode |-> m, to |-> <<>>]
LinkNode(t) == [kind |-> "link", data |-> "", mode |-> {}, to |-> t]
Umask == {"w"}
NewFileMode == {}       \* fopen: 0666 without the umask

Path == Seq(Names)
Modes == SUBSET {"w", "x"}

IsNode(n) ==
    /\ n = [kind |-> n.kind, data |-> n.data, mode |-> n.mode, to |-> n.to]
    /\ n.kind \in {"file", "dir", "link"}
    /\ n.mode \in Modes
    /\ n.to \in Path
    /\ n.kind # "link" => n.to = <<>>

\* Every entry is in a directory.
IsTree(t) ==
    /\ <<>> \in DOMAIN t /\ t[<<>>].kind = "dir"
    /\ \A p \in DOMAIN t :
          /\ p \in Path /\ IsNode(t[p])
          /\ p # <<>> => Front(p) \in DOMAIN t /\ t[Front(p)].kind = "dir"

\* mkdir's numbered names, "New Folder0" to "New Folder9".
Numbered == <<"n0", "n1", "n2", "n3", "n4", "n5", "n6", "n7", "n8", "n9">>

ASSUME CasesAssumption ==
    /\ \A k \in DOMAIN Numbered : Numbered[k] \in Names
    /\ \A c \in Cases :
          /\ c = <<c[1], c[2]>> /\ IsTree(c[1])
          /\ c[2].type \in Delete..Symlink
          /\ c[2].src \in Path \ {<<>>} /\ c[2].dest \in Path /\ c[2].mode \in Modes
          /\ c[2].dest = <<>> => c[2].type \in {Delete, Mkdir, Chmod}

VARIABLES
    fs,             \* the file system: from paths to nodes
    cmd,            \* the command
    stack,          \* active calls, the innermost first
    ret,            \* what the last call returned: "none", "ok" or "err"
    outcome,        \* "none", or how it ended: "success", "failed", "silent"
    try,            \* the loop of mkdir: the last digit of file, and count
    before,         \* ghost: fs when the command was received
    unseen          \* ghost: the calls that failed unseen, and for which source

vars == <<fs, cmd, stack, ret, outcome, try, before, unseen>>

-----------------------------------------------------------------------------
(* The file system, as the calls of the backend see it (external) *)

\* What a link leads to.
Followed(q) == IF q \in DOMAIN fs /\ fs[q].kind = "link" THEN fs[q].to ELSE q

\* The directory entry a path leads to: links on the way are followed, the
\* last name is not.
Place(p) ==
    LET walk[i \in 0..Len(p)] ==
            IF i = 0 THEN <<>> ELSE Append(Followed(walk[i - 1]), p[i])
    IN walk[Len(p)]

\* The node a path names once a final link is followed too.
Target(p) == Followed(Place(p))

Found(p) == Len(p) <= PathMax /\ Target(p) \in DOMAIN fs
IsDir(p) == Found(p) /\ fs[Target(p)].kind = "dir"
Children(q) == {Last(r) : r \in {t \in DOMAIN fs : t # <<>> /\ Front(t) = q}}
Device(q) == IF q # <<>> /\ q[1] \in Mounts THEN q[1] ELSE "root"

\* A new entry may be made at p.
Creatable(p) ==
    /\ p # <<>> /\ Len(p) <= PathMax
    /\ IsDir(Front(p))
    /\ Place(p) \notin DOMAIN fs

With(q, node) == Put(fs, q, node)
Without(S) == [q \in DOMAIN fs \ S |-> fs[q]]

\* mkdir(2); when it cannot, nothing changes.
Made(p, mode) ==
    IF Creatable(p) THEN With(Place(p), DirNode(mode \ Umask)) ELSE fs

\* rename(2) of the entry a to the entry b.
Renamable(from, to) ==
    LET a == Place(from)  b == Place(to) IN
    /\ from # <<>> /\ to # <<>> /\ Len(from) <= PathMax /\ Len(to) <= PathMax
    /\ a \in DOMAIN fs
    /\ IsDir(Front(to))
    /\ Device(a) = Device(b)
    /\ \/ a = b
       \/ ~IsPrefix(a, b) /\ b \notin DOMAIN fs
       \/ /\ ~IsPrefix(a, b) /\ b \in DOMAIN fs
          /\ fs[a].kind = "dir" <=> fs[b].kind = "dir"
          /\ Children(b) = {}

Renamed(from, to) == Moved(fs, Place(from), Place(to))

\* rename fails; an entry that is renamed to itself succeeds whatever its
\* permissions are.
NotRenamed(from, to) ==
    ~Renamable(from, to) \/ ("deny" \in Faults /\ Place(from) # Place(to))

\* fopen(p, "wb") may succeed: it follows a final link.
Writable(p) ==
    /\ p # <<>> /\ Len(p) <= PathMax /\ IsDir(Front(p))
    /\ Target(p) # <<>> /\ IsDir(Front(Target(p)))
    /\ Target(p) \in DOMAIN fs => fs[Target(p)].kind = "file"

\* The file at p has the data d; a new file has the mode fopen gives it.
Filled(p, d) ==
    LET q == Target(p) IN
    With(q, FileNode(d, IF q \in DOMAIN fs THEN fs[q].mode ELSE NewFileMode))

-----------------------------------------------------------------------------
(* Calls and returns *)

Frame(fn, src, dest) ==
    [fn |-> fn, src |-> src, dest |-> dest, at |-> "enter", left |-> {}, mode |-> {}]

Frames ==
    [fn : {"move", "copy", "remove"}, src : Path, dest : Path,
     at : {"enter", "loop", "file", "open", "full", "tree"}, left : SUBSET Names, mode : Modes]

Top == Head(stack)

\* The innermost call fn runs, is at the given point, and no result is pending.
Running(fn, at) ==
    /\ outcome = "none" /\ ret = "none" /\ stack # <<>>
    /\ Top.fn \in fn /\ Top.at = at

Goes(at) == stack' = <<[Top EXCEPT !.at = at]>> \o Tail(stack)
Returns(v) == stack' = Tail(stack) /\ ret' = v

Command(type) == outcome = "none" /\ stack = <<>> /\ ret = "none" /\ cmd.type = type

Ends(o) == outcome' = o /\ UNCHANGED <<cmd, stack, ret, try, before, unseen>>
Calls(fn) ==
    /\ stack' = <<Frame(fn, cmd.src, cmd.dest)>>
    /\ UNCHANGED <<fs, cmd, ret, outcome, try, before, unseen>>

\* A call fails on behalf of the innermost function, and it does not notice.
Unseen(call) == unseen' = unseen \cup {[call |-> call, at |-> Top.src]}

\* What the branch of main says when its operation has failed.
Failure == IF cmd.type \in {Delete, Mkdir, Rename} THEN "silent" ELSE "failed"

Init ==
    /\ \E c \in Cases : fs = c[1] /\ cmd = c[2]
    /\ stack = <<>> /\ ret = "none" /\ outcome = "none"
    /\ try = [digit |-> 0, count |-> 0]
    /\ before = fs /\ unseen = {}

\* An outermost call is back in main.
Finish ==
    /\ outcome = "none" /\ stack = <<>> /\ ret # "none"
    /\ outcome' = IF ret = "ok" THEN "success" ELSE Failure
    /\ UNCHANGED <<fs, cmd, stack, ret, try, before, unseen>>

\* An inner call is back in a loop of move_directory or copy_file: go on, or
\* give up at the first failure.
Resume ==
    /\ outcome = "none" /\ stack # <<>> /\ ret # "none"
    /\ IF ret = "ok" THEN ret' = "none" /\ UNCHANGED stack ELSE Returns("err")
    /\ UNCHANGED <<fs, cmd, outcome, try, before, unseen>>

\* A call of the innermost function fails for a reason of its own.
Denied ==
    /\ "deny" \in Faults
    /\ \/ Running({"move", "copy", "remove"}, "enter")
       \/ Running({"move", "copy"}, "file")
       \/ Running({"move"}, "full")
       \/ Running({"remove"}, "tree")
    /\ Returns("err")
    /\ UNCHANGED <<fs, cmd, outcome, try, before, unseen>>

-----------------------------------------------------------------------------
(* remove_file_or_directory: of the command delete, and of move_directory *)

StartDelete == Command(Delete) /\ Calls("remove")

\* stat follows a link, unlink and rmdir do not.
RemoveEntry ==
    LET q == Place(Top.src) IN
    /\ Running({"remove"}, "enter")
    /\ \/ ~Found(Top.src) /\ Returns("err") /\ UNCHANGED fs
       \/ Found(Top.src) /\ ~IsDir(Top.src) /\ fs' = Without({q}) /\ Returns("ok")
       \/ /\ IsDir(Top.src) /\ fs[q].kind = "dir" /\ Children(q) = {}
          /\ fs' = Without({q}) /\ Returns("ok")
       \/ /\ IsDir(Top.src) /\ ~(fs[q].kind = "dir" /\ Children(q) = {})
          /\ Goes("tree") /\ UNCHANGED <<fs, ret>>
    /\ UNCHANGED <<cmd, outcome, try, before, unseen>>

\* Mutant: nftw without FTW_DEPTH, a directory goes before its entries.
RemoveTreeTopDown ==
    LET q == Place(Top.src) IN
    /\ Running({"remove"}, "tree")
    /\ \E r \in Below(fs, q) :
          /\ fs' = Without({r})
          /\ IF r = q THEN Returns("ok") ELSE UNCHANGED <<stack, ret>>
    /\ UNCHANGED <<cmd, outcome, try, before, unseen>>

\* Mutant: nftw without FTW_PHYS follows a link.
RemoveTreeFollowing ==
    LET q == Target(Top.src) IN
    /\ Running({"remove"}, "tree")
    /\ \E r \in Below(fs, q) :
          /\ Children(r) = {}
          /\ fs' = Without({r})
          /\ IF r = q THEN Returns("ok") ELSE UNCHANGED <<stack, ret>>
    /\ UNCHANGED <<cmd, outcome, try, before, unseen>>

\* nftw with FTW_DEPTH and FTW_PHYS: an entry is removed when nothing is left
\* below it, links are removed and never followed, the path itself comes last.
RemoveTree ==
    LET q == Place(Top.src) IN
    /\ Running({"remove"}, "tree")
    /\ \E r \in Below(fs, q) :
          /\ Children(r) = {}
          /\ fs' = Without({r})
          /\ IF r = q THEN Returns("ok") ELSE UNCHANGED <<stack, ret>>
    /\ UNCHANGED <<cmd, outcome, try, before, unseen>>

-----------------------------------------------------------------------------
(* move_directory and copy_file *)

\* main: the directory of the destination must exist; a move is a rename
\* whenever rename can do it.
StartMove ==
    /\ Command(Move)
    /\ \/ ~IsDir(Front(cmd.dest)) /\ Ends("failed") /\ UNCHANGED fs
       \/ /\ IsDir(Front(cmd.dest)) /\ Renamable(cmd.src, cmd.dest)
          /\ fs' = Renamed(cmd.src, cmd.dest) /\ Ends("success")
       \/ IsDir(Front(cmd.dest)) /\ NotRenamed(cmd.src, cmd.dest) /\ Calls("move")

StartCopy ==
    /\ Command(Copy)
    /\ \/ ~IsDir(Front(cmd.dest)) /\ Ends("failed") /\ UNCHANGED fs
       \/ IsDir(Front(cmd.dest)) /\ Calls("copy")

Transfer == {"move", "copy"}

EnterMissing ==
    /\ Running(Transfer, "enter")
    /\ ~Found(Top.src)
    /\ Returns("err")
    /\ UNCHANGED <<fs, cmd, outcome, try, before, unseen>>

EnterFile ==
    /\ Running(Transfer, "enter")
    /\ Found(Top.src) /\ ~IsDir(Top.src)
    /\ stack' = <<[Top EXCEPT !.at = "file", !.mode = fs[Target(Top.src)].mode]>> \o Tail(stack)
    /\ UNCHANGED <<fs, cmd, ret, outcome, try, before, unseen>>

\* opendir, then mkdir whose failure is ignored.  A destination made inside
\* the directory being read may or may not turn up in readdir: POSIX leaves
\* it open, and the file systems of Linux differ.
EnterDirectory ==
    LET dir == Target(Top.src)
        made == Place(Top.dest) IN
    /\ Running(Transfer, "enter")
    /\ IsDir(Top.src)
    /\ \/ fs' = Made(Top.dest, fs[dir].mode)
       \/ "nodir" \in Faults /\ fs' = fs
    /\ \E new \in SUBSET {n \in {Last(made)} : Creatable(Top.dest) /\ Front(made) = dir} :
          stack' = <<[Top EXCEPT !.at = "loop", !.left = Children(dir) \cup new]>> \o Tail(stack)
    /\ UNCHANGED <<cmd, ret, outcome, try, before, unseen>>

\* snprintf of "p/n" into PATH_MAX bytes.  What does not fit is cut: it names
\* nothing or, with the fault "cut", the cut is at the slash and it is p itself.
Joined(p, n) == {Append(p, n)} \cup {q \in {p} : "cut" \in Faults /\ Len(p) >= PathMax}

\* Mutant: the directory is read from its start for every entry.
DescendAgain ==
    /\ Running(Transfer, "loop")
    /\ \E n \in Top.left : \E src \in Joined(Top.src, n), dest \in Joined(Top.dest, n) :
          stack' = <<Frame(Top.fn, src, dest)>> \o stack
    /\ UNCHANGED <<fs, cmd, ret, outcome, try, before, unseen>>

\* The loop over readdir, in the order the directory gives.
Descend ==
    /\ Running(Transfer, "loop")
    /\ \E n \in Top.left : \E src \in Joined(Top.src, n), dest \in Joined(Top.dest, n) :
          stack' = <<Frame(Top.fn, src, dest), [Top EXCEPT !.left = @ \ {n}]>> \o Tail(stack)
    /\ UNCHANGED <<fs, cmd, ret, outcome, try, before, unseen>>

\* readdir fails: the loop takes it for the end of the directory.
StopReading ==
    /\ "read" \in Faults
    /\ Running(Transfer, "loop")
    /\ Top.left # {}
    /\ stack' = <<[Top EXCEPT !.left = {}]>> \o Tail(stack)
    /\ Unseen("readdir")
    /\ UNCHANGED <<fs, cmd, ret, outcome, try, before>>

\* Mutant: a copy removes its source like a move.
LeaveDirectoryRemoving ==
    /\ Running(Transfer, "loop")
    /\ Top.left = {}
    /\ stack' = <<Frame("remove", Top.src, <<>>)>> \o Tail(stack)
    /\ UNCHANGED <<fs, cmd, ret, outcome, try, before, unseen>>

\* The loop is over: a move removes what is left of the source directory.
LeaveDirectory ==
    /\ Running(Transfer, "loop")
    /\ Top.left = {}
    /\ IF Top.fn = "copy" THEN Returns("ok")
       ELSE stack' = <<Frame("remove", Top.src, <<>>)>> \o Tail(stack) /\ UNCHANGED ret
    /\ UNCHANGED <<fs, cmd, outcome, try, before, unseen>>

RenameFile ==
    /\ Running({"move"}, "file")
    /\ Renamable(Top.src, Top.dest)
    /\ fs' = Renamed(Top.src, Top.dest)
    /\ Returns("ok")
    /\ UNCHANGED <<cmd, outcome, try, before, unseen>>

\* fopen of both files: the destination is empty from now on.
OpenFiles ==
    /\ Running(Transfer, "file")
    /\ Top.fn = "move" => NotRenamed(Top.src, Top.dest)
    /\ IF Writable(Top.dest)
       THEN fs' = Filled(Top.dest, "") /\ Goes("open") /\ UNCHANGED ret
       ELSE Returns("err") /\ UNCHANGED fs
    /\ UNCHANGED <<cmd, outcome, try, before, unseen>>

\* The loop over fread and fwrite up to the end of the file, and both fclose.
CopyData ==
    /\ Running(Transfer, "open")
    /\ fs' = Filled(Top.dest, fs[Target(Top.src)].data)
    /\ Goes("full")
    /\ UNCHANGED <<cmd, ret, outcome, try, before, unseen>>

\* Mutant: what fwrite returns is not looked at.
WriteFailsUnseen ==
    /\ "write" \in Faults
    /\ Running(Transfer, "open")
    /\ fs' = Filled(Top.dest, "short")
    /\ Goes("full")
    /\ UNCHANGED <<cmd, ret, outcome, try, before, unseen>>

\* fread fails and the loop takes it for the end of the file; or fclose cannot
\* write what is left.
CopyShort ==
    /\ "read" \in Faults
    /\ Running(Transfer, "open")
    /\ fs' = Filled(Top.dest, "short")
    /\ Goes("full")
    /\ Unseen("fread")
    /\ UNCHANGED <<cmd, ret, outcome, try, before>>

\* fwrite is short: the destination is unlinked, if unlink can.
WriteFails ==
    /\ "write" \in Faults
    /\ Running(Transfer, "open")
    /\ \/ fs' = Without({Place(Top.dest)})
       \/ "deny" \in Faults /\ fs' = Filled(Top.dest, "short")
    /\ Returns("err")
    /\ UNCHANGED <<cmd, outcome, try, before, unseen>>

UnlinkSource ==
    /\ Running({"move"}, "full")
    /\ fs' = Without({Place(Top.src)})
    /\ Returns("ok")
    /\ UNCHANGED <<cmd, outcome, try, before, unseen>>

\* chmod of the copy to the mode that stat gave at the start.
CopyMode ==
    /\ Running({"copy"}, "full")
    /\ fs' = [fs EXCEPT ![Target(Top.dest)].mode = Top.mode]
    /\ Returns("ok")
    /\ UNCHANGED <<cmd, outcome, try, before, unseen>>

\* What chmod returns is not looked at.
CopyKeepsMode ==
    /\ "mode" \in Faults
    /\ Running({"copy"}, "full")
    /\ Returns("ok")
    /\ Unseen("chmod")
    /\ UNCHANGED <<fs, cmd, outcome, try, before>>

-----------------------------------------------------------------------------
(* The commands that are a few calls in main *)

\* Mutant: what rename returns is not looked at.
StartRenameUnseen ==
    /\ Command(Rename)
    /\ fs' = IF Renamable(cmd.src, cmd.dest) THEN Renamed(cmd.src, cmd.dest) ELSE fs
    /\ Ends("success")

StartRename ==
    /\ Command(Rename)
    /\ IF Renamable(cmd.src, cmd.dest)
       THEN fs' = Renamed(cmd.src, cmd.dest) /\ Ends("success")
       ELSE UNCHANGED fs /\ Ends("silent")

\* cmd.src is the path without the digit; Digit(1) is the path with a 0.
Digit(k) == Append(Front(cmd.src), Numbered[k])

\* Mutant: count is raised within the assignment, and once more after it.
MkdirAttemptSkipping ==
    LET file == Digit(try.digit + 1) IN
    /\ Command(Mkdir)
    /\ try.count < 11
    /\ \/ Creatable(file) /\ fs' = Made(file, {"x"}) /\ Ends("success")
       \/ /\ ~Creatable(file) /\ Place(file) \in DOMAIN fs
          /\ try' = [digit |-> (try.count + 1) % 10, count |-> try.count + 2]
          /\ UNCHANGED <<fs, cmd, stack, ret, outcome, before, unseen>>

\* One round of the loop: mkdir succeeds, or the name is in use and the digit
\* for the next round is set, or there is no place for the name.
MkdirAttempt ==
    LET file == Digit(try.digit + 1)
        exists == IsDir(Front(file)) /\ Len(file) <= PathMax /\ Place(file) \in DOMAIN fs
    IN
    /\ Command(Mkdir)
    /\ try.count < 11
    /\ \/ Creatable(file) /\ fs' = Made(file, {"x"}) /\ Ends("success")
       \/ /\ exists
          /\ try' = [digit |-> try.count % 10, count |-> try.count + 1]
          /\ UNCHANGED <<fs, cmd, stack, ret, outcome, before, unseen>>
       \/ ~Creatable(file) /\ ~exists /\ UNCHANGED fs /\ Ends("silent")

\* The loop is over: nobody is told.
MkdirGivesUp ==
    /\ Command(Mkdir)
    /\ try.count = 11
    /\ UNCHANGED fs
    /\ Ends("silent")

StartChmod ==
    /\ Command(Chmod)
    /\ IF Found(cmd.src)
       THEN fs' = [fs EXCEPT ![Target(cmd.src)].mode = cmd.mode] /\ Ends("success")
       ELSE UNCHANGED fs /\ Ends("failed")

\* Where favourites live, made first when it is missing.
LinkHome == Front(cmd.dest)
LinkHomeMade == IF Found(LinkHome) THEN fs ELSE Made(LinkHome, {"x"})

\* symlink; an existing entry is unlinked, unless it is a directory, and
\* symlink tried once more.
StartSymlink ==
    LET entry == Place(cmd.dest)
        possible == /\ Target(LinkHome) \in DOMAIN LinkHomeMade
                    /\ LinkHomeMade[Target(LinkHome)].kind = "dir"
                    /\ entry \in DOMAIN LinkHomeMade => LinkHomeMade[entry].kind # "dir"
    IN  /\ Command(Symlink)
        /\ IF possible
           THEN fs' = Put(LinkHomeMade, entry, LinkNode(cmd.src)) /\ Ends("success")
           ELSE fs' = LinkHomeMade /\ Ends("failed")

\* A call of main fails for a reason of its own.  After an unlink the second
\* symlink may be the one, and the old entry is gone.
DeniedCommand ==
    LET old == Place(cmd.dest) IN
    /\ "deny" \in Faults
    /\ \/ \E type \in Mkdir..Symlink : Command(type) /\ UNCHANGED fs
       \/ Command(Symlink) /\ fs' = LinkHomeMade
       \/ /\ Command(Symlink) /\ old \in DOMAIN fs /\ fs[old].kind # "dir"
          /\ fs' = Without({old})
    /\ Ends(Failure)

-----------------------------------------------------------------------------
Removing == StartDelete \/ RemoveEntry \/ RemoveTree

Transferring ==
    \/ StartMove \/ StartCopy
    \/ EnterMissing \/ EnterFile \/ EnterDirectory \/ Descend \/ LeaveDirectory
    \/ StopReading
    \/ RenameFile \/ OpenFiles \/ CopyData \/ CopyShort \/ WriteFails
    \/ UnlinkSource \/ CopyMode \/ CopyKeepsMode

Next ==
    \/ Removing \/ Transferring
    \/ StartRename \/ MkdirAttempt \/ MkdirGivesUp \/ StartChmod \/ StartSymlink
    \/ DeniedCommand
    \/ Finish \/ Resume \/ Denied

Spec == Init /\ [][Next]_vars

\* The backend does not stop in the middle of a command.
FairSpec == Spec /\ WF_vars(Next)

-----------------------------------------------------------------------------
(* Type invariant *)

\* Every entry is in a directory, every variable has its type, and only a
\* command that runs has active calls (backend.c:275-439).
TypeOK ==
    /\ IsTree(fs)
    /\ <<before, cmd>> \in Cases
    /\ stack \in Seq(Frames)
    /\ \A i \in DOMAIN stack : i > 1 => stack[i].at = "loop"
    /\ ret \in {"none", "ok", "err"}
    /\ outcome \in {"none", "success", "failed", "silent"}
    /\ outcome # "none" => stack = <<>>
    /\ try \in [digit : 0..9, count : 0..11]
    /\ unseen \subseteq [call : {"readdir", "fread", "chmod"}, at : Path]

-----------------------------------------------------------------------------
(* Safety *)

\* The node that was, or is, at a path below root, seen from root.
Holds(tree, p, node) == p \in DOMAIN tree /\ tree[p] = node
SourceEntries == {p \in DOMAIN before : IsPrefix(cmd.src, p)}
AtDest(p) == cmd.dest \o SubSeq(p, Len(cmd.src) + 1, Len(p))

HasData(p, d) == p \in DOMAIN fs /\ fs[p].kind = "file" /\ fs[p].data = d

\* No read of p ended early without the code knowing it, neither of the file
\* (backend.c:139, 148-149, 176, 185-186) nor of a directory it is in (99, 203).
ReadWhole(p) == \A e \in unseen : e.call = "chmod" \/ ~IsPrefix(e.at, p)

\* No chmod of the copy of p has failed (backend.c:189).
ModeSet(p) == [call |-> "chmod", at |-> p] \notin unseen

\* At every moment of a move, and so whenever the backend dies or gives up in
\* the middle, the data of every file of the source is whole in its old place
\* or in its new one (backend.c:80-154; README.md:79 copies before it deletes),
\* whatever call fails; only what a read that failed unseen has missed is lost.
MoveLosesNothing ==
    cmd.type = Move =>
        \A p \in SourceEntries :
            before[p].kind = "file" /\ ReadWhole(p) =>
                HasData(p, before[p].data) \/ HasData(AtDest(p), before[p].data)

\* Copying never changes what is copied, at any moment (backend.c:157-223).
CopyLeavesSource ==
    cmd.type = Copy => \A p \in SourceEntries : Holds(fs, p, before[p])

\* The paths a command may change.
Arguments ==
    CASE cmd.type \in {Delete, Chmod} -> {cmd.src}
      [] cmd.type = Mkdir -> {Digit(k) : k \in DOMAIN Numbered}
      [] cmd.type = Symlink -> {cmd.dest, Front(cmd.dest)}
      [] cmd.type = Copy -> {cmd.dest}
      [] OTHER -> {cmd.src, cmd.dest}

\* No command changes, makes or removes an entry that is outside of the paths
\* it names: a delete does not follow a link out of its tree (FTW_PHYS,
\* backend.c:46), nor does a failure leave anything elsewhere.
OthersUntouched ==
    \A p \in DOMAIN before \cup DOMAIN fs :
        (\A a \in Arguments : ~IsPrefix(a, p)) =>
            p \in DOMAIN before /\ Holds(fs, p, before[p])

Succeeded(type) == outcome = "success" /\ cmd.type = type

\* "success" is said of a delete only when all of it is gone (backend.c:292).
DeleteDone == Succeeded(Delete) => cmd.src \notin DOMAIN fs

\* "success" is said of a rename or a move only when nothing is left in the old
\* place and every file and every link is in the new one (backend.c:329,
\* 346-352), but for what a read that failed unseen has missed.
MoveDone ==
    Succeeded(Move) \/ Succeeded(Rename) =>
        /\ cmd.src # cmd.dest => cmd.src \notin DOMAIN fs
        /\ \A p \in SourceEntries :
              before[p].kind # "dir" /\ ReadWhole(p) =>
                  /\ AtDest(p) \in DOMAIN fs
                  /\ fs[AtDest(p)].kind = before[p].kind
                  /\ fs[AtDest(p)].data = before[p].data

\* "success" is said of a copy only when every file of the source is there
\* with its data and its permissions (backend.c:196, README.md:80), but for the
\* data that a read has missed unseen, and the mode where chmod failed unseen.
CopyDone ==
    Succeeded(Copy) =>
        \A p \in SourceEntries :
            before[p].kind = "file" /\ ReadWhole(p) =>
                IF ModeSet(p) THEN Holds(fs, AtDest(p), before[p])
                ELSE HasData(AtDest(p), before[p].data)

\* A favourite that is reported as made leads to the file it was asked for,
\* whatever was in its place (backend.c:409-438).
SymlinkDone ==
    Succeeded(Symlink) =>
        cmd.dest \in DOMAIN fs /\ fs[cmd.dest] = LinkNode(cmd.src)

\* What is answered with "success" has been done as a whole, the recursive
\* operations included, also when one of their calls has failed; the failures
\* that the code does not look at are the only exceptions.
SuccessMeansDone == DeleteDone /\ MoveDone /\ CopyDone /\ SymlinkDone

\* "success" is said of a mkdir exactly when there is a new folder, one and no
\* more, under the lowest digit that was free (backend.c:299-327): the eleven
\* rounds, the first digit tried twice, miss none of the ten.  Otherwise nothing
\* is made.
MkdirNumbers ==
    cmd.type = Mkdir =>
        IF outcome # "success" THEN fs = before
        ELSE \E k \in DOMAIN Numbered :
                /\ DOMAIN fs = DOMAIN before \cup {Digit(k)}
                /\ Digit(k) \notin DOMAIN before
                /\ \A j \in 1..(k - 1) : Digit(j) \in DOMAIN before

-----------------------------------------------------------------------------
(* Progress *)

\* How many stages a call still has before it.
Stages(f) ==
    IF f.fn = "remove" THEN IF f.at = "enter" THEN 2 ELSE 1
    ELSE CASE f.at = "enter" -> 5
           [] f.at \in {"loop", "file"} -> 4
           [] f.at = "open" -> 3
           [] OTHER -> 2

FurtherOn(g, f) ==
    \/ Stages(g) < Stages(f)
    \/ Stages(g) = Stages(f) /\ g.left \subseteq f.left /\ g.left # f.left

\* The j-th of the active calls s, the outermost being the first.
Call(s, j) == s[Len(s) + 1 - j]

\* The first call in which t differs from s has returned, or is further on;
\* whatever it has called since is new.
Past(t, s) ==
    \E j \in 1..Len(s) :
        /\ Len(t) >= j - 1
        /\ \A i \in 1..(j - 1) : Call(t, i) = Call(s, i)
        /\ Len(t) >= j => FurtherOn(Call(t, j), Call(s, j))

Begun == stack # <<>> \/ ret # "none"

Advances ==
    /\ outcome = "none"
    /\ outcome' = "none" =>
          \/ try'.count \in (try.count + 1)..11 /\ UNCHANGED <<stack, ret>>
          \/ /\ UNCHANGED try
             /\ Begun'
             /\ \/ ~Begun
                \/ Past(stack', stack)
                \/ stack' = stack /\ ret # "none" /\ ret' = "none"
                \/ /\ stack' = stack /\ ret' = ret
                   /\ DOMAIN fs' \subseteq DOMAIN fs /\ DOMAIN fs' # DOMAIN fs

\* Every step of a command brings it nearer to its end: it ends the command, is
\* one more round of mkdir's loop, begins a walk, lets the outermost call it
\* touches return or go on, takes a result, or removes an entry; and the
\* recursion is never deeper than a path is long.  Such steps cannot go on for
\* ever, even where a copy finds the entries it makes (backend.c:98-120, 203-218,
\* 310).
WalkAdvances == [][Advances /\ Len(stack') <= PathMax + 1]_vars

-----------------------------------------------------------------------------
(* Liveness, under FairSpec *)

\* Every command comes to an end: no walk of a tree is endless.
CommandEnds == <>(outcome # "none")

=============================================================================
