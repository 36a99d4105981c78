------------------------------- MODULE Shell -------------------------------
(* custom_shell: a prompt that works inside of the directory BASE_PATH.  A    *)
(* command turns the paths it was given into absolute ones by their text      *)
(* (path_utils.c), checks their beginning, and makes a system call.           *)
(*                                                                            *)
(* A path is a sequence of names; an argument also says whether it began      *)
(* with '/'.  ps and kill leave all of this alone.                            *)
EXTENDS Naturals, Sequences, SequencesExt, Maps, Trees

CONSTANTS
    Trees,          \* what the disk may be at the start: [fs, data]
    Lines,          \* the commands the user may type
    Names,          \* names in paths, "." and ".." included
    LikeBase,       \* those that begin with the last name of BASE_PATH
    Options,        \* those that begin with '-'
    Umask,          \* permissions that are taken from what is made
    OldInodes,      \* the files there are at the start have numbers below this one
    PathMax,        \* bound: names in a path (PATH_MAX)
    MaxSteps,       \* bound: steps of a path resolution (ELOOP)
    MaxLines        \* bound: commands typed

Base == <<"tmp", "test">>       \* config.c
Home == <<>>             \* where the program is started

ASSUME NamesAssumption ==
    /\ "test" \in LikeBase /\ LikeBase \subseteq Names \ {".", ".."}
    /\ "tmp" \in Names /\ "" \notin Names
    /\ "-m" \in Options /\ Options \subseteq Names \ (LikeBase \cup {".", ".."})
ASSUME BoundsAssumption ==
    PathMax \in Nat /\ MaxSteps \in Nat /\ MaxLines \in Nat /\ OldInodes \in Nat \ {0}

\* The paths of directory entries.
EntryPath == Seq(Names \ {".", ".."})

\* Every entry is in a directory, a file has its data under all of its names.
IsDisk(tree, texts) ==
    /\ <<>> \in DOMAIN tree /\ tree[<<>>].kind = "dir"
    /\ \A q \in DOMAIN tree :
          /\ q \in EntryPath
          /\ tree[q] \in [kind : {"dir", "file", "link"}, ino : Nat, to : EntryPath]
          /\ q # <<>> => Front(q) \in DOMAIN tree /\ tree[Front(q)].kind = "dir"
          /\ tree[q].kind = "file" => tree[q].ino \in DOMAIN texts
          /\ tree[q].kind # "link" => tree[q].to = <<>>
    /\ \A q, r \in DOMAIN tree :
          tree[q].ino = tree[r].ino => tree[q] = tree[r] /\ (tree[q].kind = "dir" => q = r)

\* strncmp with BASE_PATH: the text begins with it, no '/' need follow.
IsValidPath(p) == Len(p) >= 2 /\ p[1] = "tmp" /\ p[2] \in LikeBase

\* What the disk may be before the program is started for the first time: there
\* is a directory /tmp, no link leads from the paths that begin like BASE_PATH to
\* others, and no file has names of both kinds.
ASSUME TreesAssumption ==
    \A t \in Trees :
        /\ IsDisk(t.fs, t.data)
        /\ <<"tmp">> \in DOMAIN t.fs /\ t.fs[<<"tmp">>].kind = "dir"
        /\ \A q \in DOMAIN t.fs :
              /\ t.fs[q].ino \in 1..(OldInodes - 1)
              /\ IsValidPath(q) /\ t.fs[q].kind = "link" => IsValidPath(t.fs[q].to)
              /\ \A r \in DOMAIN t.fs : t.fs[q].ino = t.fs[r].ino => (IsValidPath(q) <=> IsValidPath(r))

VARIABLES
    fs,         \* from paths to nodes
    data,       \* the data of the files, by inode
    mode,       \* the permissions of files and directories, by inode
    cwd,        \* the current directory as getcwd gives it
    shell,      \* "prompt", "run" (a command was read), "child" (a program
                \* runs), "over" or "crashed"
    line,       \* the command that was read and is carried out
    typed,      \* number of commands so far
    shown       \* inodes of what cat or ls has shown since the last prompt

disk == <<fs, data, mode>>
vars == <<disk, cwd, shell, line, typed, shown>>

\* A line of input: the command, its options first; up to two paths; what chmod
\* and mkdir are given; and whether there are more words than that.
Line(cmd, from, to, how) == [cmd |-> cmd, from |-> from, to |-> to, how |-> how, more |-> FALSE]
AndMore(l) == [l EXCEPT !.more = TRUE]
Arg(absolute, names) == [absolute |-> absolute, names |-> names]
NoArg == Arg(FALSE, <<>>)
IsOption(arg) == ~arg.absolute /\ arg.names # <<>> /\ Head(arg.names) \in Options

Permissions == {"u", "g", "o"} \X {"r", "w", "x"}
Octal(m) == [octal |-> TRUE, who |-> {}, op |-> "", perms |-> {}, mode |-> m]
Symbolic(who, op, perms) == [octal |-> FALSE, who |-> who, op |-> op, perms |-> perms, mode |-> {}]
NoLine == Line("", NoArg, NoArg, Octal({}))
Rwx(who) == who \X {"r", "w", "x"}
DefaultDirMode == Rwx({"u"}) \cup ({"g", "o"} \X {"r", "x"})     \* 0755
NewFileMode == ({"u", "g", "o"} \X {"r", "w"}) \ Umask           \* 0666
ASSUME UmaskAssumption == Umask \subseteq Permissions

TwoPaths == {"cp", "rename", "ln", "ln -s"}
Complete(l) == l.from # NoArg /\ (l.cmd \in TwoPaths => l.to # NoArg)

\* Without a path "cd" with more is "cd ~" with more.  An option that is the only
\* word, or the first of two, is a path of "mkdir" or "ln".
ASSUME LinesAssumption ==
    \A l \in Lines :
        /\ {l.from, l.to} \subseteq [absolute : BOOLEAN, names : Seq(Names)]
        /\ l.how.mode \subseteq Permissions
        /\ l.how.who \subseteq {"u", "g", "o"} /\ l.how.perms \subseteq {"r", "w", "x"}
        /\ l.how.octal => l.how.op = ""
        /\ l.cmd = "mkdir" => l.how = Octal(DefaultDirMode)
        /\ l.cmd = "ln -s" => Complete(l)
        /\ l.more => /\ Complete(l) \/ l.cmd \in {"cd", "help"}
                     /\ l.cmd # "ls" /\ (l.cmd \in {"mkdir", "ln"} => ~IsOption(l.from))

Node(kind, ino, to) == [kind |-> kind, ino |-> ino, to |-> to]
Gone == <<"">>      \* no path: the current directory has been removed
NoPath == <<"">>

-----------------------------------------------------------------------------
(* Path resolution by the kernel (external) *)

IsDir(q) == q \in DOMAIN fs /\ fs[q].kind = "dir"
IsLink(q) == q \in DOMAIN fs /\ fs[q].kind = "link"
Children(q) == {r \in DOMAIN fs : r # <<>> /\ Front(r) = q}

\* One name further; after a link its target is walked from the root.
OneStep(w, follow) ==
    LET name == Head(w.todo)  rest == Tail(w.todo)  q == Append(w.at, name) IN
    IF w.todo = <<>> THEN w
    ELSE IF ~IsDir(w.at) THEN [at |-> NoPath, todo |-> <<>>]
    ELSE IF name = "." THEN [at |-> w.at, todo |-> rest]
    ELSE IF name = ".." THEN [at |-> IF w.at = <<>> THEN <<>> ELSE Front(w.at), todo |-> rest]
    ELSE IF IsLink(q) /\ (rest # <<>> \/ follow) THEN [at |-> <<>>, todo |-> fs[q].to \o rest]
    ELSE [at |-> q, todo |-> rest]

\* Where names lead from a directory; the last one may name nothing yet.
Walk(start, names, follow) ==
    LET walk[i \in 0..MaxSteps] ==
            IF i = 0 THEN [at |-> start, todo |-> names] ELSE OneStep(walk[i - 1], follow)
        end == walk[MaxSteps]
    IN  IF Len(names) > PathMax \/ end.todo # <<>> THEN NoPath ELSE end.at

Place(p) == Walk(<<>>, p, FALSE)
Target(p) == Walk(<<>>, p, TRUE)

\* A new entry may be made at q.
Creatable(q) == q \notin {<<>>, NoPath} /\ IsDir(Front(q)) /\ q \notin DOMAIN fs

Inodes == {fs[q].ino : q \in DOMAIN fs}
Fresh == OldInodes + typed      \* no command makes more than one
With(q, node) == Put(fs, q, node)
Without(q) == [r \in DOMAIN fs \ {q} |-> fs[r]]

-----------------------------------------------------------------------------
(* path_utils.c *)

\* Mutant: '..' leaves the path as it is.
NormalisedUp(path, name) ==
    IF name \in {".", ".."} THEN path ELSE Append(path, name)

\* One component is taken into account; '..' never removes the first one.
Normalised(path, name) ==
    IF name = ".." THEN (IF Len(path) > 1 THEN Front(path) ELSE path)
    ELSE IF name = "." THEN path
    ELSE Append(path, name)

Normal(names) ==
    LET path[i \in 0..Len(names)] ==
            IF i = 0 THEN <<>> ELSE Normalised(path[i - 1], names[i])
    IN  path[Len(names)]

ConvertToAbsolute(arg) == Normal((IF arg.absolute THEN Base ELSE cwd) \o arg.names)

-----------------------------------------------------------------------------
(* The loop of main *)

DiskAtStart ==
    /\ \E t \in Trees :
          /\ fs = IF Base \in DOMAIN t.fs THEN t.fs ELSE Put(t.fs, Base, Node("dir", OldInodes, <<>>))
          /\ data = t.data
    /\ mode = [i \in 1..(OldInodes + MaxLines) |->
                  IF i = OldInodes THEN DefaultDirMode \ Umask ELSE DefaultDirMode]
    /\ line = NoLine /\ typed = 0 /\ shown = {}

\* chdir, else mkdir and chdir, else exit.
Init ==
    /\ DiskAtStart
    /\ IF IsDir(Target(Base)) THEN cwd = Target(Base) /\ shell = "prompt"
       ELSE cwd = Home /\ shell = "over"

\* The prompt shows the current directory; without one, strcmp reads NULL.
ReadLine ==
    /\ shell = "prompt"
    /\ typed < MaxLines
    /\ cwd # Gone
    /\ line' \in Lines
    /\ shell' = "run"
    /\ typed' = typed + 1
    /\ shown' = {}
    /\ UNCHANGED <<disk, cwd>>

PromptFails ==
    /\ shell = "prompt"
    /\ cwd = Gone
    /\ shell' = "crashed"
    /\ UNCHANGED <<disk, cwd, line, typed, shown>>

\* quit, or the end of the input.
Quit ==
    /\ shell = "prompt"
    /\ cwd # Gone
    /\ shell' = "over"
    /\ UNCHANGED <<disk, cwd, line, typed, shown>>

Done == shell' = "prompt" /\ line' = NoLine /\ UNCHANGED typed
Has(cmd) == shell = "run" /\ line.cmd = cmd
Runs(cmd) == Has(cmd) /\ Complete(line) /\ Done /\ UNCHANGED shown

\* Commands that look for options take their paths from what is left and ignore
\* the rest; the others want the right number of words; cd and ls need none.
ReadsOptions == {"mkdir", "mkdir -m", "ln", "ln -s", "ls"}
Misused ==
    \/ line.cmd \notin {"cd", "ls", "help"} /\ ~Complete(line)
    \/ line.more /\ line.cmd \notin ReadsOptions \cup {"help"}
    \/ line.cmd \in ReadsOptions /\ (IsOption(line.from) \/ IsOption(line.to))

\* The command explains its use.
Explains == shell = "run" /\ Done /\ UNCHANGED <<disk, cwd, shown>>
Usage == Misused /\ Explains

Help == Has("help") /\ Explains

From == ConvertToAbsolute(line.from)
To == ConvertToAbsolute(line.to)

-----------------------------------------------------------------------------
(* The commands *)

\* Mutant: the path is not checked.
CdAnywhere ==
    /\ Runs("cd")
    /\ cwd' = IF IsDir(Target(From)) THEN Target(From) ELSE cwd
    /\ UNCHANGED disk

Cd ==
    /\ Runs("cd")
    /\ cwd' = IF IsValidPath(From) /\ IsDir(Target(From)) THEN Target(From) ELSE cwd
    /\ UNCHANGED disk

\* cd without an argument, or with ~.
CdHome ==
    /\ Has("cd") /\ line.from = NoArg /\ Done
    /\ cwd' = IF IsDir(Target(Base)) THEN Target(Base) ELSE cwd
    /\ UNCHANGED <<disk, shown>>

\* mkdir(2), where the path is let through.
MakeDir(p, permissions) ==
    LET q == Place(p) IN
    /\ Done
    /\ IF IsValidPath(p) /\ Creatable(q)
       THEN /\ fs' = With(q, Node("dir", Fresh, <<>>))
            /\ mode' = [mode EXCEPT ![Fresh] = permissions]
       ELSE UNCHANGED <<fs, mode>>
    /\ UNCHANGED <<data, cwd, shown>>

\* With umask 0, then chmod with the same mode; -m wants an octal number.
Mkdir ==
    /\ Has("mkdir") \/ Has("mkdir -m")
    /\ IF line.how.octal THEN MakeDir(From, line.how.mode) ELSE Explains

\* Mutant: entries that are left do not keep a directory from being removed.
RmdirFull ==
    LET q == Place(From) IN
    /\ Runs("rmdir")
    /\ IF IsValidPath(From) /\ IsDir(q)
       THEN fs' = Without(q) /\ cwd' = IF cwd = q THEN Gone ELSE cwd
       ELSE UNCHANGED <<fs, cwd>>
    /\ UNCHANGED <<data, mode>>

\* A directory may be removed while it is the current one.
Rmdir ==
    LET q == Place(From) IN
    /\ Runs("rmdir")
    /\ IF IsValidPath(From) /\ IsDir(q) /\ Children(q) = {}
       THEN fs' = Without(q) /\ cwd' = IF cwd = q THEN Gone ELSE cwd
       ELSE UNCHANGED <<fs, cwd>>
    /\ UNCHANGED <<data, mode>>

Rm ==
    LET q == Place(From) IN
    /\ Runs("rm")
    /\ fs' = IF IsValidPath(From) /\ q \in DOMAIN fs /\ ~IsDir(q) THEN Without(q) ELSE fs
    /\ UNCHANGED <<data, mode, cwd>>

\* fopen both, copy, fclose.  A directory can be opened for reading, and gives
\* nothing; a target that is the source has been emptied before it is read.
Cp ==
    LET src == Target(From)
        dst == Target(To)
        ino == IF dst \in DOMAIN fs THEN fs[dst].ino ELSE Fresh
        text == IF IsDir(src) \/ fs[src].ino = ino THEN "" ELSE data[fs[src].ino]
    IN  /\ Runs("cp")
        /\ IF /\ IsValidPath(From) /\ IsValidPath(To)
              /\ src \in DOMAIN fs
              /\ Creatable(dst) \/ (dst \in DOMAIN fs /\ ~IsDir(dst))
           THEN /\ fs' = With(dst, Node("file", ino, <<>>))
                /\ data' = Put(data, ino, text)
                /\ mode' = IF dst \in DOMAIN fs THEN mode ELSE [mode EXCEPT ![ino] = NewFileMode]
           ELSE UNCHANGED disk
        /\ UNCHANGED cwd

\* Mutant: only the old path is checked.
RenameAnywhere ==
    LET a == Place(From)  b == Place(To) IN
    /\ Runs("rename")
    /\ fs' = IF /\ IsValidPath(From) /\ a \in DOMAIN fs /\ ~IsDir(a)
                /\ Creatable(b) \/ (b \in DOMAIN fs /\ ~IsDir(b))
             THEN [q \in (DOMAIN fs \ {a}) \cup {b} |-> IF q = b THEN fs[a] ELSE fs[q]]
             ELSE fs
    /\ UNCHANGED <<data, mode, cwd>>

\* rename(2): what is below a moves along, and so does the current directory.
Rename ==
    LET a == Place(From)
        b == Place(To)
        taken == b \in DOMAIN fs
    IN  /\ Runs("rename")
        /\ IF /\ IsValidPath(From) /\ IsValidPath(To)
              /\ a \in DOMAIN fs /\ ~IsPrefix(a, b)
              /\ \/ Creatable(b)
                 \/ taken /\ IsDir(a) /\ IsDir(b) /\ Children(b) = {}
                 \/ taken /\ ~IsDir(a) /\ ~IsDir(b) /\ fs[a].ino # fs[b].ino
           THEN /\ fs' = Moved(fs, a, b)
                /\ cwd' = IF IsPrefix(a, cwd) THEN Rebased(cwd, a, b)
                          ELSE IF cwd = b THEN Gone ELSE cwd
           ELSE UNCHANGED <<fs, cwd>>
        /\ UNCHANGED <<data, mode>>

\* ln: a second name for the same inode, of a link itself if it is one.
Ln ==
    LET a == Place(From)  b == Place(To) IN
    /\ Runs("ln")
    /\ fs' = IF /\ IsValidPath(From) /\ IsValidPath(To)
                /\ a \in DOMAIN fs /\ ~IsDir(a) /\ Creatable(b)
             THEN With(b, fs[a]) ELSE fs
    /\ UNCHANGED <<data, mode, cwd>>

\* Mutant: only the link's own path is checked.
LnSymbolicAnywhere ==
    LET b == Place(To) IN
    /\ Runs("ln -s")
    /\ fs' = IF IsValidPath(To) /\ Creatable(b) THEN With(b, Node("link", Fresh, From)) ELSE fs
    /\ UNCHANGED <<data, mode, cwd>>

\* ln -s: the link holds the converted path, whatever is there.
LnSymbolic ==
    LET b == Place(To) IN
    /\ Runs("ln -s")
    /\ fs' = IF IsValidPath(From) /\ IsValidPath(To) /\ Creatable(b)
             THEN With(b, Node("link", Fresh, From)) ELSE fs
    /\ UNCHANGED <<data, mode, cwd>>

\* Mutant: no letter before the operator means nobody.
ChmodFormatStrict(s, current) ==
    LET asked == s.who \X s.perms IN
    IF s.octal THEN s.mode ELSE IF s.op = "+" THEN current \cup asked ELSE current \ asked

\* An octal mode as it is; else what is asked of the classes that are named, or
\* of all of them, is added to or taken from the current mode.
ChmodFormat(s, current) ==
    LET asked == (IF s.who = {} THEN {"u", "g", "o"} ELSE s.who) \X s.perms IN
    IF s.octal THEN s.mode ELSE IF s.op = "+" THEN current \cup asked ELSE current \ asked

\* stat, then the mode, then the check of the path.
Chmod ==
    LET q == Target(From) IN
    /\ Runs("chmod")
    /\ mode' = IF q \in DOMAIN fs /\ line.how.op \in {"", "+", "-"} /\ IsValidPath(From)
               THEN [mode EXCEPT ![fs[q].ino] = ChmodFormat(line.how, @)] ELSE mode
    /\ UNCHANGED <<fs, data, cwd>>

\* Mutant: the path is not checked.
CatAnything ==
    LET q == Walk(IF line.from.absolute THEN <<>> ELSE cwd, line.from.names, TRUE) IN
    /\ Has("cat") /\ Complete(line) /\ Done
    /\ shown' = IF q \in DOMAIN fs /\ ~IsDir(q) THEN {fs[q].ino} ELSE {}
    /\ UNCHANGED <<disk, cwd>>

\* The converted path is checked and the path that was typed is opened.
Cat ==
    LET q == Walk(IF line.from.absolute THEN <<>> ELSE cwd, line.from.names, TRUE) IN
    /\ Has("cat") /\ Complete(line) /\ Done
    /\ shown' = IF IsValidPath(From) /\ q \in DOMAIN fs /\ ~IsDir(q) THEN {fs[q].ino} ELSE {}
    /\ UNCHANGED <<disk, cwd>>

\* Of one directory after the other, by default of the current one.
Listing(p) == IF IsValidPath(p) /\ IsDir(Target(p)) THEN {fs[q].ino : q \in Children(Target(p))} ELSE {}
Ls ==
    /\ Has("ls") /\ Done
    /\ shown' = Listing(From) \cup (IF line.to = NoArg THEN {} ELSE Listing(To))
    /\ UNCHANGED <<disk, cwd>>

\* A line of one word that is no command is run as a program; the shell waits
\* for the child, also for one in which execve has failed, and ends when fork does.
Run ==
    /\ Has("run")
    /\ IF IsValidPath(From) THEN shell' \in {"child", "over"} ELSE shell' = "prompt"
    /\ line' = NoLine
    /\ UNCHANGED <<disk, cwd, typed, shown>>

ChildEnds ==
    /\ shell = "child"
    /\ shell' = "prompt"
    /\ UNCHANGED <<disk, cwd, line, typed, shown>>

Command ==
    \/ Help \/ Cd \/ CdHome \/ Mkdir \/ Rmdir \/ Rm \/ Cp \/ Rename \/ Ln \/ LnSymbolic \/ Chmod
    \/ Cat \/ Ls \/ Run

Execute == Usage \/ (~Misused /\ Command)

Next == ReadLine \/ PromptFails \/ Quit \/ Execute \/ ChildEnds

Spec == Init /\ [][Next]_vars

-----------------------------------------------------------------------------
(* Type invariant *)

\* Every entry is in a directory, a file has its data under all of its names,
\* and the current directory exists or is known to be gone (main.c:114).
TypeOK ==
    /\ IsDisk(fs, data)
    /\ \A q \in DOMAIN fs : mode[fs[q].ino] \subseteq Permissions
    /\ cwd = Gone \/ IsDir(cwd)
    /\ shell \in {"prompt", "run", "child", "over", "crashed"}
    /\ typed \in 0..MaxLines

-----------------------------------------------------------------------------
(* Safety *)

Arguments == {l.from : l \in Lines} \cup {l.to : l \in Lines}

Start(arg) == IF arg.absolute THEN Base ELSE cwd
Steps(arg) == {Walk(Start(arg), SubSeq(arg.names, 1, k), FALSE) : k \in 0..Len(arg.names)}

\* Neither a link nor the root of the disk is on the way of a path.
Straight(arg) ==
    /\ \A k \in 1..Len(arg.names) :
          LET names == SubSeq(arg.names, 1, k) IN
          Walk(Start(arg), names, TRUE) = Walk(Start(arg), names, FALSE)
    /\ <<>> \notin Steps(arg)

\* At every prompt, whatever directory the user has gone to, the conversion of a path by its text
\* gives the place to which the kernel would walk, unless a link is on the way or
\* the walk comes to the root of the disk (path_utils.c:4-47).
ResolvesLikeKernel ==
    shell = "prompt" /\ cwd # Gone => \A arg \in Arguments :
        LET end == Walk(Start(arg), arg.names, FALSE) IN
        Straight(arg) /\ end # NoPath => ConvertToAbsolute(arg) = end

\* What there is at a path is what there was.
Kept(q) ==
    /\ q \in DOMAIN fs \cap DOMAIN fs' /\ fs'[q] = fs[q]
    /\ mode'[fs[q].ino] = mode[fs[q].ino]
    /\ fs[q].kind = "file" => data'[fs[q].ino] = data[fs[q].ino]

\* No sequence of commands changes, makes or removes anything but paths whose text
\* begins like BASE_PATH, which is what is_valid_path asks for: not through '..',
\* nor through links or second names that were made earlier (path_utils.c:50-52).
\* /tmp/test2 begins like BASE_PATH, too: see ChangesOnlyTest.
ChangesOnlyLikeBase == [][\A q \in DOMAIN fs \cup DOMAIN fs' : ~IsValidPath(q) => Kept(q)]_vars

\* ls, and cat of a relative path with no link and not the root on its way, show
\* nothing but what is at paths whose text begins like BASE_PATH, through whatever
\* links earlier commands have made and whatever was renamed (cmd_cat.c:12-20,
\* cmd_ls.c:52-73).  This says nothing of other uses of cat, for which see
\* CatReadsItsPath, nor of a predecessor that has not got to BASE_PATH.
ShowsOnlyLikeBase ==
    [][shown' # shown /\ cwd # Home
          /\ (line.cmd = "cat" => ~line.from.absolute /\ Straight(line.from))
          => shown' \subseteq {fs[q].ino : q \in {r \in DOMAIN fs : IsValidPath(r)}}]_vars

Asked(bit, how) == (how.who = {} \/ bit[1] \in how.who) /\ bit[2] \in how.perms

\* chmod with letters changes what was asked for and nothing else, of the file
\* that the path leads to and of no other (cmd_chmod.c:27-69, 98).
ChmodDoesAsAsked ==
    [][Has("chmod") /\ ~Misused /\ line.how.op \in {"+", "-"} =>
          \A i \in Inodes, bit \in Permissions :
              LET file == Target(From) IN
              IF Asked(bit, line.how) /\ IsValidPath(From) /\ file \in DOMAIN fs /\ fs[file].ino = i
              THEN bit \in mode'[i] <=> line.how.op = "+"
              ELSE bit \in mode'[i] <=> bit \in mode[i]]_vars

-----------------------------------------------------------------------------
(* What the documents say and the code does not do *)

\* README.md:120-125: /tmp/test is the directory / of the shell and
\* /tmp/test/docs is its /docs, also for cat.
CatReadsItsPath ==
    [][Has("cat") /\ ~Misused /\ IsValidPath(From) /\ Target(From) \in DOMAIN fs /\ ~IsDir(Target(From))
          => shown' = {fs[Target(From)].ino}]_vars

\* README.md:3, 40, 121: the shell refuses what leads out of /tmp/test, so that
\* nothing outside of that directory comes to harm.
ChangesOnlyTest == [][\A q \in DOMAIN fs \cup DOMAIN fs' : ~IsPrefix(Base, q) => Kept(q)]_vars

=============================================================================
