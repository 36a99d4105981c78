---------------------------- MODULE ShellVersions ----------------------------
(* custom_shell with its two predecessors, dir_manage_ver1 and dir_manage_ver2. *)
(* Where a predecessor makes the same checks and calls as the current command  *)
(* its action is that of Shell; what differs is what it does with words that   *)
(* are missing or too many, with options and the umask, with files that do not *)
(* open, directories it leaves open, and a BASE_PATH it cannot go to.          *)
EXTENDS Shell

CONSTANTS
    MaxEarlier,     \* bound: commands typed to a predecessor
    MaxOpen,        \* directories a process may hold open
    LsRoom          \* names of a path that fit into the 100 bytes of ls

ASSUME EarlierAssumption == MaxEarlier \in 0..MaxLines /\ MaxOpen \in Nat /\ LsRoom \in Nat

VARIABLES
    version,    \* the program that runs
    open,       \* directories ver1 holds open
    dp          \* its last opendir succeeded

history == <<version, open, dp>>
varsOfAll == <<vars, history>>

Versions == {"custom_shell", "ver1", "ver2"}

Commands(v) ==
    {"help", "mkdir", "mkdir -m", "rmdir", "rename", "cd", "ls"}
    \cup (IF v = "ver2" THEN {"ln", "ln -s", "rm", "chmod", "cat", "cp"} ELSE {})

\* chdir, else mkdir and chdir; the predecessors do not look at the result.
InitOfAll ==
    /\ version \in Versions
    /\ DiskAtStart
    /\ IF version = "custom_shell" THEN Init
       ELSE shell = "prompt" /\ cwd = IF IsDir(Target(Base)) THEN Target(Base) ELSE Home
    /\ open = 0 /\ dp = FALSE

Crashes == shell' = "crashed" /\ UNCHANGED <<disk, cwd, line, typed, shown>>

\* Where BASE_PATH is not there to be cut off, the prompt shows what is behind the
\* end of the current directory, if the copy of it does not run over its buffer.
PromptOverruns == shell = "prompt" /\ cwd = Home /\ Crashes

\* The mode that mkdir gets is subject to the umask.
MakesDir(p) == MakeDir(p, DefaultDirMode \ Umask)

-----------------------------------------------------------------------------
(* dir_manage_ver1 *)

\* opendir at every prompt.
Opens ==
    /\ dp' = (open < MaxOpen)
    /\ open' = IF dp' THEN open + 1 ELSE open
    /\ UNCHANGED version

Ver1Prompt ==
    /\ version = "ver1" /\ typed < MaxEarlier
    /\ ReadLine
    /\ line'.cmd \in Commands(version)
    /\ Opens

\* A line without a word, of which there may be any number.
Ver1EmptyLine ==
    /\ version = "ver1" /\ shell = "prompt" /\ cwd # Gone
    /\ Opens
    /\ UNCHANGED vars

Ver1(cmd) == version = "ver1" /\ Has(cmd)

\* continue passes over closedir.
Leaks == UNCHANGED history
Closes == open' = (IF dp THEN open - 1 ELSE open) /\ UNCHANGED <<version, dp>>

\* The words that are wanted are taken, an option like any other, and the rest is
\* left.  A word that is missing is NULL to strlen.
CreateDirectory ==
    /\ Leaks
    /\ \/ Ver1("mkdir -m") /\ MakesDir(ConvertToAbsolute(Arg(FALSE, <<"-m">>)))
       \/ Ver1("mkdir") /\ Complete(line) /\ MakesDir(From)
       \/ Ver1("mkdir") /\ ~Complete(line) /\ Crashes
DeleteDirectory == Ver1("rmdir") /\ Leaks /\ IF Complete(line) THEN Rmdir ELSE Crashes
RenameDirectory == Ver1("rename") /\ Leaks /\ IF Complete(line) THEN Rename ELSE Crashes
MoveDirectory == Ver1("cd") /\ Closes /\ (Cd \/ CdHome)

\* What ls shows of a directory that stat finds; a path that is longer than its
\* buffer is written beyond it, which may pass unseen.
Listed == {fs[q].ino : q \in {r \in Children(cwd) : Target(r) \in DOMAIN fs}}
Overruns == \E q \in Children(cwd) : Len(q) > LsRoom
ShowsListed == Done /\ shown' = Listed /\ UNCHANGED <<disk, cwd>>

Ver1Ls ==
    /\ Ver1("ls") /\ Closes
    /\ \/ dp /\ ShowsListed
       \/ (dp => Overruns) /\ Crashes

-----------------------------------------------------------------------------
(* dir_manage_ver2 *)

Ver2Prompt ==
    /\ version = "ver2" /\ typed < MaxEarlier
    /\ ReadLine
    /\ line'.cmd \in Commands(version)
    /\ UNCHANGED history

\* Commands count their words; only ln, with three, looks for an option, so that
\* "mkdir -m" has too many and a lone option is a path.
Ver2Misused ==
    \/ line.cmd = "mkdir -m"
    \/ line.cmd \notin {"cd", "ls", "help"} /\ ~Complete(line)
    \/ line.more /\ line.cmd \notin {"ls", "help"}

Ver2(cmd) == version = "ver2" /\ Has(cmd) /\ ~Ver2Misused /\ UNCHANGED history

Ver2Usage == version = "ver2" /\ Ver2Misused /\ Explains /\ UNCHANGED history
Ver2Mkdir == Ver2("mkdir") /\ MakesDir(From)
Ver2Rmdir == Ver2("rmdir") /\ Rmdir
Ver2Rename == Ver2("rename") /\ Rename
Ver2Cd == Ver2("cd") /\ (Cd \/ CdHome)
Ver2Ln == (Ver2("ln") /\ Ln) \/ (Ver2("ln -s") /\ LnSymbolic)
Ver2Rm == Ver2("rm") /\ Rm
Ver2Chmod == Ver2("chmod") /\ Chmod
Ver2Cat == Ver2("cat") /\ Cat

\* Always of the current directory.
Ver2Ls == Ver2("ls") /\ (ShowsListed \/ (Overruns /\ Crashes))

\* A file that does not open is closed all the same, which NULL does not survive.
Ver2Cp ==
    LET dst == Target(To) IN
    /\ Ver2("cp")
    /\ IF /\ IsValidPath(From) /\ IsValidPath(To)
          /\ Target(From) \notin DOMAIN fs \/ ~(Creatable(dst) \/ (dst \in DOMAIN fs /\ ~IsDir(dst)))
       THEN Crashes ELSE Cp

-----------------------------------------------------------------------------
Ver1Step ==
    \/ Ver1Prompt \/ Ver1EmptyLine \/ CreateDirectory \/ DeleteDirectory \/ RenameDirectory \/ MoveDirectory \/ Ver1Ls
    \/ Ver1("help") /\ Leaks /\ Help

Ver2Step ==
    \/ Ver2Prompt \/ Ver2Usage \/ Ver2Mkdir \/ Ver2Rmdir \/ Ver2Rename \/ Ver2Cd \/ Ver2Ln \/ Ver2Rm
    \/ Ver2Chmod \/ Ver2Cat \/ Ver2Ls \/ Ver2Cp
    \/ Ver2("help") /\ Help

NextOfAll ==
    \/ version = "custom_shell" /\ Next /\ UNCHANGED history
    \/ version # "custom_shell" /\ (PromptFails \/ PromptOverruns \/ Quit) /\ UNCHANGED history
    \/ Ver1Step \/ Ver2Step

SpecOfAll == InitOfAll /\ [][NextOfAll]_varsOfAll

-----------------------------------------------------------------------------
\* The prompt cuts BASE_PATH off the current directory without looking, and ls
\* off what a link holds, so both must begin with it, wherever links have led the
\* user and whatever was renamed since (main.c:114-123, cmd_ls.c:36-48).  Not so in
\* a predecessor that did not get to BASE_PATH at its start, as long as it has not
\* got there: it reads beyond the end of its directory
\* (dir_manage_ver1/manage_dir.c:72, dir_manage_ver2/manage_dir.c:113).
BaseCanBeCutOff ==
    /\ shell = "prompt" /\ cwd # Gone =>
          IsValidPath(cwd) \/ (version # "custom_shell" /\ cwd = Home)
    /\ \A q \in DOMAIN fs : IsValidPath(q) /\ IsLink(q) => IsValidPath(fs[q].to)

\* Who works at a path like BASE_PATH does not get out of there: neither by cd and
\* through links, nor when the directory is renamed or removed under his feet
\* (cmd_cd.c:27-38, cmd_rename.c:6-35, cmd_rmdir.c:19-27).
DoesNotGetOut == [][IsValidPath(cwd) => IsValidPath(cwd') \/ cwd' = Gone]_varsOfAll

\* ver1 holds no more directories open than its limit (dir_manage_ver1/manage_dir.c:77).
TypeOKOfAll ==
    /\ TypeOK
    /\ version \in Versions /\ dp \in BOOLEAN
    /\ open \in 0..MaxOpen

=============================================================================
