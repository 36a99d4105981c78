# Verification of system-sw-gui-project

TLA+ models, model-checking runs and proofs for this repository. The main
program is `dir_manage_gtk`, a file manager for GTK 4 of two processes: a
**frontend** with the windows and a **backend** that does the file operations.
They talk through two System V message queues. The repository also holds a
small shell (`custom_shell`), the shell's earlier versions, and exercises on
interprocess communication.

Line references below are to files of `dir_manage_gtk/` where no directory is
named.

## 1. Inventory

### dir_manage_gtk: processes and queues

*State.* The command queue (message types 1 to 8) and the response queue (type
10), each held by the kernel under a key that `ftok` makes from a file
(`command_keyfile`, `response_keyfile`). The frontend: running, waiting inside
a `msgsnd`, or somewhere in its shutdown handler, and whether its one-second
reading timer runs. Each backend: opening its queues, waiting in `msgrcv`, at
work, or waiting to deliver its answer.

*Operations.* `main.c` forks a backend and then runs the GTK application
(`start_backend`); `send_message` and `send_favorite_message` put a request into
the command queue; the loop of the backend takes a message, does it and calls
`send_response`; `read_backend_message` reads one answer a second without
waiting; `on_application_shutdown` sends QUIT, sleeps 100 ms and removes both
queues.

*What is hard.* Nothing is synchronised except by the queues. A launch forks a
backend before GTK notices that the program runs already, so two backends may
share both queues. Both processes block in `msgsnd` when a queue is full, the
frontend inside its main loop. The removal of the queues races with a backend
at work. A killed frontend leaves queues and backend behind. An answer carries
no hint of the request it belongs to.

*What makes it correct.* Requests are taken in order and at most once; none
vanishes; each is answered at most once; answers come in the order of the
requests; a session never finds messages of an earlier one; waiting messages are
eventually read; closing the window ends; no backend is left behind; the two
sides do not block each other.

### dir_manage_gtk: file operations

*State.* The file system: directories, files with data and mode, symbolic links.

*Operations.* One branch of `main` in `backend.c` per message type: delete
(`nftw`), new folder with a number appended, rename, move (`rename`, else a
recursive copy-and-delete, `move_directory`), copy (`copy_file`), chmod, and a
favourite (a symbolic link in `/tmp/link`).

*What is hard.* Recursive walks of many calls of which any may fail; devices
between which `rename` does not work; names that are taken; links, which `stat`
follows and `nftw` with FTW_PHYS does not; a disk that fills up; source and
destination that overlap.

*What makes it correct.* No data is lost at any moment of a move; a copy leaves
its source alone; nothing outside the named paths changes; "success" means that
it was done; every command ends. Where the code does not look at the result of a
call (`fread`, `fclose`, `readdir`, the `chmod` of a copy) nothing can be promised
of what this call should have done.

### dir_manage_gtk: windows

*State.* The text of the path entry, the listed directory with its rows and the
highlighted one, `selected_file_info`, the open dialog, the list of favourites,
and pending one-shot timers (200, 300 and 100 ms).

*Operations.* The callbacks of `ui_cd.c`, `ui_manage.c` and `ui_link.c`
(navigation, selection, the five dialogs, new folder, add favourite, click on a
favourite), and in `communication.c` the timers `read_backend_message`,
`update`, `update_ui`, with `update_favorites_list`.

*What is hard.* The path of a request is put together from the *text* and the
*selected name* at the moment the dialog is answered. Both can have changed since
the list was loaded, and refreshes of several answers overlap.

*What makes it correct.* A dialog acts on the file it was opened for; text and
list name the same directory; when all is over the windows show the disk; a
request names the file the user sees selected.

### custom_shell

*State.* The disk and the current directory, which is at `BASE_PATH`
(`/tmp/test`) when the program starts.

*Operations.* A prompt loop reads a line and calls one function per command: cd,
mkdir, rmdir, rm, cp, rename, ln, ln -s, chmod, and those that show something or
act on other programs (ls, cat, help, ps, kill); a line of one word that is no
command is run as a program. A path is turned into an absolute one by its text (`convert_to_absolute`), and the
beginning of the result is compared with `BASE_PATH` (`is_valid_path`).

*What is hard.* The text of a path and the walk of the kernel must agree, while
directories are renamed and removed, also the current one, and while links that
were checked when they were made are followed later.

*What makes it correct.* Conversion and kernel agree where no link is on the way;
nothing that does not begin like `BASE_PATH` changes or is listed, and nobody gets
out of there (that nothing outside of the directory `/tmp/test` changes, as the
README says, is not so: `/tmp/test2` begins like it); the prompt finds `BASE_PATH`
at the beginning of the current directory; chmod changes what was asked for.

*Earlier versions.* `dir_manage_ver1` (six commands, an `opendir` at every
prompt) and `dir_manage_ver2` (the commands of today in one file) check paths as
the current shell does. They differ in what they do with words that are missing or
too many, with options, the umask, files that do not open and a `BASE_PATH` they
cannot go to. What holds of the current shell is asked of them, too.

### The small programs

| Component | State and operations | What is hard | Properties |
|---|---|---|---|
| `IPC/01`-`05` | a pipe, a named pipe, shared memory without and with a semaphore, a message queue, each between a parent and the child it forks | all but the pipe are named by a key or a file: runs that overlap share objects, initialise and remove them under each other, and find what a killed run has left | the child prints the whole text; nothing is left behind; nobody waits in vain |
| `ipc_test` | `Listener` waits for SIGUSR1 and answers in shared memory, `Client` writes, signals, sleeps, reads and removes; `send_message` and `receive_message` share a queue that nobody removes | a signal before `sigsuspend` is lost, one before `signal` kills; two seconds may be too short; programs that run at the same time write over each other and remove the segment; the queue fills up | a heard Client is answered, unless another comes in between; every message that was sent is received once |
| `virtual_container` | a TCP server that greets and closes, its clients | the kernel connects before the server accepts; either side may be killed; a restarted server meets a port in use | who got through is greeted |
| `practice` | single system calls | – | – |

## 2. Modules

| Module | Models | Composition |
|---|---|---|
| `MessageQueue` | a System V queue as the program uses it: opened, sent to, received from, removed (external) | extended by `FileManager` and `IpcTest` |
| `FileManager` | both processes, both queues and their faults: `main.c`, `communication.c`, the senders, `backend.c` without the operations | composes frontend, backends and queues; implements `RequestLifecycle` |
| `RequestLifecycle` | what the queues promise to a request: unmade, queued, taken, answered, shown; over or lost | abstract specification |
| `FileManagerProofs` | theorems about `FileManager`: commands | |
| `FileManagerReplies` | theorems about `FileManager`: answers, sessions, refinement | extends `FileManagerProofs` |
| `BackendOps` | what one command does to the files, a system call at a time | the step `working` of `FileManager`, seen from near |
| `BackendApart` | the commands whose paths are apart, and the invariants that hold all through a walk | extends `BackendOps` |
| `BackendOpsProofs` | theorems about `BackendOps` | extends `BackendApart` |
| `FileBrowser` | the windows, their dialogs and timers | requests and answers are two sequences, an operation is a single step |
| `FileBrowserProofs` | theorems about `FileBrowser` | |
| `Shell` | `custom_shell`: loop, conversion and check of paths, the commands | extended by `ShellVersions` |
| `PathLemmas` | facts about sequences of names: prefixes, the rest behind them, `Front` and `Last` | used by the proofs about paths |
| `ShellVersions` | `dir_manage_ver1` and `dir_manage_ver2` beside the current shell | its steps are those of `Shell` where the checks and calls are the same |
| `ShellProofs` | theorems about `ShellVersions` and `Shell` | |
| `ParentChild` | the five demonstrations in `IPC/`, any number of overlapping runs | extended by `Exercises` |
| `ParentChildProofs` | theorems about `ParentChild` | |
| `IpcTest` | `ipc_test/`: signal handshake and mail queue | instantiated by `Exercises` |
| `Tcp` | `virtual_container/`: server, accept queue, clients | instantiated by `Exercises` |
| `Exercises` | the user picks one of the small programs | `ParentChild`, `IpcTest`, `Tcp`, which share nothing |
| `ExercisesProofs` | theorems about `IpcTest`, `Tcp` and `Exercises` | extends `ParentChildProofs` |
| `Maps` | `Put` and `Over`: functions with one or more entries replaced | extended by the modules with a disk |
| `Trees` | `Below`, `Rebased`, `Moved`: what is below a directory, and `rename` of it (external) | extended by `BackendOps`, `FileBrowser` and `Shell` |
| `MC...` | constants for TLC | |

### FileManager

`gui` is the place of the frontend: `sending` and `quitting` are waits in
`msgsnd` (communication.c:30, ui_manage.c:222), `sleeping` is the `usleep` and
`cleaning` what follows it. `pc[b]` is the place of backend `b`, where
`"success"` and `"failed"` stand for being inside `send_response` with that text.
A queue is a record of its messages, whether it exists, and the processes whose
`msqid` is of *this* queue: after IPC_RMID a backend keeps an identifier that no
longer means anything, and a new queue under the same key does not help it. Its
loop then repeats a failing `msgrcv` for ever, which is no step of the model.
`polling` is the timer of `start_backend_check`. The other variables are ghosts:
numbers of the messages accepted (`sent`), taken (`log`), removed with a queue
(`lost`), read as answers (`answers`) and the number of the session.

The actions are the functions of the code: `SendMessage`, `SendBlocks`,
`SendResumes` and `SendFails` are the outcomes of `send_message` (room, no room,
room at last, no key file); `Shutdown`, `QuitResumes`, `RemoveCommandQueue` and
`RemoveResponseQueue` are the shutdown handler cut where other processes can act;
`Receive` to `ResponseUndeliverable` are the backend's loop. `SendFails` may end
the frontend: the caller frees its string a second time.

`RemoveCommandQueue` assumes that a process that waits in `msgrcv` gets to run
within the 100 ms for which the handler sleeps. The fault `lateWakeup` drops that
assumption. The other faults: a start that fails, a second launch, a killed
frontend, a killed backend, and a command that arrives *mangled* (cut at 255
bytes or split at a `$` in a name), which ends without an answer, or ends the
backend when it frees what `dirname` returned (backend.c:364).

`MutuallyBlocked` is the block of communication.c:30 against backend.c:73: the
frontend waits in `msgsnd`, both queues are full, and every backend waits in
`send_response`. The liveness properties say what happens *unless* this is so for
good (`BlockedForGood`), and `FreezeEnds` that it can be.

### BackendOps

`fs` maps paths, which are sequences of names, to nodes. The recursion of
`move_directory` and `copy_file` is a stack of frames; `at` is the place in the
function, `left` the entries `readdir` has still to give, in any order. Path
resolution, `rename`, `mkdir`, `fopen` and `stat` are external operators written
from how the code uses them. Faults that the code sees: a call fails (`deny`), or
the disk is full in `fwrite` (`write`). Faults that it does not look at: the
`mkdir` of the two walks fails (`nodir`); `fread`, `fclose` or `readdir` fails and
is taken for the end (`read`: `CopyShort`, `StopReading`; backend.c:99, 139,
148-149, 176, 185-186, 203); the `chmod` of a copy fails (`mode`: `CopyKeepsMode`;
backend.c:189). The ghost `unseen` notes which call has failed unseen and of which
source. At last, the path of an entry may not fit into its buffer, and `snprintf`
cuts it (`cut`, `Joined`); without this fault a path that is too long is an error
of the call it is given to. A command starts in one of the `Cases` and runs to its
reply.

The loop of mkdir (backend.c:307-325) is `MkdirAttempt`, one round of it, and
`MkdirGivesUp` after eleven. `try` holds its two variables: the digit at the end of
`file`, and `count`, which is one ahead of it after the first round: the name with 0
is tried twice.

`BackendApart` names the commands for which the code keeps what it promises
(`Apart`). Left out are, of moves, those of a directory into itself and of an entry
to the place of a directory it is in; of copies, those onto the source, onto a directory
that the source is in, or into an entry that the source has; and paths that lead through a
link, except the source of a copy or of a favourite: there the kernel acts on
another entry than the one that is named. It also leaves out the fault `cut`
(`UncutAssumption`), with which a walk may enter the same directory again without
end (see section 3): no run and no theorem speaks of such paths.

`Progress` says how far a command is. `Stages` and `left` order the places of one
call (`FurtherOn`); `Past` compares two stacks from the outermost call inwards: the
first call in which they differ has returned or is further on, and calls it has
made since do not count.

### FileBrowser

The view (text, list, rows, highlight), the selection in `selected_file_info`,
one modal dialog, the counters of pending timers, and the disk, on which
`Serve` carries out the oldest request. `session` is what may happen in a session:
the favourites at its start, the paths the user types, the number of requests,
and whether operations may stop half-way. `ServeHalf` is an operation that stops
half-way and answers "failed", and is possible only where `session.halves` holds. The
behaviour of GTK's own widgets is external: the selection model keeps its row
when it is still there and otherwise picks another, without a signal, and the
directory list may notice changes by itself.

### Shell

`fs` maps paths to nodes with an inode, so that a hard link is a second path to
the same data and mode. `Trees` is what the disk may be at the start, without
links and second names that join the inside of `BASE_PATH` to the outside, which
no command could tell from its own; elsewhere it may hold any. `Walk` is the kernel's resolution (external), with links,
`.` and `..`: up to `MaxSteps` times `OneStep`. `ConvertToAbsolute` is the loop over
`strtok` (`Normal`, a recursive function over the names of the path, of which
`Names` are all there may be). A `Straight` path is one on whose way there is
neither a link nor the root of the disk, where kernel and text take `..` differently. `ReadLine` reads a command and one action carries it out; each
action makes the check of its function and the system call with the conditions
under which it succeeds. `cwd` is what `getcwd` gives: it moves along when a
directory above it is renamed, and is `Gone` when it has been removed, which ends
the program at the next prompt (`PromptFails`). `LikeBase` holds the names that
begin with the last name of `BASE_PATH`: `is_valid_path` compares text without
looking for a separator. `shown` is what `cat` or `ls` has shown: inodes, since
the layout does not matter. `Run` is the `execve` of a file inside; the shell
waits for it whether it could be executed or not.

A line holds a command, up to two paths, what chmod and mkdir are given, and
whether more words follow. Commands that use `getopt` (mkdir, ln, ls) ignore further
words and take a word that begins with `-` for an option (`Options`); the others count
their words and explain their use (`Misused`). `Umask` is taken from the mode of what
`fopen` makes; the mkdir of the current shell sets it to 0 and does a chmod
(cmd_mkdir.c:45-55).

### ShellVersions

`version` says which of the three programs runs. An action of a predecessor is
the action of `Shell` where the checks and calls are the same, together with what
is its own. Version 1 takes the words it wants and leaves the rest (an option is a
path like any other), and a missing one is NULL to `strlen`; version 2 counts its
words, and only its ln knows an option, so that `ln -s a` makes a hard link of `-s`.
The mkdir of both obeys the umask (`MakesDir`). A file that does not open is closed
all the same in version 2 (manage_dir.c:638). `ls` lists the current directory in
both, through a buffer of 100 bytes (`LsRoom`). `open` and `dp` are the directories
version 1 holds open: a prompt opens one, after an empty line too (`Ver1EmptyLine`),
`continue` passes over `closedir` (manage_dir.c:92-119), and past the limit `MaxOpen`
`ls` reads a NULL stream. Both do not look at the result of their second `chdir`:
where `BASE_PATH` is a file they prompt where they were started, `Home`, and read
beyond the end of its path, which may crash (`PromptOverruns`).

### ParentChild

`demo` is the demonstration, `parent[r]` and `child[r]` the places of run `r`
between two of its calls. `named` is what a key or a file name leads to, `ids`
what each run has got; the two part when another run removes an object.
Objects are numbers that are never used again; `Init` lets a killed run have left
any of them, with any text or count. A `strcpy` is two steps (`WriteBegins`,
`WriteEnds`), since the bare shared memory of 03 may be read in between. `Kill`
kills one process anywhere, or `Fork` fails, once.

### IpcTest, Tcp and Exercises

`Signal` does what SIGUSR1 does to Listener by its place: ends it without a
handler, is lost before `sigsuspend`, wakes it, or breaks off its last `sleep`.
Any number of Listeners and Clients run at the same time: nothing in the code keeps
them from it. A Client knows any Listener that runs, a `strcpy` to the segment is two
steps, one for each half of the text (`Writes`), and a segment whose removal was asked
for stays as long as somebody is attached (`Exists`). Two seconds are enough for the
answer unless `MayBeLate`. The ghosts name what `TalkIsAnswered` has to except: `woke`
which Client has woken which Listener, `since` who else has written where a Client has
since it did, `late` the Clients that read before the answer was there. In `Tcp` the kernel's part is
external: a connection is complete before `accept`, `held` are the connections
that keep the port from a new `bind`, and a killed server resets what it had not
accepted. `Exercises` picks a program: a demonstration, Listener and Client, the mail
queue, or the containers; Listener and the mail queue of `ipc_test/` share nothing, so
that their states need not be multiplied.

## 3. Runs

A run takes between a second and a few minutes. Deadlock is not checked
anywhere: a session may be over for good, a command ends, and the user may stop.

| Run | Question | Instance |
|---|---|---|
| `FileManager_session` | What does a session do and leave behind when nothing is injected? Types, foreign messages, order of answers, and liveness | two backends (one per session, or an old one and a new one), command queue 2, response queue 1, 5 commands |
| `FileManager_faults` | Do order, conservation and the life cycle survive every fault? | two backends, queues of 2 and 1, 4 commands, all faults, backends symmetric |
| `FileManager_orphan` | Is a backend at work ended with the window? *No.* | one backend, queues of 2, 2 commands |
| `FileManager_freeze` | Does a blocked window come back? *No.* | one backend, both queues 1, 4 commands |
| `BackendOps_commands` | Do the seven commands what they say, whatever fails, does each step bring them nearer to their end, and do they end? | eight trees of up to 20 entries, two devices, every command of each kind; all of them `Apart` |
| `BackendOps_inside` | Does a move into itself keep the data? *No.* | one tree and one command |
| `Shell_session` | Do paths mean what the kernel takes them for, and do commands, and the user, stay at what begins like `BASE_PATH`, in the current shell and in its predecessors? | three commands of custom_shell or two of a predecessor, 13 kinds on 13 paths, with options, missing and extra words; disk with, without, and with a file in place of `/tmp/test`, with `/tmp/test2` beside it |
| `Shell_beside` | Does what is outside of `/tmp/test` stay as it is? *No.* | cd, mkdir and rmdir, with `/tmp/test2` |
| `Shell_cat` | Does `cat` read the file it has checked? *No.* | `cat` and `cd` |
| `FileBrowser_windows` | Do dialogs, text and list stay together, and do overlapping refreshes end with the disk on display? | sessions with one request of any operation and half-way failures, and sessions with two overlapping requests |
| `FileBrowser_wrongfile` | Does a request name the selected file? *Not always.* | one request |
| `Exercises` | Do the small programs get their texts, messages and greetings across, clean up, and wait for nothing that does not come? | three overlapping runs of each demonstration after a killed one; two Clients and two Listeners at the same time; three messages for a queue of one; four visitors, accept queue of 1 + 1, two starts of the server; one process killed anywhere |

*Why these bounds.* A queue holds 64 messages with the usual limits; what
matters is that both limits are reached together and separately. With capacities of 2
and 1, four commands fill both queues and a backend, and a fifth one, or the QUIT of a
closing window, blocks both sides; the five commands of `FileManager_session`
therefore go past this block, which is reached in
`sending` and in `quitting`. The properties hold there because they except it by name,
and `FreezeBudget` in `FileManager_faults` says what it takes. Without faults `chmod`
has every outcome an operation can have in `FileManager`, and with them `move`, so that
one operation stands for all. Two backends are the least
that can share a queue or meet across sessions. In `BackendOps`, the trees have a
directory with files, an empty directory inside, links to a file, to a directory
and to nothing, taken names on both devices, and sets of numbered folders from
empty to full, so that each branch of the code, each error return and each of the
eleven rounds of mkdir is taken, and each call whose result is not looked at fails;
`PathMax` stands for PATH_MAX, counted in names, and ends the copy of a directory
into itself, as ENAMETOOLONG does. In `FileBrowser`, two requests are needed for two refreshes to
overlap; a directory `d` with an entry of the same name `a` as its parent has is
the least in which a request can name the wrong file.

In `Shell`, a link can be made, the
directory it leads to renamed or removed, and a third command go through it, with
three commands; paths are relative and absolute, with `.` and `..` and through a
link. Beside `test` there is a directory `test2`, which `is_valid_path` lets through. A
predecessor gets two commands: what it does on its own (missing and extra words,
options, files that do not open, one leaked directory with `MaxOpen` 1) takes no
more. In `Exercises` the third run is what it takes for a run to find the memory
of one and the semaphore of another; the accept queue holds two visitors, so that
with one being served a fourth one has to wait at the door. Two Clients and two
Listeners are what it takes for one to write over the text of another, and for a
Client to find the segment of a later Listener.

Moves of a directory into itself and copies of a file onto itself are left out of
`BackendOps_commands`, which otherwise takes every pair of source and place: the
former have a run of their own, the latter are told at the end of this section. Moves
of trees with links across devices are left out too (see 6).

### Fairness

`FileManager`: weak fairness of each backend's start and of its loop (a process
that can run runs, and a call of the kernel that can return does), of the timer,
of both blocked `msgsnd`, and of the shutdown handler once begun. GTK's main loop
runs its timers; `ReadBackendMessage` is disabled while the loop is blocked, as
in the code. Nothing is assumed of the user, who need never send nor close, nor
of the faults. `BackendOps`: the backend does not stop in the middle of a
command. `FileBrowser`: the backend and the timers go on; GTK's own watching of
the directory, failures and the user are not assumed. `Shell` and the small
programs state no fairness: what must not wait for ever there
(`NobodyWaitsInVain`) is stated as the absence of states in which something runs
and nothing can go on, which is enough for programs without a loop. What a process
waits for is written down call by call (`ParentWaits`, `ChildWaits`, `CanGoOn`).

### What the runs show

*Holds.* However many backends share the queues and whoever dies, requests are
taken in the order they were made (`TakenInOrder`), none vanishes but by the
removal of its queue (`NothingVanishes`), and each is answered at most once
(`OneReplyPerCommand`). After an orderly end the next session finds nothing of
the last (`RepliesAreOurs`), even with an old backend still at work, because the
response queue it would answer to has gone. Mutual blocking takes as many commands as both queues and the stuck backends hold (`FreezeBudget`); unless it
happens, commands are taken, answers are sent and shown, and closing ends. During a
move between separate places the data of every file is whole at one of its two
places at every moment, also when a call fails whose result is looked at, or the disk is
full in `fwrite` (`MoveLosesNothing`). It is not so of a file of which `fread`, `fclose`
or `readdir` fails: the code takes this for the end and deletes the source. Both
outcomes are in the run, and the property leaves out these files and no others
(`ReadWhole`). Deleting never follows a link (`OthersUntouched`). A copy
of a directory into itself ends and leaves the original whole. Dialogs are modal
and the timers touch neither text nor selection, so a dialog keeps its file
(`DialogKeepsItsFile`). Overlapping refreshes converge (`IdleShowsDisk`), and a
list that was emptied for a refresh comes back (`ListComesBack`). "success" is
said only of what was done as a whole (`SuccessMeansDone`), with the same exception
and one for the permissions of a copy whose `chmod` has failed (`ModeSet`). The eleven
rounds of mkdir, of which the first two try the same name, miss none of the ten
(`MkdirNumbers`). Every step of a command
brings it nearer to its end, and a walk is never deeper than a path is long
(`WalkAdvances`).

No series of commands brings the shell, or a predecessor, to change or list anything
whose path does not begin like `BASE_PATH` (`ChangesOnlyLikeBase`, `ShowsOnlyLikeBase`;
what is left out of the latter is a `cat` of an absolute path, through a link or past
the root, and a predecessor that never got to `BASE_PATH`), and who works there does
not get out (`DoesNotGetOut`). So neither the prompt nor `ls` cuts beyond the end
(`BaseCanBeCutOff`), with one exception: a predecessor that found a file in the place
of `/tmp/test` prompts where it was started, and does read beyond the end
(dir_manage_ver1/manage_dir.c:72, dir_manage_ver2/manage_dir.c:113). This is an error
of the code that needs no run of its own.

A semaphore that is set to 0 before the fork is enough: no child of 04 reads what
was not written, whatever an earlier run has left and however many runs overlap,
as long as memory and semaphore are those of one run (`SaysWhatWasWritten`).
Two keys make a trap, though: a run may find the memory of a run that removes it
next, and then make or find another semaphore than that run's, so that two runs meet
at one semaphore with two memories (`Confused`). Such runs may wait for a signal
that was taken back, and their children may read too early; the properties leave
them out and say so. A Listener that was woken prints what Clients have written, and
the Client that woke it gets the answer (`TalkIsAnswered`), except where others come
in between: a second Client writes over the answer before the first has read it, a
Listener finds the answer of another one, the two seconds are not enough, or a Client
removes the segment before the other one has come, which then gets a new one.
`CleanedUp`, `NobodyWaitsInVain`, `MailIsKept` and `VisitorsAreGreeted` hold as they are
stated.

*Does not hold* (each a run that fails and a finding):

- `FileManager_orphan`: the window is closed while the backend is at work; QUIT is
  sent and, 100 ms later, removed with its queue; the backend then spins on EIDRM
  (ui_manage.c:224; README.md:62 of the repository).
- `FileManager_freeze`: with both queues full each side waits for the other
  (communication.c:30, backend.c:73; README.md:6).
- `BackendOps_inside`: a directory moved into itself is lost (backend.c:120). The
  same line loses part of a directory `d/d` that is moved to the place of its own
  parent `d` and has a directory `d` in it: what `d/d/d` holds comes to `d/d`,
  which is then deleted.
- `Shell_cat`: `cat` checks the converted path and opens what was typed, so that
  `cat /f` looks for `/f` of the machine (cmd_cat.c:14; README.md:122).
- `Shell_beside`: `is_valid_path` wants no `/` behind `BASE_PATH`, so that `mkdir
  ../test2/d` makes a directory outside of `/tmp/test` (path_utils.c:51; README.md:3,
  40, 121 and 127 say that nobody gets there).
- `FileBrowser_wrongfile`: the text may have been edited, or the selection may be
  of an earlier directory (ui_cd.c:134).

Differences between code and documents that need no run, since they can be read
off a line or two: a file that is copied to where it is, directly or by a link, is
truncated before it is read, and the answer is success (backend.c:168; README.md:80); an empty directory moved to a name that a file has is lost and
reported as success (backend.c:96; README.md:79), and so is data that only
`fread`, `fclose` or `readdir` would report as lost (backend.c:99, 139, 148-149; README.md:79) and a
mode that `chmod` could not set (backend.c:189; README.md:80); the failures of delete, new folder and rename are not answered
(backend.c:294, 320, 332; README.md:83); the first new folder has a number
already (backend.c:307; README.md:77); the path of an entry of a directory whose own path is 4094 or 4095 bytes long is cut
to that of the directory, which the walk then enters again, without end
(backend.c:108 and 210; the comment at 105 speaks of whole paths; it takes a
directory that was made by a relative name); the mode of a copied *directory* is masked
by the umask (backend.c:200; README.md:80); what is unlinked to make room for a
favourite may be a regular file (backend.c:424); a failed operation that has
changed something does not refresh the windows (communication.c:93). In the shell,
a `cd` out of `/tmp/test` is refused and the directory stays what it was
(cmd_cd.c:37), where README.md:358 shows it stopping at the top.

## 4. Theorems

A theorem holds for every value of the constants that meets the assumptions of
the module; TLC evaluates these assumptions in every run. They say what the code
justifies: capacities and bounds are numbers, names and paths are what the file
system allows, `Trees` are trees, and the commands of the backend are those whose
paths are apart and are not cut (what becomes of the others is a finding, or told
at the end of section 3, and not a premise that could be dropped). Each theorem rests on an inductive invariant,
and each of these goes through the actions of its next-state relation one by one,
with a step for each part that the action can disturb.

### The queues: `FileManagerProofs`, `FileManagerReplies`

For every finite set of backends, all capacities of at least one, every number of
commands, all sets of operations and all faults:

| Theorem | Property |
|---|---|
| `TypeCorrect` | `TypeOK`: types, and neither queue exceeds its capacity |
| `OrderOfCommands` | `TakenInOrder` |
| `Conservation` | `NothingVanishes` |
| `FreezeTakesMany` | `FreezeBudget` |
| `OneAnswerEach` | `OneReplyPerCommand` |
| `OrderOfAnswers` | `AnswersInOrder` |
| `SessionsApart` | `RepliesAreOurs`, where no frontend is killed (`"kill" \notin Faults`); every other fault is allowed |
| `Refinement` | `ImplementsLifecycle`: every step of the program is one of `RequestLifecycle`, or none |

*The argument.* A few lemmas say what `Opened`, `Sent` and `Received` do to the
messages and the identifiers of a queue. `MessageInv` is `TypeOK` with two facts
that need each other: the identifiers taken so far followed by those that wait
are in increasing order, and together with the lost ones they are exactly
`1..sent`, apart from each other. The order alone is not inductive: that a new
message is greater than all before it follows from all of them being at most
`sent`, and that the lost ones stay apart from those taken needs the order.
`Budget` says that `sent` is at least the number of messages in both queues and
of the busy backends together: accepting a command raises both sides, taking one
moves it from the queue to a busy backend, answering moves it back, and
everything else can only lower the right side. `FreezeBudget` follows, because
when both sides are blocked both queues are full and every stuck backend is busy.

For the answers, `Kinds` first sorts the some thirty actions into ten kinds of
step by what they do to commands, work and answers (`Reads`, `Replies`,
`TakesUp`, ...); the invariants are then kept kind by kind. `ReplyInv` adds to
`MessageInv` that no identifier is answered twice, that every answered one was
taken, and that what a busy backend works on is taken, not answered, and nobody
else's: the last two are what makes the first inductive. `OrderInv` adds that
the only user of the response queue works on a command younger than all its
answers, and that a queue without users is empty. `SessionInv` says that the
messages in both queues, and the work of backends that could still answer, are
of the running session, and that between two sessions both queues are empty; the
order in which the shutdown handler removes them, and that it comes to its end,
is what keeps it. The refinement maps a request to the place where it is (`PhaseByPlace`: in the
queue, with a backend, in the response queue, among the answers, lost, or in none
of them); every kind of step moves requests between these places as
`RequestLifecycle` allows.

### The files: `BackendOpsProofs`

For all trees, names, mounts, lengths of a path, all faults but `cut` (those the code
does not look at included), and every command that is `Apart`:

| Theorem | Property |
|---|---|
| `CommandsAreSafe` | the inductive invariant `BackendInv` |
| `FilesAreTree` | `TypeOK`: the files stay a tree, types |
| `MovesLoseNothing` | `MoveLosesNothing`, which excepts the files that a read has missed unseen |
| `CopiesLeaveSource` | `CopyLeavesSource` |
| `CommandsTouchArguments` | `OthersUntouched` |
| `SuccessIsDone` | `SuccessMeansDone`, with the same exception, and that of a mode that chmod could not set |
| `MkdirIsNumbered` | `MkdirNumbers`: the eleven rounds find the least free digit |

| `CommandsAdvanceAlways` | `WalkAdvances` |

*The argument.* That a move loses nothing is not inductive: when the source
directory is removed, everything below it has to be in its new place, and that
depends on each entry of each directory that was read. `WalkInv` says it by the
stack. `FrameFits`: every call is at a place below its caller's, at an entry that
the caller has taken from its list, and its destination is where that place goes
to (`AtDest`). `Progress`: a file below a directory that is being read is
untouched if it is in an entry that is still in the list, and otherwise whole in
its new place or below the place of the inner call, which answers for it; before its
loop a call has everything still to do, and a call that removes has nothing
left to do. When an inner call returns "ok", all it answered for is whole, so
that its caller's loop can go on; after "err" nobody answers for anything, and
every call returns "err".

A file of which a read failed unseen drops out of what calls answer for (`Files`): the
ghost `unseen` only grows, so that nothing said of the others is lost by it. For mkdir,
`MkdirRounds`, a part of `BackendInv`, says that the digit at the end of the name is one
less than `count` (it is 0 when `count` is 0 or the attempts are used up), and that the
names with the digits from 1 to it were taken when the command began; a success is
therefore at the least free one.

The rest follows from what one step can reach (`Reach`): the destination of the innermost
call, or what is below its source. Since source and destination are apart
(`MoveIsApart`, `CopyIsApart`) and no two entries go to the same place
(`EachToItsPlace`), it reaches no file that another call answers for
(`WaitingStays`, `NotReached`) and nothing outside of the arguments. So
`WalkKeeps`, `WalkGoesOn` and `WalkReturns` are shown once for all steps, and for each action
it remains to say what it reaches and what its frame has done then.

That a path leads where it says is part of this: `Place` is a loop over names, and
`StraightPlace` follows it while there is no link on the way. The commands make
links only as their last step (`LinksAreOld`), so that paths without links stay so.
`MovedIsTree` says what `rename` makes of a tree, and `DoneWhenOk` carries what
the outermost call has done to the answer.

`WalkAdvances` is the safety half of `CommandEnds`, for every tree. It takes
`DepthInv` beside `BackendInv`: each call is one name deeper than its caller, and a
directory that is read has a path that fits, so that there are at most
`PathMax + 1` calls. (Without a bound on its length a stack could be past the one
before for ever.) Then each action lets one call go on or return and leaves its callers as they are
(`ReturnsAdvance`, `DescendAdvances` and the lemmas beside them); `Resume` takes
the result of a call that has returned, and `Finish` ends the command. The
delete of a tree goes on by removing entries. The step from here to termination
is the usual one and not in the proof, since it is an induction: `FurtherOn` is
well-founded, because the stages of a call are finitely many and `left` is a finite set,
so that `Past` is well-founded on stacks of bounded length, as a lexicographic
order; a result is taken once per return, and a finite tree shrinks only finitely
often. That the walk does not stand still is left to fairness.

### The windows: `FileBrowserProofs`

For all trees, names, sessions and numbers of requests:

| Theorem | Property |
|---|---|
| `TypeCorrect` | `TypeOK`: types, and no refresh without a success or a click |
| `DialogsKeepTheirFiles` | `DialogKeepsItsFile` |
| `TheTextIsTrue` | `TextNamesList` |
| `SomebodyReads` | `AnswersAreRead` |
| `ShownWhenIdle` | `IdleShowsDisk` |

*The argument.* `TypeInv` counts: requests and answers on their way and timers
that have not fired are together at most the requests that were made. It needs
what every request looks like (a name at the end of its destination), since the
disk is to stay a tree. `DialogKeepsItsFile` and `TextNamesList` hold because no
timer touches text or selection, which has to be shown of each of the callbacks.
`ShownInv` is the reason why overlapping refreshes converge: whatever the
windows do not show yet is on its way, as a success that is still to be read, as
an `update` that waits, or as its second half `update_ui` (`ListShown`,
`FavsShown`). Each of the three becomes the next before it is gone; when none is
left, the windows show the disk.

### custom_shell: `PathLemmas`, `ShellProofs`

For every disk with a directory `/tmp` on which, at the start, no link leads from
the paths that begin like `BASE_PATH` to others and no file has names of both
kinds, any names, any lines the user may type and any number of them, for the
current shell and both predecessors:

| Theorem | Property |
|---|---|
| `InvariantOfAll` | the inductive invariant `InvOfAll` |
| `TypeCorrect` | `TypeOKOfAll` |
| `BaseIsCutOffSafely` | `BaseCanBeCutOff`, which excepts a predecessor that has not got to `BASE_PATH` |
| `ChangesOnlyWhatIsLikeBase` | `ChangesOnlyLikeBase` |
| `ChangesOnlyTestAlone` | `ChangesOnlyTest`, if no other name begins like the last of `BASE_PATH` (`LikeBase = {"test"}`) |
| `NobodyGetsOut` | `DoesNotGetOut` |
| `ShowsOnlyWhatIsLikeBase` | `ShowsOnlyLikeBase` |
| `ResolvesAsTheKernelDoes` | `ResolvesLikeKernel` |
| `ChangesTheModeAsAsked` | `ChmodDoesAsAsked` |

*The argument.* Inside means here: at paths that begin like `BASE_PATH`, which is what
the check lets through. That the checks keep everything inside is not visible in a
single command: such a path may lead through links. The
invariant is therefore about the whole disk. `GoodTree` says that it is a tree,
that `/tmp` is a directory and every link inside holds a path that begins like
`BASE_PATH` (`LinksInside`), that no file has names on both sides (`Separate`),
and that the inodes in use are below those that are given out next. Then `WalkStaysInside`: a walk from the root along a path
that has passed the check, whose names hold no `..` (`NormalIsClean`), goes down
inside and never comes out, since a link only sends it to another such path. So
everything a command makes, removes or renames is inside; what it makes keeps
`LinksInside` because `ln -s` stores the checked path, and `Separate` because `ln` and `rename`
check both of their paths. The tree operations have lemmas of their own
(`NewEntry`, `EntryTakenAway`, `MovedIsGood` for a directory that is renamed with
everything below it). `WhereItIs` says that the current directory is inside, at
home, or gone, and `GotThere` that custom_shell, which looks at its second `chdir`, is
not at home. A step that changes the current directory leads inside (`GoesInside`),
which gives `DoesNotGetOut`. `ChangesOnlyTestAlone` follows from `OutsideKept` and
`BelowBase`: where `test` is the only name that begins like the last of `BASE_PATH`, a
path that begins like it is below it.

`ResolvesLikeKernel` compares two loops, over the names of a path and over the
steps of a walk; `KernelAgrees` follows both at once, name by name: while no link
and not the root has been met the walk is at the normal form of what it has
read, or it has failed for good. The two differ at `..`: `strrchr` never removes
the first name, the kernel goes up to the root. The library's theorems on
induction cannot be used here (they take an operator as a parameter), so the
lemmas about loops (`StepsStayIn`, `StepsExist`) take a least counterexample
from the well-foundedness of `<` on the numbers.

`EarlierStep` shows of each action of a predecessor that it is one of `Shell`'s commands
or of their like (`Carries`), a death that leaves the disk alone, or the listing of the
current directory.

### The small programs: `ParentChildProofs`, `ExercisesProofs`

For every set of numbered runs of a demonstration, every bound of the kernel's
objects, everything a killed run may have left, and with or without a process
that is killed; for any number of Clients, Listeners, receivers and visitors, and
any capacity:

| Theorem | Property |
|---|---|
| `ParentChildProofs!TypeCorrect` | `TypeOK`: types, and every identifier in use is that of an object that was made |
| `ChildrenSayIt` | `SaysWhatWasWritten` |
| `NothingIsLeft` | `CleanedUp` |
| `ProgramsTypeCorrect` | `TypesOK` |
| `ClientsAreAnswered` | `TalkIsAnswered`: any number of Listeners and Clients at the same time, with the exceptions named there |
| `MessagesAreKept` | `MailIsKept` |
| `VisitorsGreeted` | `VisitorsAreGreeted` |
| `SomebodyGoesOn` | `NobodyWaitsInVain` |
| `DemonstrationsKept` | `SaysWhatWasWritten`, `CleanedUp`, `NobodyWaitsInVain` of `Exercises` |

*The argument.* The types are not inductive alone: that a child's text is one of
`Texts` needs its identifier to be that of an object, so `TypeInv` adds `Placed`,
which says by the place of a process what its run has got. For the pipes,
`PipesInv` follows the one writer of each pipe: a parent that is done has written,
and texts never get less whole. For the semaphore, `SignalsInv` says that a
positive value means that some run at it has written its text (`Told`), or that no
run has initialised it (`Raw`): then the value is a leftover, and SETVAL takes it
away before any child is forked, which is why a leftover signal does no harm.
`Told` is kept by every step because identifiers and whole texts stay, `Raw` until
somebody initialises, and from then on the value is 0 until a V, which makes it
`Told`. A child that has passed the semaphore therefore finds a run that has
written; it is at the child's own memory unless the two are `Confused`.
`CleanInv` gives every key that leads to an object a run that will remove it
(`Cleans`), as long as nothing has failed or been killed; such a run stops being one only
when it removes the object. When all runs have ended well there is no such run, so
no key leads to anything.

`WaitInv` is about what the waiting processes wait for, while nobody has been killed.
`WaitsAt` ties the places of parent and child of a run to each other: a parent waits
only for a child that was forked, and a child at a pipe has a parent that will
write. `SignalThere` says that a semaphore at which all have signalled and none has
passed has a value, `MessageThere` the same of a queue to which somebody has sent
and from which nobody has received. Were nobody able to go on, every parent that runs
would wait for a child that waits. At a pipe that is a contradiction within one run.
At a semaphore all runs that share it would have signalled and none of
their children passed, and at a queue one would have sent and none received, so
that some child has what it waits for. Both facts speak of all runs at an object:
of one run alone they are false, since its signal may go to the child of another.

`TalkInv` follows any number of Listeners and Clients at once. By its place,
`ListenerAt` says that a Listener has a segment, which the key names unless it is gone,
and `ClientAt` that each half a Client has written holds its text unless a Listener has
written since: `since` names who may have. `Joined` ties a Client to the Listener whose
pid it has read: the segment is the same, or the two are apart. `WokenAt` is about a
Client and the Listener it has woken, by the Listener's place: not yet answered, the
segment of both holds what the Client wrote, or the ghost says who has come in between
(`Heard`); answered, it holds the answer, or another Client is in `since` (`Answered`,
`AnswerAt`). If their segments differ, a Client that has ended has removed the
Listener's (`Gone`, `Apart`): nothing else takes a key from its segment. That a half is
written by one step of one process, and what this does to what is said of all the
others, is `WritesHalf`; steps of processes at another segment leave it alone
(`ApartStays`).
`MailInv` numbers the messages: those
received and those that wait are together one row. `TcpInv` says that a
connection is in one place only (waiting at the port, with the server, or with
something to read), by the place of the server. `PickedParts` carries all of this
over to `Exercises`, whose behaviours are behaviours of each of the programs. 

### What is only model-checked

- Liveness (`EveryCommandTaken`, `EveryAnswerSent`, `EveryAnswerShown`,
  `ClosingEnds`, `CommandEnds`, `ListComesBack`), which is outside of the prover's
  reach. Of `CommandEnds` the variant is proved (`CommandsAdvanceAlways`); that it
  is well-founded is an argument by induction, given above.
- That `ParentWaits`, `ChildWaits` and `CanGoOn`, by which `NobodyWaitsInVain` says who
  waits for what, are what the actions say: they are written beside the guards, call by
  call, and are read off the code in the same way.
- That the inductive invariants are strong enough is proved; that they
  are not empty is shown by TLC, which reaches every action and every disjunct of each
  next-state relation, and has checked `BackendInv` and the others on the instances of
  the runs.

## 5. Plan

1. `FileManager` with queues, faults and life cycle; `BackendOps`;
   `FileBrowser`. *Done.*
2. `Shell`: the prompt loop and the commands as steps on a tree, `run`, `ls` and
   `cat`; `ShellVersions`. *Done.*
3. `ParentChild`, `IpcTest`, `Tcp` and `Exercises`. *Done.*
4. Proofs of all safety properties of `FileManager`, `BackendOps`, `FileBrowser`,
   `ShellVersions` and `Exercises`, and of the refinement of `RequestLifecycle`.
   *Done.*
5. The walks come nearer to their end with every step, and overlapping runs of a
   demonstration never wait for each other in vain: stated without ENABLED and
   proved. *Done.*
6. Left: a path that is cut in the middle of a name; fairness of the small programs,
   with termination of each run under it as a property.

## 6. Not modelled

- Contents of widgets, formatting of list rows (`ui_list.c`, `column.ui`), and
  the editor started for text files (ui_cd.c:76-117): no state that anything else
  depends on.
- Which other file a mangled command may name. In `FileManager` such a command
  ends without an answer, or ends the backend.
- Moves of a link, or of trees with links, to another device: `stat` follows the
  link, so that what it leads to is moved. This is the code's choice to follow
  links.
- Paths that `snprintf` cuts in the middle of a name so that what is left names
  another entry, and the limits of the C stack and of open descriptors, which a
  walk of great depth would meet before PATH_MAX does.
- Failing calls that the code looks at neither for a result nor for what follows:
  `closedir`, `free`, and `malloc`, which fails on no system the program is for.
- Of the shell: `ps` and `kill`, which look at and act on processes outside of it;
  what the options of `ls` select, and its columns; what a program does that is run; how a line is
  split into words; who may do what by the modes of files, which are kept and not
  enforced.
- `custom_shell/previous_code`, a superseded copy, most of it excluded by `#if 0`;
  `ps` and `kill` of version 2.
- Changes of the disk by other programs.
- Two answers that are read in one tick: the code reads one a second.
- `practice/`: single system calls that are not part of a program.
