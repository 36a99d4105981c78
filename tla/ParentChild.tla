----------------------------- MODULE ParentChild -----------------------------
(* The five demonstrations in IPC/: a parent passes one text to the child it  *)
(* forks, through a pipe (01), a named pipe (02), shared memory (03), shared  *)
(* memory with a semaphore (04), or a message queue (05).  Several runs of    *)
(* the same demonstration may overlap; what they name by a key or a file name *)
(* they share, and what a killed run leaves behind the next one finds.        *)
EXTENDS Naturals

CONSTANTS
    Runs,           \* runs of the demonstration, numbered by their start
    MaxObjects,     \* bound: objects the kernel hands out
    Killable        \* one process may be killed, or one fork fail

ASSUME RunsAssumption == Runs \subseteq Nat
ASSUME ObjectsAssumption == MaxObjects \in Nat \ {0, 1}

VARIABLES
    demo,       \* which demonstration is run
    named,      \* the object that the key or file name leads to, 0 if none
    made,       \* number of objects so far; they are the numbers up to it
    text,       \* what is in a memory or a pipe
    count,      \* the value of a semaphore, the messages in a queue
    ids,        \* the objects each run has got
    parent,     \* where the parent of each run is
    child,      \* where the child of each run is
    said,       \* what the child of each run has printed
    hurt        \* a process was killed, or a fork failed

vars == <<demo, named, made, text, count, ids, parent, child, said, hurt>>
kernel == <<named, made, text, count>>

Kinds == {"pipe", "fifo", "shm", "sem", "msg"}
Demos == Kinds
Texts == {"blank", "part", "whole"}
Ids == 1..MaxObjects

ParentPlaces ==
    {"off", "made", "initing", "ready", "forked", "open", "attached", "writing",
     "written", "signalled", "waiting", "removing", "last", "done", "failed", "killed"}
ChildPlaces ==
    {"off", "forked", "open", "attached", "passed", "printed", "done", "failed", "killed"}
Ended == {"done", "failed", "killed"}

\* What a run that was killed anywhere leaves: object 1, and for the semaphore
\* its memory, object 2.
Left(k) == CASE k = demo /\ k # "pipe" -> {0, 1}
             [] k = "shm" /\ demo = "sem" -> {0, 2}
             [] OTHER -> {0}

Init ==
    /\ demo \in Demos
    /\ named \in [Kinds -> {0, 1, 2}] /\ \A k \in Kinds : named[k] \in Left(k)
    /\ made = 2
    /\ \E t \in Texts, n \in {0, 1} :
          /\ text = [i \in Ids |-> IF i = named.shm THEN t ELSE "blank"]
          /\ count = [i \in Ids |-> IF i \in {named.sem, named.msg} THEN n ELSE 0]
    /\ ids = [r \in Runs |-> [k \in Kinds |-> 0]]
    /\ parent = [r \in Runs |-> "off"]
    /\ child = [r \in Runs |-> "off"]
    /\ said = [r \in Runs |-> "nothing"]
    /\ hurt = FALSE

-----------------------------------------------------------------------------
(* The kernel (external) *)

\* shmget, semget, msgget with IPC_CREAT: what the key names, or a new object.
Gets(r, k) ==
    IF named[k] # 0
    THEN ids' = [ids EXCEPT ![r][k] = named[k]] /\ UNCHANGED <<named, made>>
    ELSE /\ made < MaxObjects
         /\ made' = made + 1
         /\ named' = [named EXCEPT ![k] = made + 1]
         /\ ids' = [ids EXCEPT ![r][k] = made + 1]

\* IPC_RMID has not been done.
Lives(r, k) == ids[r][k] # 0 /\ named[k] = ids[r][k]

\* IPC_RMID, whose result only the message queue's parent looks at.
Removes(r, k) == named' = IF Lives(r, k) THEN [named EXCEPT ![k] = 0] ELSE named

\* A removed segment can be attached as long as somebody else has it attached.
Attachable(r) ==
    \/ Lives(r, "shm")
    \/ \E q \in Runs :
          /\ ids[q].shm = ids[r].shm
          /\ parent[q] \in {"attached", "writing", "written", "signalled"}
             \/ child[q] \in {"attached", "passed"}

Parent(r, from, to) == parent[r] = from /\ parent' = [parent EXCEPT ![r] = to]
Child(r, from, to) == child[r] = from /\ child' = [child EXCEPT ![r] = to]

-----------------------------------------------------------------------------
(* Before the fork *)

\* pipe, mkfifo, shmget or msgget.  mkfifo fails when the name is taken.
Create(r) ==
    /\ \A q \in Runs : q < r => parent[q] # "off"
    /\ \/ demo = "pipe" /\ Parent(r, "off", "ready")
          /\ made < MaxObjects /\ made' = made + 1
          /\ ids' = [ids EXCEPT ![r].pipe = made + 1]
          /\ UNCHANGED named
       \/ demo = "fifo" /\ named.fifo = 0 /\ Parent(r, "off", "ready") /\ Gets(r, "fifo")
       \/ demo = "fifo" /\ named.fifo # 0 /\ Parent(r, "off", "failed")
          /\ UNCHANGED <<named, made, ids>>
       \/ demo \in {"shm", "msg"} /\ Parent(r, "off", "ready") /\ Gets(r, demo)
       \/ demo = "sem" /\ Parent(r, "off", "made") /\ Gets(r, "shm")
    /\ UNCHANGED <<demo, text, count, child, said, hurt>>

CreateSemaphore(r) ==
    /\ Parent(r, "made", "initing")
    /\ Gets(r, "sem")
    /\ UNCHANGED <<demo, text, count, child, said, hurt>>

\* Mutant: the semaphore is left at the value it has.
InitSemaphoreNot(r) ==
    /\ Parent(r, "initing", "ready")
    /\ UNCHANGED <<demo, kernel, ids, child, said, hurt>>

\* semctl(SETVAL, 0).
InitSemaphore(r) ==
    /\ \/ /\ Lives(r, "sem") /\ Parent(r, "initing", "ready")
          /\ count' = [count EXCEPT ![ids[r].sem] = 0]
       \/ ~Lives(r, "sem") /\ Parent(r, "initing", "failed") /\ UNCHANGED count
    /\ UNCHANGED <<demo, named, made, text, ids, child, said, hurt>>

Fork(r) ==
    /\ \/ Parent(r, "ready", "forked") /\ Child(r, "off", "forked") /\ UNCHANGED hurt
       \/ Killable /\ ~hurt /\ Parent(r, "ready", "failed") /\ hurt' = TRUE /\ UNCHANGED child
    /\ UNCHANGED <<demo, kernel, ids, said>>

-----------------------------------------------------------------------------
(* Pipes.  An open of a named pipe waits for the other side's. *)

OpenFifo(r) ==
    /\ demo = "fifo"
    /\ Parent(r, "forked", "open")
    /\ Child(r, "forked", "open")
    /\ UNCHANGED <<demo, kernel, ids, said, hurt>>

Channel(r) == ids[r][demo]
Piping == demo \in {"pipe", "fifo"}
AtPipe == IF demo = "pipe" THEN "forked" ELSE "open"

\* One write, which pipes keep in one piece; without a reader it ends the parent.
WritePipe(r) ==
    /\ Piping
    /\ \/ /\ child[r] \notin Ended
          /\ Parent(r, AtPipe, "done")
          /\ text' = [text EXCEPT ![Channel(r)] = "whole"]
       \/ child[r] \in Ended /\ Parent(r, AtPipe, "killed") /\ UNCHANGED text
    /\ UNCHANGED <<demo, named, made, count, ids, child, said, hurt>>

\* read waits for data or for the last writer to be gone; the child has closed
\* its own end.  Without data it prints what happens to be in its buffer.
ReadPipe(r) ==
    /\ Piping
    /\ Child(r, AtPipe, IF demo = "pipe" THEN "done" ELSE "printed")
    /\ text[Channel(r)] = "whole" \/ parent[r] \in Ended
    /\ said' = [said EXCEPT ![r] = text[Channel(r)]]
    /\ UNCHANGED <<demo, kernel, ids, parent, hurt>>

\* Mutant: the child leaves the file behind.
UnlinkFifoNot(r) == Child(r, "printed", "done") /\ UNCHANGED <<demo, kernel, ids, parent, said, hurt>>

UnlinkFifo(r) ==
    /\ Child(r, "printed", "done")
    /\ named' = [named EXCEPT !.fifo = 0]
    /\ UNCHANGED <<demo, made, text, count, ids, parent, said, hurt>>

-----------------------------------------------------------------------------
(* Shared memory, with or without semaphore *)

Sharing == demo \in {"shm", "sem"}

AttachParent(r) ==
    /\ Sharing
    /\ Parent(r, "forked", IF Attachable(r) THEN "attached" ELSE "failed")
    /\ UNCHANGED <<demo, kernel, ids, child, said, hurt>>

AttachChild(r) ==
    /\ Sharing
    /\ Child(r, "forked", IF Attachable(r) THEN "attached" ELSE "failed")
    /\ UNCHANGED <<demo, kernel, ids, parent, said, hurt>>

\* strcpy, byte by byte; the same text over itself is not seen to change.
WriteBegins(r) ==
    /\ Parent(r, "attached", "writing")
    /\ text' = [text EXCEPT ![ids[r].shm] = IF @ = "whole" THEN @ ELSE "part"]
    /\ UNCHANGED <<demo, named, made, count, ids, child, said, hurt>>

WriteEnds(r) ==
    /\ Parent(r, "writing", "written")
    /\ text' = [text EXCEPT ![ids[r].shm] = "whole"]
    /\ UNCHANGED <<demo, named, made, count, ids, child, said, hurt>>

\* Mutant: the parent forgets to signal.
SignalNot(r) ==
    /\ demo = "sem"
    /\ Parent(r, "written", IF Lives(r, "sem") THEN "signalled" ELSE "failed")
    /\ UNCHANGED <<demo, kernel, ids, child, said, hurt>>

\* semop(+1) of the parent.
Signal(r) ==
    /\ demo = "sem"
    /\ \/ /\ Lives(r, "sem") /\ Parent(r, "written", "signalled")
          /\ count' = [count EXCEPT ![ids[r].sem] = @ + 1]
       \/ ~Lives(r, "sem") /\ Parent(r, "written", "failed") /\ UNCHANGED count
    /\ UNCHANGED <<demo, named, made, text, ids, child, said, hurt>>

Detach(r) ==
    /\ Parent(r, IF demo = "sem" THEN "signalled" ELSE "written", "waiting")
    /\ UNCHANGED <<demo, kernel, ids, child, said, hurt>>

\* semop(-1) of the child: waits for a positive value; EIDRM when it goes.
Pass(r) ==
    /\ demo = "sem"
    /\ \/ /\ Lives(r, "sem") /\ count[ids[r].sem] > 0 /\ Child(r, "attached", "passed")
          /\ count' = [count EXCEPT ![ids[r].sem] = @ - 1]
       \/ ~Lives(r, "sem") /\ Child(r, "attached", "failed") /\ UNCHANGED count
    /\ UNCHANGED <<demo, named, made, text, ids, parent, said, hurt>>

ReadMemory(r) ==
    /\ Child(r, IF demo = "sem" THEN "passed" ELSE "attached", "done")
    /\ Sharing
    /\ said' = [said EXCEPT ![r] = text[ids[r].shm]]
    /\ UNCHANGED <<demo, kernel, ids, parent, hurt>>

-----------------------------------------------------------------------------
(* Message queue: room is never short, the message is always the same *)

SendMessage(r) ==
    /\ demo = "msg"
    /\ \/ /\ Lives(r, "msg") /\ Parent(r, "forked", "waiting")
          /\ count' = [count EXCEPT ![ids[r].msg] = @ + 1]
       \/ ~Lives(r, "msg") /\ Parent(r, "forked", "failed") /\ UNCHANGED count
    /\ UNCHANGED <<demo, named, made, text, ids, child, said, hurt>>

ReceiveMessage(r) ==
    /\ demo = "msg"
    /\ \/ /\ Lives(r, "msg") /\ count[ids[r].msg] > 0 /\ Child(r, "forked", "done")
          /\ count' = [count EXCEPT ![ids[r].msg] = @ - 1]
          /\ said' = [said EXCEPT ![r] = "whole"]
       \/ ~Lives(r, "msg") /\ Child(r, "forked", "failed") /\ UNCHANGED <<count, said>>
    /\ UNCHANGED <<demo, named, made, text, ids, parent, hurt>>

-----------------------------------------------------------------------------
(* The parent's end *)

\* wait(NULL).
Wait(r) ==
    /\ child[r] \in Ended
    /\ Parent(r, "waiting", "removing")
    /\ UNCHANGED <<demo, kernel, ids, child, said, hurt>>

Remove(r) ==
    /\ LET to == CASE demo = "sem" -> "last"
                   [] demo = "msg" /\ ~Lives(r, "msg") -> "failed"
                   [] OTHER -> "done"
       IN  Parent(r, "removing", to)
    /\ Removes(r, IF demo = "sem" THEN "shm" ELSE demo)
    /\ UNCHANGED <<demo, made, text, count, ids, child, said, hurt>>

RemoveSemaphore(r) ==
    /\ Parent(r, "last", "done")
    /\ Removes(r, "sem")
    /\ UNCHANGED <<demo, made, text, count, ids, child, said, hurt>>

Kill(r) ==
    /\ Killable /\ ~hurt
    /\ \/ parent[r] \notin Ended \cup {"off"} /\ parent' = [parent EXCEPT ![r] = "killed"]
          /\ UNCHANGED child
       \/ child[r] \notin Ended \cup {"off"} /\ child' = [child EXCEPT ![r] = "killed"]
          /\ UNCHANGED parent
    /\ hurt' = TRUE
    /\ UNCHANGED <<demo, kernel, ids, said>>

-----------------------------------------------------------------------------
ParentStep(r) ==
    \/ CreateSemaphore(r) \/ InitSemaphore(r) \/ Fork(r)
    \/ WritePipe(r) \/ AttachParent(r) \/ WriteBegins(r) \/ WriteEnds(r) \/ Signal(r) \/ Detach(r)
    \/ SendMessage(r) \/ Wait(r) \/ Remove(r) \/ RemoveSemaphore(r)

ChildStep(r) ==
    \/ ReadPipe(r) \/ UnlinkFifo(r)
    \/ AttachChild(r) \/ Pass(r) \/ ReadMemory(r)
    \/ ReceiveMessage(r)

Next == \E r \in Runs : Create(r) \/ ParentStep(r) \/ OpenFifo(r) \/ ChildStep(r) \/ Kill(r)

Spec == Init /\ [][Next]_vars

-----------------------------------------------------------------------------
(* Type invariant *)

\* Every variable has its type, and what a key or a run holds has been made.
TypeOK ==
    /\ demo \in Demos
    /\ made \in 0..MaxObjects
    /\ named \in [Kinds -> 0..made]
    /\ text \in [Ids -> Texts]
    /\ count \in [Ids -> Nat]
    /\ ids \in [Runs -> [Kinds -> 0..made]]
    /\ parent \in [Runs -> ParentPlaces]
    /\ child \in [Runs -> ChildPlaces]
    /\ said \in [Runs -> Texts \cup {"nothing"}]
    /\ hurt \in BOOLEAN

-----------------------------------------------------------------------------
(* Safety *)

\* Another run has the same semaphore and another memory: one of the two found
\* the memory of a run that was about to remove it, or the semaphore of a run that
\* had removed its memory already.
Confused(r) ==
    \E q \in Runs : ids[r].sem # 0 /\ ids[q].sem = ids[r].sem /\ ids[q].shm # ids[r].shm

\* A child that reads a pipe, or memory behind the semaphore, prints the whole
\* text, however many runs overlap and whatever a killed run has left, unless its
\* parent died before writing or two memories meet at one semaphore
\* (01_pipe.c:34, 02_named_pipe.c:48, 04_semaphore.c:59 and 81).  The bare shared
\* memory (03) promises nothing.
SaysWhatWasWritten ==
    \A r \in Runs :
        said[r] # "nothing" =>
            CASE Piping -> said[r] = "whole" \/ parent[r] = "killed"
              [] demo = "sem" -> said[r] = "whole" \/ Confused(r)
              [] OTHER -> TRUE

\* When every run that was started has ended well, nothing of it is left in the
\* kernel or the directory, nor of the runs before (02:53, 03:50, 04:68-69, 05:45).
CleanedUp ==
    /\ \A r \in Runs : parent[r] \in {"off", "done"} /\ child[r] \in {"off", "done"}
    /\ \E r \in Runs : parent[r] = "done"
    => \A k \in Kinds : named[k] = 0

Running ==
    \E r \in Runs : ~(parent[r] \in Ended \cup {"off"} /\ child[r] \in Ended \cup {"off"})

\* What a process waits for: the other side of a named pipe, the end of its
\* child; a text in its pipe or the end of who may write one, a signal, a message.
ParentWaits(r) ==
    \/ demo = "fifo" /\ parent[r] = "forked" /\ child[r] # "forked"
    \/ parent[r] = "waiting" /\ child[r] \notin Ended

ChildWaits(r) ==
    \/ demo = "fifo" /\ child[r] = "forked" /\ parent[r] # "forked"
    \/ Piping /\ child[r] = AtPipe /\ text[Channel(r)] # "whole" /\ parent[r] \notin Ended
    \/ demo = "sem" /\ child[r] = "attached" /\ Lives(r, "sem") /\ count[ids[r].sem] = 0
    \/ demo = "msg" /\ child[r] = "forked" /\ Lives(r, "msg") /\ count[ids[r].msg] = 0

CanGoOn(r) ==
    \/ parent[r] \notin Ended \cup {"off"} /\ ~ParentWaits(r)
    \/ child[r] \notin Ended \cup {"off"} /\ ~ChildWaits(r)

\* As long as something runs and nobody was killed, somebody can go on: no run
\* waits in vain, neither for its child nor at a pipe, semaphore or queue that
\* overlapping runs share, initialise and remove under each other.  A run is a few
\* calls without a loop, so every run comes to its end (02:29 and 41, 04:81, 05:53).
\* Confused runs may wait: one of them takes a signal back by SETVAL and then
\* fails to attach its memory.
NobodyWaitsInVain ==
    ~hurt /\ Running /\ (\A r \in Runs : ~Confused(r)) => \E r \in Runs : CanGoOn(r)

=============================================================================
