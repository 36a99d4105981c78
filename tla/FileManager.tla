----------------------------- MODULE FileManager -----------------------------
(* The two processes of dir_manage_gtk and the two message queues between    *)
(* them: the GTK frontend (main.c, communication.c, the senders of           *)
(* ui_manage.c, ui_cd.c and ui_link.c) and the backends it forks             *)
(* (backend.c).  What a file operation does to the disk is module            *)
(* BackendOps; here it has an outcome.  What an answer does to the windows   *)
(* is module FileBrowser.                                                    *)
EXTENDS Naturals, Sequences, FiniteSets, Functions, MessageQueue

CONSTANTS
    Backends,       \* backend processes that launches may fork
    CmdCap,         \* messages the command queue holds (msg_qbytes / 256)
    RspCap,         \* messages the response queue holds
    MaxMessages,    \* bound: commands the user issues
    Ops,            \* message types the user issues
    Faults          \* what may go wrong in this instance

Operations == 2..8      \* delete mkdir rename move copy chmod symlink
QUIT == 1

\* startFail    execl fails (another working directory) or a start-up call does
\* secondLaunch the program is started again while it runs
\* kill         the frontend dies without its shutdown handler
\* killBackend  a backend dies in the middle of its work
\* mangled      a command loses its second half: cut at 255 bytes, or a '$' in a name
\* lateWakeup   100 ms are not enough for a waiting backend to take a message
AllFaults ==
    {"startFail", "secondLaunch", "kill", "killBackend", "mangled", "lateWakeup"}

ASSUME BackendsAssumption == IsFiniteSet(Backends)
ASSUME CapAssumption == CmdCap \in Nat \ {0} /\ RspCap \in Nat \ {0}
ASSUME BoundAssumption == MaxMessages \in Nat
ASSUME OpsAssumption == Ops \subseteq Operations
ASSUME FaultsAssumption == Faults \subseteq AllFaults

VARIABLES
    gui,        \* where the frontend is
    held,       \* the operation whose msgsnd blocks the frontend, 0 if none
    polling,    \* the 1 s timer of start_backend_check runs
    session,    \* ghost: number of frontends started so far
    cmdKey,     \* the file command_keyfile exists
    rspKey,     \* the file response_keyfile exists
    cmd,        \* the command queue
    rsp,        \* the response queue
    pc,         \* where each backend is
    job,        \* the message each backend last received
    sent,       \* ghost: messages accepted by the command queue so far
    log,        \* ghost: identifiers of the messages received, in order
    lost,       \* ghost: identifiers discarded by IPC_RMID
    answers     \* ghost: identifiers of the replies read, in order

queues == <<cmdKey, rspKey, cmd, rsp>>
backend == <<pc, job>>
frontend == <<gui, held, polling, session>>
ghosts == <<sent, log, lost, answers>>
vars == <<gui, held, polling, session, cmdKey, rspKey, cmd, rsp, pc, job,
          sent, log, lost, answers>>

GuiStates == {"off", "running", "sending", "quitting", "sleeping", "cleaning"}
Outcomes == {"success", "failed"}       \* the two texts of a reply
PcStates == {"none", "forked", "starting", "idle", "working", "exited"} \cup Outcomes
NoJob == [mtype |-> 0, id |-> 0, session |-> 0]

\* Operations that end without a reply when they fail (backend.c:294-296,
\* 320-324, 332-334), and the chmod whose mode is empty (393-396: strtok finds
\* no second half, the frontend's strtol lets it pass).
Quiet == {2, 3, 4, 7}

\* Operations whose failure is reported.
Loud == {5, 6, 7, 8}

\* send_message frees the caller's string when it fails; these callers free it
\* again (ui_manage.c:103, 160, 328, ui_cd.c:147, 230).
DoubleFree == {2, 4, 5, 6, 7}

Init ==
    /\ gui = "off" /\ held = 0 /\ polling = FALSE /\ session = 0
    /\ cmdKey \in BOOLEAN /\ rspKey = cmdKey    \* left by an earlier run, or not
    /\ cmd = NoQueue /\ rsp = NoQueue
    /\ pc = [b \in Backends |-> "none"]
    /\ job = [b \in Backends |-> NoJob]
    /\ sent = 0 /\ log = <<>> /\ lost = {} /\ answers = <<>>

-----------------------------------------------------------------------------
(* Starting *)

Forks(b) == pc[b] = "none" /\ pc' = [pc EXCEPT ![b] = "forked"]

\* main: fork a backend, then run the application.
Launch(b) ==
    /\ gui = "off"
    /\ Forks(b)
    /\ gui' = "running"
    /\ polling' = FALSE
    /\ session' = session + 1
    /\ UNCHANGED <<held, job, queues, ghosts>>

\* A second frontend forks its backend before GTK tells it that the first one
\* is running; it activates that one and returns without a shutdown signal.
LaunchAgain(b) ==
    /\ "secondLaunch" \in Faults
    /\ gui \in {"running", "sending"}
    /\ Forks(b)
    /\ UNCHANGED <<job, frontend, queues, ghosts>>

\* The child is gone before it has a queue.
StartFails(b) ==
    /\ "startFail" \in Faults
    /\ pc[b] \in {"forked", "starting"}
    /\ pc' = [pc EXCEPT ![b] = "exited"]
    /\ UNCHANGED <<job, frontend, queues, ghosts>>

OpenCommandQueue(b) ==
    /\ pc[b] = "forked"
    /\ pc' = [pc EXCEPT ![b] = "starting"]
    /\ cmdKey' = TRUE
    /\ cmd' = Opened(cmd, {b})
    /\ UNCHANGED <<job, rspKey, rsp, frontend, ghosts>>

OpenResponseQueue(b) ==
    /\ pc[b] = "starting"
    /\ pc' = [pc EXCEPT ![b] = "idle"]
    /\ rspKey' = TRUE
    /\ rsp' = Opened(rsp, {b})
    /\ UNCHANGED <<job, cmdKey, cmd, frontend, ghosts>>

-----------------------------------------------------------------------------
(* The backend's loop.  A backend that is idle and no longer a user of the   *)
(* command queue repeats a failing msgrcv for ever: no step of the model.    *)

Takes(b) ==
    /\ pc[b] = "idle"
    /\ b \in cmd.users
    /\ cmd.msgs # <<>>
    /\ cmd' = Received(cmd)
    /\ log' = Append(log, Head(cmd.msgs).id)

Receive(b) ==
    /\ Takes(b)
    /\ Head(cmd.msgs).mtype # QUIT
    /\ job' = [job EXCEPT ![b] = Head(cmd.msgs)]
    /\ pc' = [pc EXCEPT ![b] = "working"]
    /\ UNCHANGED <<cmdKey, rspKey, rsp, frontend, sent, lost, answers>>

ReceiveQuit(b) ==
    /\ Takes(b)
    /\ Head(cmd.msgs).mtype = QUIT
    /\ pc' = [pc EXCEPT ![b] = "exited"]
    /\ UNCHANGED <<job, cmdKey, rspKey, rsp, frontend, sent, lost, answers>>

\* The operation is over, well or badly, and send_response is called; or the
\* branch of the operation ends without calling it.
WorkSucceeds(b) ==
    /\ pc[b] = "working"
    /\ pc' = [pc EXCEPT ![b] = "success"]
    /\ UNCHANGED <<job, frontend, queues, ghosts>>

WorkFails(b) ==
    /\ pc[b] = "working"
    /\ job[b].mtype \in Loud
    /\ pc' = [pc EXCEPT ![b] = "failed"]
    /\ UNCHANGED <<job, frontend, queues, ghosts>>

WorkEndsQuietly(b) ==
    /\ pc[b] = "working"
    /\ job[b].mtype \in Quiet \/ "mangled" \in Faults
    /\ pc' = [pc EXCEPT ![b] = "idle"]
    /\ UNCHANGED <<job, frontend, queues, ghosts>>

\* Mutant: the retry loop of mkdir without its break answers again and again.
SendResponseAgain(b) ==
    /\ pc[b] \in Outcomes
    /\ b \in rsp.users
    /\ HasRoom(rsp, RspCap)
    /\ rsp' = Sent(rsp, [text |-> pc[b], id |-> job[b].id, session |-> job[b].session])
    /\ UNCHANGED <<pc, job, cmdKey, rspKey, cmd, frontend, ghosts>>

\* send_response: msgsnd blocks while the response queue is full.
SendResponse(b) ==
    /\ pc[b] \in Outcomes
    /\ b \in rsp.users
    /\ HasRoom(rsp, RspCap)
    /\ rsp' = Sent(rsp, [text |-> pc[b], id |-> job[b].id, session |-> job[b].session])
    /\ pc' = [pc EXCEPT ![b] = "idle"]
    /\ UNCHANGED <<job, cmdKey, rspKey, cmd, frontend, ghosts>>

\* Mutant: the answer is tried again until it is delivered.
ResponseRetried(b) ==
    /\ pc[b] \in Outcomes
    /\ b \notin rsp.users
    /\ UNCHANGED vars

\* The queue is gone: msgsnd fails, or wakes with EIDRM, and nobody is told.
ResponseUndeliverable(b) ==
    /\ pc[b] \in Outcomes
    /\ b \notin rsp.users
    /\ pc' = [pc EXCEPT ![b] = "idle"]
    /\ UNCHANGED <<job, frontend, queues, ghosts>>

\* A backend dies in the middle of its work; or it frees what dirname returned
\* for a mangled destination without a slash, which is no heap memory.
BackendKilled(b) ==
    /\ \/ "killBackend" \in Faults /\ pc[b] = "working"
       \/ "mangled" \in Faults /\ pc[b] = "idle" /\ job[b].mtype \in {5, 6}
    /\ pc' = [pc EXCEPT ![b] = "exited"]
    /\ UNCHANGED <<job, frontend, queues, ghosts>>

-----------------------------------------------------------------------------
(* The frontend *)

\* Mutant: msgsnd with IPC_NOWAIT; nobody looks at EAGAIN.
AcceptsOrDrops(q, mtype) ==
    /\ cmd' = IF HasRoom(q, CmdCap)
              THEN Sent(q, [mtype |-> mtype, id |-> sent + 1, session |-> session])
              ELSE q
    /\ sent' = sent + 1

\* A message with the next identifier enters the command queue.
Accepts(q, mtype) ==
    /\ HasRoom(q, CmdCap)
    /\ cmd' = Sent(q, [mtype |-> mtype, id |-> sent + 1, session |-> session])
    /\ sent' = sent + 1

\* send_message and send_favorite_message with the start_backend_check that
\* every caller makes: the queue is opened, or created when it is missing.
SendMessage(op) ==
    /\ gui = "running"
    /\ sent < MaxMessages
    /\ cmdKey
    /\ Accepts(Opened(cmd, {}), op)
    /\ polling' = TRUE
    /\ UNCHANGED <<gui, held, session, cmdKey, rspKey, rsp, backend, log, lost, answers>>

\* The queue is full: the GTK main loop waits in msgsnd.
SendBlocks(op) ==
    /\ gui = "running"
    /\ sent < MaxMessages
    /\ cmdKey
    /\ ~HasRoom(cmd, CmdCap)
    /\ gui' = "sending"
    /\ held' = op
    /\ UNCHANGED <<polling, session, queues, backend, ghosts>>

SendResumes ==
    /\ gui = "sending"
    /\ Accepts(cmd, held)
    /\ gui' = "running"
    /\ held' = 0
    /\ polling' = TRUE
    /\ UNCHANGED <<session, cmdKey, rspKey, rsp, backend, log, lost, answers>>

\* ftok fails while no backend has made the key file yet.  Where the string is
\* freed twice the process may die of it.
SendFails(op) ==
    /\ gui = "running"
    /\ ~cmdKey
    /\ \/ gui' = "running" /\ polling' = TRUE
       \/ op \in DoubleFree /\ gui' = "off" /\ polling' = FALSE
    /\ UNCHANGED <<held, session, queues, backend, ghosts>>

\* Mutant: the timer is over with the first answer (returns FALSE).
ReadBackendMessageOnce ==
    /\ gui = "running"
    /\ polling
    /\ rspKey
    /\ rsp.msgs # <<>>
    /\ rsp' = Received(rsp)
    /\ answers' = Append(answers, Head(rsp.msgs).id)
    /\ polling' = FALSE
    /\ UNCHANGED <<gui, held, session, cmdKey, rspKey, cmd, backend, sent, log, lost>>

\* One tick of the timer: the response queue is created when it is missing,
\* and at most one reply is read, without waiting.
ReadBackendMessage ==
    /\ gui = "running"
    /\ polling
    /\ rspKey
    /\ IF rsp.msgs = <<>>
       THEN rsp' = Opened(rsp, {}) /\ UNCHANGED answers
       ELSE /\ rsp' = Received(rsp)
            /\ answers' = Append(answers, Head(rsp.msgs).id)
    /\ UNCHANGED <<frontend, cmdKey, rspKey, cmd, backend, sent, log, lost>>

\* on_application_shutdown: QUIT goes to the tail of the command queue, when
\* there is one; its msgsnd blocks like any other.
CommandQueueFound == cmdKey /\ cmd.live

Shutdown ==
    /\ gui = "running"
    /\ polling' = FALSE
    /\ \/ CommandQueueFound /\ Accepts(cmd, QUIT) /\ gui' = "sleeping"
       \/ /\ CommandQueueFound
          /\ ~HasRoom(cmd, CmdCap)
          /\ gui' = "quitting"
          /\ UNCHANGED <<cmd, sent>>
       \/ ~CommandQueueFound /\ gui' = "cleaning" /\ UNCHANGED <<cmd, sent>>
    /\ UNCHANGED <<held, session, cmdKey, rspKey, rsp, backend, log, lost, answers>>

QuitResumes ==
    /\ gui = "quitting"
    /\ Accepts(cmd, QUIT)
    /\ gui' = "sleeping"
    /\ UNCHANGED <<held, polling, session, cmdKey, rspKey, rsp, backend, log, lost, answers>>

\* Mutant: the handler waits until every backend of the queue has ended.
RemoveCommandQueueLast ==
    /\ gui = "sleeping"
    /\ \A b \in cmd.users : pc[b] = "exited"
    /\ gui' = "cleaning"
    /\ lost' = lost \cup {cmd.msgs[i].id : i \in DOMAIN cmd.msgs}
    /\ cmd' = NoQueue
    /\ UNCHANGED <<held, polling, session, cmdKey, rspKey, rsp, backend, sent, log, answers>>

\* usleep(100000) is over and IPC_RMID follows.  Unless wake-ups are late, a
\* backend that waits in msgrcv has taken what there was by then; one that is
\* in the middle of an operation has not.
RemoveCommandQueue ==
    /\ gui = "sleeping"
    /\ \/ "lateWakeup" \in Faults
       \/ cmd.msgs = <<>>
       \/ \A b \in cmd.users : pc[b] # "idle"
    /\ gui' = "cleaning"
    /\ lost' = lost \cup {cmd.msgs[i].id : i \in DOMAIN cmd.msgs}
    /\ cmd' = NoQueue
    /\ UNCHANGED <<held, polling, session, cmdKey, rspKey, rsp, backend, sent, log, answers>>

\* Mutant: only the command queue is removed.
RemoveResponseQueueNot ==
    /\ gui = "cleaning"
    /\ gui' = "off"
    /\ UNCHANGED <<held, polling, session, queues, backend, ghosts>>

RemoveResponseQueue ==
    /\ gui = "cleaning"
    /\ gui' = "off"
    /\ rsp' = IF rspKey THEN NoQueue ELSE rsp
    /\ UNCHANGED <<held, polling, session, cmdKey, rspKey, cmd, backend, ghosts>>

\* The frontend dies: both queues and the backend stay.
Killed ==
    /\ "kill" \in Faults
    /\ gui # "off"
    /\ gui' = "off"
    /\ held' = 0
    /\ polling' = FALSE
    /\ UNCHANGED <<session, queues, backend, ghosts>>

-----------------------------------------------------------------------------
Starts(b) == OpenCommandQueue(b) \/ OpenResponseQueue(b)

Serves(b) ==
    \/ Receive(b) \/ ReceiveQuit(b)
    \/ WorkSucceeds(b) \/ WorkFails(b) \/ WorkEndsQuietly(b)
    \/ SendResponse(b) \/ ResponseUndeliverable(b)

BackendStep(b) ==
    \/ Launch(b) \/ LaunchAgain(b) \/ StartFails(b) \/ BackendKilled(b)
    \/ Starts(b) \/ Serves(b)

UserStep == Shutdown \/ \E op \in Ops : SendMessage(op) \/ SendBlocks(op) \/ SendFails(op)

FrontendStep ==
    \/ UserStep
    \/ SendResumes \/ QuitResumes \/ ReadBackendMessage
    \/ RemoveCommandQueue \/ RemoveResponseQueue
    \/ Killed

Next == FrontendStep \/ \E b \in Backends : BackendStep(b)

Spec == Init /\ [][Next]_vars

\* A started process keeps running, a timer keeps ticking, a blocked msgsnd
\* returns when it can.  Nothing is assumed of the user or of the faults.
FairSpec ==
    /\ Spec
    /\ \A b \in Backends : WF_vars(Starts(b)) /\ WF_vars(Serves(b))
    /\ WF_vars(ReadBackendMessage)
    /\ WF_vars(SendResumes)
    /\ WF_vars(QuitResumes)
    /\ WF_vars(RemoveCommandQueue)
    /\ WF_vars(RemoveResponseQueue)

-----------------------------------------------------------------------------
(* Type invariant *)

Identifier == 0..sent
Message == [mtype : {QUIT} \cup Ops, id : Identifier, session : 0..session]
Reply == [text : Outcomes, id : Identifier, session : 0..session]

QueueOf(Content) ==
    [live : BOOLEAN, msgs : Seq(Content), users : SUBSET Backends]

\* Every variable has its type, neither queue exceeds its capacity, and the
\* frontend holds an operation exactly while its msgsnd blocks
\* (communication.c:30, backend.c:73).
TypeOK ==
    /\ gui \in GuiStates
    /\ held \in {0} \cup Ops
    /\ held # 0 <=> gui = "sending"
    /\ polling \in BOOLEAN
    /\ session \in Nat
    /\ cmdKey \in BOOLEAN /\ rspKey \in BOOLEAN
    /\ sent \in Nat
    /\ cmd \in QueueOf(Message) /\ Len(cmd.msgs) <= CmdCap
    /\ rsp \in QueueOf(Reply) /\ Len(rsp.msgs) <= RspCap
    /\ pc \in [Backends -> PcStates]
    /\ job \in [Backends -> Message \cup {NoJob}]
    /\ log \in Seq(Identifier)
    /\ lost \subseteq Identifier
    /\ answers \in Seq(Identifier)

-----------------------------------------------------------------------------
(* Safety *)

Increasing(s) == \A i, j \in DOMAIN s : i < j => s[i] < s[j]

\* Commands are received in the order in which the user gave them, each at
\* most once, whatever number of backends share the command queue
\* (backend.c:276 receives with type 0: first in, first out; README.md:64: two
\* mailboxes that do not mix).
TakenInOrder == Increasing(log \o Ids(cmd.msgs))

\* Every message the command queue accepted has been received, or waits in
\* the queue, or went with the queue at IPC_RMID, and only one of the three
\* (communication.c:30, backend.c:276, ui_manage.c:222, 224).
NothingVanishes ==
    LET waiting == Range(Ids(cmd.msgs)) IN
    /\ 1..sent = Range(log) \cup waiting \cup lost
    /\ lost \cap (Range(log) \cup waiting) = {}

Busy == {b \in Backends : pc[b] \in {"working"} \cup Outcomes}

\* A command is answered at most once, and nobody works on it any more once
\* its answer is queued or shown (backend.c:293, 317, 331, ...: send_response
\* is called once on every path of the loop body).
OneReplyPerCommand ==
    LET replies == answers \o Ids(rsp.msgs) IN
    /\ IsInjective(replies)
    /\ Range(replies) \subseteq Range(log)
    /\ \A b \in Busy : job[b].id \in Range(log) \ Range(replies)
    /\ \A a, b \in Busy : job[a].id = job[b].id => a = b

\* Whatever a frontend finds in either queue was put there in its own session:
\* the shutdown handler leaves neither a command nor an answer behind for the
\* next start, even if an old backend is still at work (ui_manage.c:211-238).
\* A killed frontend does not run the handler.
RepliesAreOurs ==
    gui \in {"running", "sending"} =>
        /\ \A i \in DOMAIN cmd.msgs : cmd.msgs[i].session = session
        /\ \A i \in DOMAIN rsp.msgs : rsp.msgs[i].session = session

\* The frontend waits in msgsnd for room, and every backend of the queue waits
\* in send_response for room: nobody will ever read again.
Stuck == {b \in cmd.users \cap rsp.users : pc[b] \in Outcomes}

MutuallyBlocked ==
    /\ gui \in {"sending", "quitting"}
    /\ Len(cmd.msgs) = CmdCap
    /\ Len(rsp.msgs) = RspCap
    /\ \A b \in cmd.users : b \in Stuck \/ pc[b] = "exited"

\* Frontend and backends can block each other only once the user has given
\* more commands than both queues hold, one more for each backend that is
\* stuck (communication.c:30 against backend.c:73).
FreezeBudget ==
    MutuallyBlocked => sent >= CmdCap + RspCap + Cardinality(Stuck)

\* Nothing in an answer says which command it belongs to, but answers arrive in
\* the order of the commands as long as one backend alone uses the response
\* queue (backend.c:73, communication.c:118): an old backend that is still at
\* work when its queue is removed cannot put its answer before those of the next
\* session (ui_manage.c:234).
AnswersInOrder ==
    \A b \in rsp.users :
        LET shown == IF answers = <<>> THEN <<>> ELSE <<answers[Len(answers)]>>
            taken == IF b \in Busy THEN <<job[b].id>> ELSE <<>>
        IN  rsp.users = {b} =>
                Increasing(shown \o Ids(rsp.msgs) \o taken \o Ids(cmd.msgs))

-----------------------------------------------------------------------------
(* Refinement *)

Requests == 1..(MaxMessages + Cardinality(Backends))

\* What has become of request r, read off the queues and the processes.
PhaseOf(r) ==
    CASE r > sent -> "unmade"
      [] r \in Range(Ids(cmd.msgs)) -> "queued"
      [] r \in lost -> "lost"
      [] \E b \in Busy : job[b].id = r -> "taken"
      [] r \in Range(Ids(rsp.msgs)) -> "answered"
      [] r \in Range(answers) -> "shown"
      [] OTHER -> "over"

Lifecycle == INSTANCE RequestLifecycle
                WITH phase <- [r \in Requests |-> PhaseOf(r)]

\* Frontend, backends and queues implement the life cycle of a request.
ImplementsLifecycle == Lifecycle!Spec

-----------------------------------------------------------------------------
(* Liveness, under FairSpec.  What must happen happens unless frontend and    *)
(* backends block each other for good, which FreezeEnds shows they can do:    *)
(* that is the only exception, and it lasts for ever.                         *)

BlockedForGood == <>[]MutuallyBlocked

\* Unless both sides block each other for good, a command in the queue is
\* received, or discarded at the end of the session (backend.c:276, ui_manage.c:224).
EveryCommandTaken ==
    \/ BlockedForGood
    \/ \A r \in Requests :
        r \in Range(Ids(cmd.msgs)) ~> r \in Range(log) \cup lost

\* Unless both sides block each other for good, an answer in the queue is read,
\* or discarded at the end of the session: the timer that the first command started
\* reads one a second, and keeps going (communication.c:124).
EveryAnswerShown ==
    \/ BlockedForGood
    \/ \A r \in Requests :
        r \in Range(Ids(rsp.msgs)) ~> r \in Range(answers) \/ rsp = NoQueue

\* Unless both sides block each other for good, a backend that has something to
\* say gets rid of it (backend.c:73): the response queue gets room, or it is
\* removed and the msgsnd fails.
EveryAnswerSent ==
    \/ BlockedForGood
    \/ \A b \in Backends : pc[b] \in Outcomes ~> pc[b] \notin Outcomes

\* Unless both sides block each other for good, which the handler's blocking
\* msgsnd of QUIT (ui_manage.c:222) can be the one to complete, a closed window lets
\* the process end.
ClosingEnds ==
    \/ BlockedForGood
    \/ gui \in {"quitting", "sleeping", "cleaning"} ~> gui = "off"

-----------------------------------------------------------------------------
(* What the documents say and the code does not do *)

\* README.md:6: the windows do not freeze, however long an operation takes;
\* at the least, a frontend that waits for room in the queue gets it.
FreezeEnds == gui = "sending" ~> gui # "sending"

\* README.md:62: closing the window ends the backend together with the program
\* and leaves no orphan.  A backend that is at an operation when the handler
\* has sent QUIT and sleeps (ui_manage.c:222-223) still ends.
NoOrphans ==
    \A b \in Backends :
        gui = "sleeping" /\ b \in Busy \cap cmd.users ~> pc[b] = "exited"

=============================================================================
