-------------------------- MODULE FileManagerProofs --------------------------
(* Proofs about FileManager, for any set of backends, any capacity of the    *)
(* queues, any operations and faults: types, the order and the conservation  *)
(* of commands, and how many commands it takes to freeze both processes.     *)
EXTENDS FileManager, TLAPS, SequenceTheorems, FiniteSetTheorems

\* A sequence over a set is one over every larger set.
LEMMA SeqOfSuperset ==
    ASSUME NEW S, NEW T, S \subseteq T, NEW s \in Seq(S)
    PROVE  s \in Seq(T)
OBVIOUS

\* The types of the queue operations of MessageQueue, one lemma each: a
\* removed queue is empty,
LEMMA NoQueueType ==
    ASSUME NEW S
    PROVE  NoQueue \in QueueOf(S) /\ NoQueue.msgs = <<>> /\ Len(NoQueue.msgs) = 0
BY DEF NoQueue, QueueOf

\* opening a queue keeps its messages (communication.c:17, backend.c:246),
LEMMA OpenedType ==
    ASSUME NEW S, NEW q \in QueueOf(S), NEW ps \in SUBSET Backends
    PROVE  Opened(q, ps) \in QueueOf(S) /\ Opened(q, ps).msgs = q.msgs
BY DEF Opened, QueueOf

\* msgrcv takes one message off a queue (backend.c:276),
LEMMA ReceivedType ==
    ASSUME NEW S, NEW q \in QueueOf(S), q.msgs # <<>>
    PROVE  /\ Received(q) \in QueueOf(S)
           /\ Received(q).msgs = Tail(q.msgs)
           /\ Len(q.msgs) \in Nat \ {0}
           /\ Len(Received(q).msgs) = Len(q.msgs) - 1
           /\ Head(q.msgs) \in S
<1>1. q.msgs \in Seq(S)
  BY DEF QueueOf
<1>2. /\ Tail(q.msgs) \in Seq(S) /\ Head(q.msgs) \in S
      /\ Len(q.msgs) \in Nat \ {0} /\ Len(Tail(q.msgs)) = Len(q.msgs) - 1
  BY <1>1
<1> QED BY <1>2 DEF Received, QueueOf

\* and msgsnd appends one (communication.c:30).
LEMMA SentType ==
    ASSUME NEW S, NEW q \in QueueOf(S), NEW m \in S
    PROVE  /\ Sent(q, m) \in QueueOf(S)
           /\ Sent(q, m).msgs = Append(q.msgs, m)
           /\ Len(q.msgs) \in Nat
           /\ Len(Sent(q, m).msgs) = Len(q.msgs) + 1
<1>1. q.msgs \in Seq(S)
  BY DEF QueueOf
<1>2. /\ Append(q.msgs, m) \in Seq(S)
      /\ Len(q.msgs) \in Nat /\ Len(Append(q.msgs, m)) = Len(q.msgs) + 1
  BY <1>1
<1> QED BY <1>2 DEF Sent, QueueOf

USE DEF Operations, AllFaults, GuiStates, Outcomes, PcStates

\* The variables start with their types.
LEMMA TypeInit == Init => TypeOK
<1> SUFFICES ASSUME Init PROVE TypeOK
  OBVIOUS
<1>1. cmd \in QueueOf(Message) /\ rsp \in QueueOf(Reply) /\ Len(cmd.msgs) = 0 /\ Len(rsp.msgs) = 0
  BY NoQueueType DEF Init
<1>2. gui \in GuiStates /\ held = 0 /\ gui # "sending" BY DEF Init
<1>3. polling \in BOOLEAN /\ cmdKey \in BOOLEAN /\ rspKey \in BOOLEAN BY DEF Init
<1>4. /\ pc \in [Backends -> PcStates] /\ job \in [Backends -> Message \cup {NoJob}]
      /\ log \in Seq(Identifier) /\ lost \subseteq Identifier /\ answers \in Seq(Identifier)
      /\ session \in Nat /\ sent \in Nat
  BY DEF Init
<1>5. 0 <= CmdCap /\ 0 <= RspCap BY CapAssumption
<1> QED BY <1>1, <1>2, <1>3, <1>4, <1>5 DEF TypeOK

\* What Accepts does to the command queue and to the identifiers.
LEMMA AcceptsType ==
    ASSUME TypeOK, session' = session,
           NEW q \in QueueOf(Message), NEW t \in {QUIT} \cup Ops, Accepts(q, t)
    PROVE  /\ sent' = sent + 1
           /\ cmd' \in QueueOf(Message)'
           /\ Len(cmd'.msgs) <= CmdCap
           /\ Identifier \subseteq Identifier'
           /\ Message \subseteq Message'
           /\ Reply \subseteq Reply'
<1>1. sent' = sent + 1 BY DEF Accepts
<1>2. Identifier \subseteq Identifier' /\ sent + 1 \in Identifier'
  BY <1>1 DEF Identifier, TypeOK
<1>3. Message \subseteq Message' /\ Reply \subseteq Reply'
  BY <1>2 DEF Message, Reply
<1> DEFINE m == [mtype |-> t, id |-> sent + 1, session |-> session]
<1>4. m \in Message' BY <1>2 DEF Message, TypeOK
<1>5. q \in QueueOf(Message')
  <2>1. q.msgs \in Seq(Message') BY <1>3, SeqOfSuperset DEF QueueOf
  <2> QED BY <2>1 DEF QueueOf
<1>6. cmd' = Sent(q, m) /\ Len(q.msgs) < CmdCap BY DEF Accepts, HasRoom
<1>7. cmd' \in QueueOf(Message') /\ Len(cmd'.msgs) = Len(q.msgs) + 1
  BY <1>4, <1>5, <1>6, SentType
<1>8. Len(q.msgs) \in Nat BY <1>5 DEF QueueOf
<1> QED BY <1>1, <1>2, <1>3, <1>6, <1>7, <1>8, CapAssumption DEF QueueOf

\* Every step keeps every type, action by action.
LEMMA TypeStep == TypeOK /\ [Next]_vars => TypeOK'
<1> SUFFICES ASSUME TypeOK, [Next]_vars PROVE TypeOK'
  OBVIOUS
<1> USE CapAssumption
<1>1. ASSUME NEW b \in Backends, Launch(b) PROVE TypeOK'
  <2>1. session' = session + 1 /\ sent' = sent /\ session' \in Nat
    BY <1>1 DEF Launch, ghosts, TypeOK
  <2>2. Identifier' = Identifier /\ Message \subseteq Message' /\ Reply \subseteq Reply'
    BY <2>1 DEF Identifier, Message, Reply, TypeOK
  <2>3. cmd.msgs \in Seq(Message') /\ rsp.msgs \in Seq(Reply')
    BY <2>2, SeqOfSuperset DEF TypeOK, QueueOf
  <2>4. cmd' \in QueueOf(Message)' /\ rsp' \in QueueOf(Reply)'
    BY <1>1, <2>3 DEF Launch, queues, TypeOK, QueueOf
  <2>5. job' \in [Backends -> Message' \cup {NoJob}]
    BY <1>1, <2>2 DEF Launch, TypeOK
  <2>6. pc' \in [Backends -> PcStates] BY <1>1 DEF Launch, Forks, TypeOK
  <2>7. held = 0 BY <1>1 DEF Launch, TypeOK
  <2> QED BY <1>1, <2>1, <2>2, <2>4, <2>5, <2>6, <2>7 DEF Launch, queues, ghosts, TypeOK
<1>2. ASSUME NEW b \in Backends,
             \/ LaunchAgain(b) \/ StartFails(b) \/ BackendKilled(b) \/ WorkSucceeds(b)
             \/ WorkFails(b) \/ WorkEndsQuietly(b) \/ ResponseUndeliverable(b)
      PROVE TypeOK'
  <2>1. pc' \in [Backends -> PcStates]
    BY <1>2 DEF LaunchAgain, Forks, StartFails, BackendKilled, WorkSucceeds, WorkFails,
                WorkEndsQuietly, ResponseUndeliverable, TypeOK
  <2>2. UNCHANGED <<job, frontend, queues, ghosts>>
    BY <1>2 DEF LaunchAgain, Forks, StartFails, BackendKilled, WorkSucceeds, WorkFails,
                WorkEndsQuietly, ResponseUndeliverable
  <2> QED BY <2>1, <2>2 DEF frontend, queues, ghosts, TypeOK, Identifier, Message, Reply, QueueOf
<1>3. ASSUME NEW b \in Backends, OpenCommandQueue(b) PROVE TypeOK'
  <2>0. cmd \in QueueOf(Message) /\ cmd' = Opened(cmd, {b})
    BY <1>3 DEF OpenCommandQueue, TypeOK
  <2>1. cmd' \in QueueOf(Message) /\ cmd'.msgs = cmd.msgs
    BY <2>0, OpenedType
  <2> QED BY <1>3, <2>1 DEF OpenCommandQueue, frontend, ghosts, TypeOK, Identifier,
                            Message, Reply, QueueOf
<1>4. ASSUME NEW b \in Backends, OpenResponseQueue(b) PROVE TypeOK'
  <2>0. rsp \in QueueOf(Reply) /\ rsp' = Opened(rsp, {b})
    BY <1>4 DEF OpenResponseQueue, TypeOK
  <2>1. rsp' \in QueueOf(Reply) /\ rsp'.msgs = rsp.msgs
    BY <2>0, OpenedType
  <2> QED BY <1>4, <2>1 DEF OpenResponseQueue, frontend, ghosts, TypeOK, Identifier,
                            Message, Reply, QueueOf
<1>5. ASSUME NEW b \in Backends, Receive(b) \/ ReceiveQuit(b) PROVE TypeOK'
  <2>1. Takes(b) /\ UNCHANGED <<cmdKey, rspKey, rsp, frontend, sent, lost, answers>>
    BY <1>5 DEF Receive, ReceiveQuit
  <2>2. /\ cmd' \in QueueOf(Message) /\ Len(cmd'.msgs) = Len(cmd.msgs) - 1
        /\ Head(cmd.msgs) \in Message
    BY <2>1, ReceivedType DEF Takes, TypeOK
  <2>3. Len(cmd'.msgs) <= CmdCap BY <2>2 DEF TypeOK, QueueOf
  <2>4. log' \in Seq(Identifier) BY <2>1, <2>2 DEF Takes, TypeOK, Message
  <2>5. pc' \in [Backends -> PcStates] /\ job' \in [Backends -> Message \cup {NoJob}]
    BY <1>5, <2>2 DEF Receive, ReceiveQuit, TypeOK
  <2>6. Identifier' = Identifier /\ Message' = Message /\ Reply' = Reply
    BY <2>1 DEF frontend, Identifier, Message, Reply
  <2> QED BY <2>1, <2>2, <2>3, <2>4, <2>5, <2>6 DEF frontend, TypeOK, QueueOf
<1>6. ASSUME NEW b \in Backends, SendResponse(b) PROVE TypeOK'
  <2> DEFINE r == [text |-> pc[b], id |-> job[b].id, session |-> job[b].session]
  <2>1. r \in Reply
    BY <1>6 DEF SendResponse, TypeOK, Reply, Message, NoJob, Identifier
  <2>2. rsp' = Sent(rsp, r) /\ Len(rsp.msgs) < RspCap
    BY <1>6 DEF SendResponse, HasRoom
  <2>0. rsp \in QueueOf(Reply) BY DEF TypeOK
  <2>3. rsp' \in QueueOf(Reply) /\ Len(rsp.msgs) \in Nat /\ Len(rsp'.msgs) = Len(rsp.msgs) + 1
    BY <2>0, <2>1, <2>2, SentType
  <2>4. Len(rsp'.msgs) <= RspCap BY <2>2, <2>3
  <2>5. pc' \in [Backends -> PcStates] BY <1>6 DEF SendResponse, TypeOK
  <2> QED BY <1>6, <2>3, <2>4, <2>5 DEF SendResponse, frontend, ghosts, TypeOK, Identifier,
                                        Message, Reply, QueueOf
<1>7. ASSUME NEW op \in Ops, SendMessage(op) PROVE TypeOK'
  <2>1. Opened(cmd, {}) \in QueueOf(Message) BY OpenedType DEF TypeOK
  <2>2. Accepts(Opened(cmd, {}), op) /\ session' = session BY <1>7 DEF SendMessage
  <2>3. /\ sent' = sent + 1 /\ cmd' \in QueueOf(Message)' /\ Len(cmd'.msgs) <= CmdCap
        /\ Identifier \subseteq Identifier' /\ Message \subseteq Message' /\ Reply \subseteq Reply'
    BY <2>1, <2>2, AcceptsType
  <2>4. rsp.msgs \in Seq(Reply') /\ log \in Seq(Identifier') /\ answers \in Seq(Identifier')
    BY <2>3, SeqOfSuperset DEF TypeOK, QueueOf
  <2> QED BY <1>7, <2>3, <2>4 DEF SendMessage, backend, TypeOK, QueueOf
<1>8. ASSUME NEW op \in Ops, SendBlocks(op) \/ SendFails(op) PROVE TypeOK'
  <2>1. op \in 2..8 BY OpsAssumption
  <2>2. polling' \in BOOLEAN BY <1>8 DEF SendBlocks, SendFails, TypeOK
  <2>3. UNCHANGED <<session, queues, backend, ghosts>> BY <1>8 DEF SendBlocks, SendFails
  <2>4. /\ held' \in {0} \cup Ops /\ gui' \in GuiStates
        /\ held' # 0 <=> gui' = "sending"
    <3>1. CASE SendBlocks(op) BY <2>1, <3>1 DEF SendBlocks
    <3>2. CASE SendFails(op)
      <4>1. held' = held /\ gui = "running" /\ gui' \in {"running", "off"}
        BY <3>2 DEF SendFails
      <4> QED BY <4>1 DEF TypeOK
    <3> QED BY <1>8, <3>1, <3>2
  <2> QED BY <2>2, <2>3, <2>4 DEF queues, backend, ghosts, TypeOK, Identifier,
                     Message, Reply, QueueOf
<1>9. CASE SendResumes
  <2>1. held \in {QUIT} \cup Ops BY <1>9 DEF SendResumes, TypeOK
  <2>2. Accepts(cmd, held) /\ session' = session BY <1>9 DEF SendResumes
  <2>3. /\ sent' = sent + 1 /\ cmd' \in QueueOf(Message)' /\ Len(cmd'.msgs) <= CmdCap
        /\ Identifier \subseteq Identifier' /\ Message \subseteq Message' /\ Reply \subseteq Reply'
    BY <2>1, <2>2, AcceptsType DEF TypeOK
  <2>4. rsp.msgs \in Seq(Reply') /\ log \in Seq(Identifier') /\ answers \in Seq(Identifier')
    BY <2>3, SeqOfSuperset DEF TypeOK, QueueOf
  <2> QED BY <1>9, <2>3, <2>4 DEF SendResumes, backend, TypeOK, QueueOf
<1>10. CASE Shutdown \/ QuitResumes
  <2>1. /\ UNCHANGED <<held, session, cmdKey, rspKey, rsp, backend, log, lost, answers>>
        /\ polling' \in BOOLEAN /\ gui' \in GuiStates \ {"sending"} /\ gui # "sending"
    BY <1>10 DEF Shutdown, QuitResumes, TypeOK
  <2>2. CASE Accepts(cmd, QUIT)
    <3>1. /\ sent' = sent + 1 /\ cmd' \in QueueOf(Message)' /\ Len(cmd'.msgs) <= CmdCap
          /\ Identifier \subseteq Identifier' /\ Message \subseteq Message' /\ Reply \subseteq Reply'
      BY <2>1, <2>2, AcceptsType DEF TypeOK
    <3>2. rsp.msgs \in Seq(Reply') /\ log \in Seq(Identifier') /\ answers \in Seq(Identifier')
      BY <3>1, SeqOfSuperset DEF TypeOK, QueueOf
    <3> QED BY <2>1, <3>1, <3>2 DEF backend, TypeOK, QueueOf
  <2>3. CASE UNCHANGED <<cmd, sent>>
    BY <2>1, <2>3 DEF backend, TypeOK, Identifier, Message, Reply, QueueOf
  <2> QED BY <1>10, <2>2, <2>3 DEF Shutdown, QuitResumes
<1>11. CASE ReadBackendMessage
  <2>1. CASE rsp.msgs = <<>>
    <3>0. rsp \in QueueOf(Reply) /\ rsp' = Opened(rsp, {}) /\ answers' = answers
      BY <1>11, <2>1 DEF ReadBackendMessage, TypeOK
    <3>1. rsp' \in QueueOf(Reply) /\ rsp'.msgs = rsp.msgs
      BY <3>0, OpenedType
    <3> QED BY <1>11, <3>0, <3>1 DEF ReadBackendMessage, frontend, backend, TypeOK, Identifier,
                               Message, Reply, QueueOf
  <2>2. CASE rsp.msgs # <<>>
    <3>0. rsp \in QueueOf(Reply) /\ rsp' = Received(rsp) BY <1>11, <2>2 DEF ReadBackendMessage, TypeOK
    <3>1. /\ rsp' \in QueueOf(Reply) /\ Len(rsp.msgs) \in Nat /\ Len(rsp'.msgs) = Len(rsp.msgs) - 1
          /\ Head(rsp.msgs) \in Reply
      BY <2>2, <3>0, ReceivedType
    <3>2. answers' \in Seq(Identifier)
      <4>1. Head(rsp.msgs).id \in Identifier BY <3>1 DEF Reply
      <4>2. answers' = Append(answers, Head(rsp.msgs).id) /\ answers \in Seq(Identifier)
        BY <1>11, <2>2 DEF ReadBackendMessage, TypeOK
      <4> QED BY <4>1, <4>2
    <3>3. Len(rsp'.msgs) <= RspCap BY <3>1 DEF TypeOK
    <3>4. Identifier' = Identifier /\ Message' = Message /\ Reply' = Reply
      BY <1>11 DEF ReadBackendMessage, frontend, Identifier, Message, Reply
    <3> QED BY <1>11, <3>1, <3>2, <3>3, <3>4 DEF ReadBackendMessage, frontend, backend, TypeOK, QueueOf
  <2> QED BY <2>1, <2>2
<1>12. CASE RemoveCommandQueue
  <2>1. cmd' \in QueueOf(Message) /\ Len(cmd'.msgs) <= CmdCap
    BY <1>12, NoQueueType DEF RemoveCommandQueue
  <2>2. lost' \subseteq Identifier
    <3>0. cmd.msgs \in Seq(Message) BY DEF TypeOK, QueueOf
    <3>1. \A i \in DOMAIN cmd.msgs : cmd.msgs[i].id \in Identifier
      <4> TAKE i \in DOMAIN cmd.msgs
      <4>1. cmd.msgs[i] \in Message BY <3>0
      <4> QED BY <4>1 DEF Message
    <3> QED BY <1>12, <3>1 DEF RemoveCommandQueue, TypeOK
  <2> QED BY <1>12, <2>1, <2>2 DEF RemoveCommandQueue, backend, TypeOK, Identifier, Message,
                                   Reply, QueueOf
<1>13. CASE RemoveResponseQueue
  <2>1. rsp' \in QueueOf(Reply) /\ Len(rsp'.msgs) <= RspCap
    <3>1. rsp' = NoQueue \/ rsp' = rsp BY <1>13 DEF RemoveResponseQueue
    <3>2. CASE rsp' = NoQueue BY <3>2, NoQueueType
    <3>3. CASE rsp' = rsp BY <3>3 DEF TypeOK
    <3> QED BY <3>1, <3>2, <3>3
  <2> QED BY <1>13, <2>1 DEF RemoveResponseQueue, backend, ghosts, TypeOK, Identifier, Message,
                             Reply, QueueOf
<1>14. CASE Killed
  BY <1>14 DEF Killed, queues, backend, ghosts, TypeOK, Identifier, Message, Reply, QueueOf
<1>15. CASE UNCHANGED vars
  BY <1>15 DEF vars, TypeOK, Identifier, Message, Reply, QueueOf
<1> QED
  BY <1>1, <1>2, <1>3, <1>4, <1>5, <1>6, <1>7, <1>8, <1>9, <1>10, <1>11, <1>12, <1>13, <1>14,
     <1>15 DEF Next, FrontendStep, UserStep, BackendStep, Starts, Serves

\* The type invariant: no queue of either process ever exceeds its capacity,
\* whatever the operations, the backends and the faults are.
THEOREM TypeCorrect == Spec => []TypeOK
BY TypeInit, TypeStep, PTL DEF Spec

-----------------------------------------------------------------------------
(* Order and conservation of messages.  What a step does to the identifiers  *)
(* is one of four things.                                                    *)

Keeps == sent' = sent /\ log' = log /\ lost' = lost /\ cmd'.msgs = cmd.msgs

Enters ==
    /\ sent' = sent + 1 /\ log' = log /\ lost' = lost
    /\ \E m : m.id = sent + 1 /\ cmd'.msgs = Append(cmd.msgs, m)

IsTaken ==
    /\ cmd.msgs # <<>>
    /\ log' = Append(log, Head(cmd.msgs).id)
    /\ cmd'.msgs = Tail(cmd.msgs)
    /\ sent' = sent /\ lost' = lost

IsDiscarded ==
    /\ cmd'.msgs = <<>>
    /\ lost' = lost \cup Range(Ids(cmd.msgs))
    /\ sent' = sent /\ log' = log

\* Accepts is the one way a message enters the command queue.
LEMMA AcceptsEnters ==
    ASSUME NEW q, NEW t, q.msgs = cmd.msgs, DOMAIN q = {"live", "msgs", "users"},
           Accepts(q, t), UNCHANGED <<log, lost>>
    PROVE  Enters
<1> DEFINE m == [mtype |-> t, id |-> sent + 1, session |-> session]
<1>1. cmd' = Sent(q, m) /\ sent' = sent + 1 BY DEF Accepts
<1>2. cmd'.msgs = Append(cmd.msgs, m) BY <1>1 DEF Sent
<1>3. m.id = sent + 1 OBVIOUS
<1> HIDE DEF m
<1> QED BY <1>1, <1>2, <1>3 DEF Enters

\* What a step can do to the commands: a new one enters, the oldest is taken,
\* the queue is discarded, or nothing.
LEMMA MessageSteps ==
    ASSUME TypeOK, [Next]_vars
    PROVE  Keeps \/ Enters \/ IsTaken \/ IsDiscarded
<1>0. DOMAIN cmd = {"live", "msgs", "users"} BY DEF TypeOK, QueueOf
<1>1. ASSUME NEW b \in Backends, BackendStep(b) PROVE Keeps \/ IsTaken
  <2>1. CASE Receive(b) \/ ReceiveQuit(b)
    <3>1. Takes(b) /\ sent' = sent /\ lost' = lost BY <2>1 DEF Receive, ReceiveQuit
    <3>2. cmd' = Received(cmd) BY <3>1 DEF Takes
    <3>3. cmd'.msgs = Tail(cmd.msgs) BY <1>0, <3>2 DEF Received
    <3> QED BY <3>1, <3>3 DEF Takes, IsTaken
  <2>2. CASE OpenCommandQueue(b)
    BY <2>2 DEF OpenCommandQueue, Opened, ghosts, Keeps
  <2>3. CASE ~(Receive(b) \/ ReceiveQuit(b) \/ OpenCommandQueue(b))
    BY <1>1, <2>3 DEF BackendStep, Starts, Serves, Launch, LaunchAgain, StartFails, BackendKilled,
       OpenResponseQueue, WorkSucceeds, WorkFails, WorkEndsQuietly, SendResponse,
       ResponseUndeliverable, queues, ghosts, Keeps
  <2> QED BY <2>1, <2>2, <2>3
<1>2. ASSUME NEW op \in Ops, SendMessage(op) PROVE Enters
  <2>1. Accepts(Opened(cmd, {}), op) /\ UNCHANGED <<log, lost>> BY <1>2 DEF SendMessage
  <2>2. /\ Opened(cmd, {}).msgs = cmd.msgs
        /\ DOMAIN Opened(cmd, {}) = {"live", "msgs", "users"}
    BY DEF Opened
  <2> QED BY <2>1, <2>2, AcceptsEnters
<1>3. CASE SendResumes
  <2>1. Accepts(cmd, held) /\ UNCHANGED <<log, lost>> BY <1>3 DEF SendResumes
  <2> QED BY <1>0, <2>1, AcceptsEnters
<1>4. CASE Shutdown \/ QuitResumes
  <2>1. \/ Accepts(cmd, QUIT) /\ UNCHANGED <<log, lost>>
        \/ UNCHANGED <<cmd, sent, log, lost>>
    BY <1>4 DEF Shutdown, QuitResumes
  <2>2. CASE Accepts(cmd, QUIT) /\ UNCHANGED <<log, lost>>
    BY <1>0, <2>2, AcceptsEnters
  <2> QED BY <2>1, <2>2 DEF Keeps
<1>5. CASE RemoveCommandQueue
  <2>1. cmd'.msgs = <<>> BY <1>5 DEF RemoveCommandQueue, NoQueue
  <2>2. Range(Ids(cmd.msgs)) = {cmd.msgs[i].id : i \in DOMAIN cmd.msgs} BY DEF Range, Ids
  <2> QED BY <1>5, <2>1, <2>2 DEF RemoveCommandQueue, IsDiscarded
<1>6. CASE \/ \E op \in Ops : SendBlocks(op) \/ SendFails(op)
           \/ ReadBackendMessage \/ RemoveResponseQueue \/ Killed \/ UNCHANGED vars
  BY <1>6 DEF SendBlocks, SendFails, ReadBackendMessage, RemoveResponseQueue, Killed, vars,
              queues, ghosts, Keeps
<1> QED BY <1>1, <1>2, <1>3, <1>4, <1>5, <1>6 DEF Next, FrontendStep, UserStep

\* TakenInOrder, spelled out for the two sequences it joins.
InOrder ==
    /\ \A i, j \in DOMAIN log : i < j => log[i] < log[j]
    /\ \A i, j \in DOMAIN cmd.msgs : i < j => cmd.msgs[i].id < cmd.msgs[j].id
    /\ \A i \in DOMAIN log, j \in DOMAIN cmd.msgs : log[i] < cmd.msgs[j].id

MessageInv == TypeOK /\ InOrder /\ NothingVanishes

\* The identifiers of a message queue and of the log, as sets.
LEMMA RangeOfAppend ==
    ASSUME NEW S, NEW s \in Seq(S), NEW x \in S
    PROVE  Range(Append(s, x)) = Range(s) \cup {x}
<1>1. Len(Append(s, x)) = Len(s) + 1 /\ DOMAIN Append(s, x) = 1..(Len(s) + 1)
  OBVIOUS
<1>2. /\ \A i \in 1..Len(s) : Append(s, x)[i] = s[i]
      /\ Append(s, x)[Len(s) + 1] = x
      /\ DOMAIN s = 1..Len(s) /\ Len(s) \in Nat
  OBVIOUS
<1> QED BY <1>1, <1>2 DEF Range

\* The identifiers of a queue grow by the one that is sent,
LEMMA IdsOfAppend ==
    ASSUME NEW s, NEW S, s \in Seq(S), NEW m
    PROVE  Range(Ids(Append(s, m))) = Range(Ids(s)) \cup {m.id}
<1>1. /\ DOMAIN Append(s, m) = 1..(Len(s) + 1)
      /\ \A i \in 1..Len(s) : Append(s, m)[i] = s[i]
      /\ Append(s, m)[Len(s) + 1] = m
      /\ DOMAIN s = 1..Len(s) /\ Len(s) \in Nat
  OBVIOUS
<1> QED BY <1>1 DEF Range, Ids

\* and lose the one that is received.
LEMMA IdsOfTail ==
    ASSUME NEW S, NEW s \in Seq(S), s # <<>>
    PROVE  Range(Ids(s)) = Range(Ids(Tail(s))) \cup {Head(s).id}
<1>1. /\ DOMAIN Tail(s) = 1..(Len(s) - 1)
      /\ \A i \in 1..(Len(s) - 1) : Tail(s)[i] = s[i + 1]
      /\ Head(s) = s[1]
      /\ DOMAIN s = 1..Len(s) /\ Len(s) \in Nat \ {0}
  OBVIOUS
<1>2. \A i \in DOMAIN s : i = 1 \/ i - 1 \in DOMAIN Tail(s)
  BY <1>1
<1>3. \A i \in DOMAIN s : i # 1 => Tail(s)[i - 1] = s[i]
  BY <1>1
<1> QED BY <1>1, <1>2, <1>3 DEF Range, Ids

\* At the start there are no commands.
LEMMA MessageInit == Init => MessageInv
<1> SUFFICES ASSUME Init PROVE MessageInv
  OBVIOUS
<1>1. TypeOK BY TypeInit
<1>2. cmd.msgs = <<>> /\ log = <<>> /\ lost = {} /\ sent = 0 BY DEF Init, NoQueue
<1>3. InOrder BY <1>2 DEF InOrder
<1>4. NothingVanishes BY <1>2 DEF NothingVanishes, Range, Ids
<1> QED BY <1>1, <1>3, <1>4 DEF MessageInv

\* Each of the four kinds of step keeps the order and the conservation of the
\* commands.
LEMMA MessageStep == MessageInv /\ [Next]_vars => MessageInv'
<1> SUFFICES ASSUME MessageInv, [Next]_vars PROVE MessageInv'
  OBVIOUS
<1>1. TypeOK /\ TypeOK' BY TypeStep DEF MessageInv
<1>2. InOrder /\ NothingVanishes BY DEF MessageInv
<1> DEFINE waiting == Range(Ids(cmd.msgs))
<1>3. /\ 1..sent = Range(log) \cup waiting \cup lost
      /\ lost \cap (Range(log) \cup waiting) = {}
  BY <1>2 DEF NothingVanishes
<1>4. /\ cmd.msgs \in Seq(Message) /\ log \in Seq(Identifier) /\ sent \in Nat
      /\ log \in Seq(Nat) /\ lost \subseteq 0..sent
  BY <1>1, SeqOfSuperset DEF TypeOK, QueueOf, Identifier
<1>5. /\ \A i \in DOMAIN cmd.msgs : cmd.msgs[i].id \in 0..sent
      /\ \A i \in DOMAIN log : log[i] \in 0..sent
  <2>1. \A i \in DOMAIN cmd.msgs : cmd.msgs[i] \in Message BY <1>4
  <2> QED BY <1>4, <2>1 DEF Message, Identifier
<1>6. /\ Range(log) \subseteq 0..sent /\ waiting \subseteq 0..sent
      /\ Range(log) \cap waiting = {}
  <2>1. Range(log) \subseteq 0..sent /\ waiting \subseteq 0..sent
    BY <1>5 DEF Range, Ids
  <2>2. \A i \in DOMAIN log, j \in DOMAIN cmd.msgs : log[i] # cmd.msgs[j].id
    BY <1>2, <1>4, <1>5 DEF InOrder
  <2> QED BY <2>1, <2>2 DEF Range, Ids
<1>7. NothingVanishes' =
        (/\ 1..sent' = Range(log') \cup Range(Ids(cmd'.msgs)) \cup lost'
         /\ lost' \cap (Range(log') \cup Range(Ids(cmd'.msgs))) = {})
  BY DEF NothingVanishes, Range, Ids
<1>8. CASE Keeps
  <2>1. InOrder' BY <1>2, <1>8 DEF Keeps, InOrder
  <2>2. NothingVanishes' BY <1>3, <1>7, <1>8 DEF Keeps
  <2> QED BY <1>1, <2>1, <2>2 DEF MessageInv
<1>9. CASE Enters
  <2>1. PICK m : m.id = sent + 1 /\ cmd'.msgs = Append(cmd.msgs, m)
    BY <1>9 DEF Enters
  <2>2. /\ \A i \in 1..Len(cmd.msgs) : cmd'.msgs[i] = cmd.msgs[i]
        /\ cmd'.msgs[Len(cmd.msgs) + 1] = m
        /\ DOMAIN cmd'.msgs = 1..(Len(cmd.msgs) + 1)
        /\ DOMAIN cmd.msgs = 1..Len(cmd.msgs) /\ Len(cmd.msgs) \in Nat
    BY <1>4, <2>1
  <2>3. InOrder'
    <3>1. \A i, j \in DOMAIN cmd'.msgs : i < j => cmd'.msgs[i].id < cmd'.msgs[j].id
      BY <1>2, <1>4, <1>5, <2>1, <2>2 DEF InOrder
    <3>2. \A i \in DOMAIN log, j \in DOMAIN cmd'.msgs : log[i] < cmd'.msgs[j].id
      BY <1>2, <1>4, <1>5, <2>1, <2>2 DEF InOrder
    <3> QED BY <1>2, <1>9, <3>1, <3>2 DEF InOrder, Enters
  <2>4. Range(Ids(cmd'.msgs)) = waiting \cup {sent + 1}
    BY <1>4, <2>1, IdsOfAppend
  <2>5. 1..(sent + 1) = 1..sent \cup {sent + 1} /\ sent + 1 \notin 0..sent
    BY <1>4
  <2>6. NothingVanishes'
    <3> HIDE DEF waiting
    <3>1. sent' = sent + 1 /\ log' = log /\ lost' = lost BY <1>9 DEF Enters
    <3>2. 1..sent' = Range(log') \cup Range(Ids(cmd'.msgs)) \cup lost'
      BY <1>3, <2>4, <2>5, <3>1
    <3>3. lost' \cap (Range(log') \cup Range(Ids(cmd'.msgs))) = {}
      BY <1>3, <1>4, <2>4, <2>5, <3>1
    <3> QED BY <1>7, <3>2, <3>3
  <2> QED BY <1>1, <2>3, <2>6 DEF MessageInv
<1>10. CASE IsTaken
  <2> DEFINE x == Head(cmd.msgs).id
  <2>1. /\ log' = Append(log, x) /\ cmd'.msgs = Tail(cmd.msgs) /\ cmd.msgs # <<>>
        /\ sent' = sent /\ lost' = lost
    BY <1>10 DEF IsTaken
  <2>2. /\ DOMAIN cmd'.msgs = 1..(Len(cmd.msgs) - 1)
        /\ \A i \in 1..(Len(cmd.msgs) - 1) : cmd'.msgs[i] = cmd.msgs[i + 1]
        /\ x = cmd.msgs[1].id
        /\ DOMAIN cmd.msgs = 1..Len(cmd.msgs) /\ Len(cmd.msgs) \in Nat \ {0}
    BY <1>4, <2>1
  <2>3. x \in Nat /\ x \in 0..sent BY <1>5, <2>2
  <2>4. /\ DOMAIN log' = 1..(Len(log) + 1) /\ Len(log) \in Nat /\ DOMAIN log = 1..Len(log)
        /\ \A i \in 1..Len(log) : log'[i] = log[i]
        /\ log'[Len(log) + 1] = x
    BY <1>4, <2>1, <2>3
  <2>5. InOrder'
    <3>0. \A j \in DOMAIN cmd'.msgs :
             /\ j + 1 \in DOMAIN cmd.msgs
             /\ cmd'.msgs[j] = cmd.msgs[j + 1]
             /\ x < cmd.msgs[j + 1].id
      <4> TAKE j \in DOMAIN cmd'.msgs
      <4>1. j \in 1..(Len(cmd.msgs) - 1) /\ j + 1 \in DOMAIN cmd.msgs
            /\ 1 \in DOMAIN cmd.msgs /\ 1 < j + 1
        BY <2>2
      <4>2. cmd.msgs[1].id < cmd.msgs[j + 1].id BY <1>2, <4>1 DEF InOrder
      <4> QED BY <2>2, <4>1, <4>2
    <3>1. \A i, j \in DOMAIN log' : i < j => log'[i] < log'[j]
      BY <1>2, <2>2, <2>4 DEF InOrder
    <3>2. \A i, j \in DOMAIN cmd'.msgs : i < j => cmd'.msgs[i].id < cmd'.msgs[j].id
      <4> TAKE i, j \in DOMAIN cmd'.msgs
      <4> HAVE i < j
      <4>1. i + 1 < j + 1 BY <2>2
      <4> QED BY <1>2, <3>0, <4>1 DEF InOrder
    <3>3. \A i \in DOMAIN log', j \in DOMAIN cmd'.msgs : log'[i] < cmd'.msgs[j].id
      BY <1>2, <2>4, <3>0 DEF InOrder
    <3> QED BY <3>1, <3>2, <3>3 DEF InOrder
  <2>6. /\ waiting = Range(Ids(cmd'.msgs)) \cup {x}
        /\ Range(log') = Range(log) \cup {x}
    BY <1>4, <2>1, <2>3, IdsOfTail, RangeOfAppend
  <2>7. NothingVanishes'
    <3> HIDE DEF waiting, x
    <3> QED BY <1>3, <1>7, <2>1, <2>6
  <2> QED BY <1>1, <2>5, <2>7 DEF MessageInv
<1>11. CASE IsDiscarded
  <2>1. cmd'.msgs = <<>> /\ lost' = lost \cup waiting /\ sent' = sent /\ log' = log
    BY <1>11 DEF IsDiscarded
  <2>2. InOrder' BY <1>2, <2>1 DEF InOrder
  <2>3. Range(Ids(cmd'.msgs)) = {} BY <2>1 DEF Range, Ids
  <2>4. NothingVanishes'
    <3> HIDE DEF waiting
    <3> QED BY <1>3, <1>6, <1>7, <2>1, <2>3
  <2> QED BY <1>1, <2>2, <2>4 DEF MessageInv
<1> QED BY <1>1, <1>8, <1>9, <1>10, <1>11, MessageSteps

\* Two increasing sequences, the second above the first, joined.
LEMMA JoinedIncreasing ==
    ASSUME NEW a \in Seq(Nat), NEW b \in Seq(Nat), Increasing(a), Increasing(b),
           \A i \in DOMAIN a, j \in DOMAIN b : a[i] < b[j]
    PROVE  Increasing(a \o b)
<1> DEFINE s == a \o b
<1>1. Len(a) \in Nat /\ Len(b) \in Nat OBVIOUS
<1>2. Len(s) = Len(a) + Len(b) OBVIOUS
<1>3. DOMAIN s = 1..(Len(a) + Len(b)) OBVIOUS
<1>4. ASSUME NEW i \in 1..Len(a) PROVE s[i] = a[i]
  OBVIOUS
<1>5. ASSUME NEW i \in 1..Len(s), i > Len(a) PROVE s[i] = b[i - Len(a)]
  BY <1>1, <1>2, <1>5
<1> HIDE DEF s
<1> SUFFICES ASSUME NEW i \in DOMAIN s, NEW j \in DOMAIN s, i < j PROVE s[i] < s[j]
  BY DEF Increasing, s
<1>6. CASE j <= Len(a)
  <2>1. i \in DOMAIN a /\ j \in DOMAIN a /\ s[i] = a[i] /\ s[j] = a[j]
    BY <1>1, <1>3, <1>4, <1>6
  <2> QED BY <2>1 DEF Increasing
<1>7. CASE i > Len(a)
  <2>1. i - Len(a) \in DOMAIN b /\ j - Len(a) \in DOMAIN b /\ i - Len(a) < j - Len(a)
    BY <1>1, <1>3, <1>7
  <2>2. s[i] = b[i - Len(a)] /\ s[j] = b[j - Len(a)]
    BY <1>1, <1>2, <1>3, <1>5, <1>7
  <2> QED BY <2>1, <2>2 DEF Increasing
<1>8. CASE i <= Len(a) /\ j > Len(a)
  <2>1. i \in DOMAIN a /\ j - Len(a) \in DOMAIN b /\ s[i] = a[i] /\ s[j] = b[j - Len(a)]
    BY <1>1, <1>2, <1>3, <1>4, <1>5, <1>8
  <2> QED BY <2>1
<1>9. i \in Nat /\ j \in Nat BY <1>1, <1>3
<1> QED BY <1>1, <1>6, <1>7, <1>8, <1>9

\* InOrder is TakenInOrder.
LEMMA InOrderIsIncreasing ==
    ASSUME TypeOK, InOrder
    PROVE  TakenInOrder
<1> DEFINE ids == Ids(cmd.msgs)
<1>1. log \in Seq(Nat) /\ cmd.msgs \in Seq(Message)
  BY SeqOfSuperset DEF TypeOK, QueueOf, Identifier
<1>2. ids \in Seq(Nat)
      /\ DOMAIN ids = DOMAIN cmd.msgs
      /\ \A i \in DOMAIN cmd.msgs : ids[i] = cmd.msgs[i].id
  <2>1. \A i \in 1..Len(cmd.msgs) : cmd.msgs[i].id \in Nat
    <3>1. \A i \in 1..Len(cmd.msgs) : cmd.msgs[i] \in Message BY <1>1
    <3> QED BY <3>1 DEF Message, Identifier, TypeOK
  <2>2. ids = [i \in 1..Len(cmd.msgs) |-> cmd.msgs[i].id] /\ Len(cmd.msgs) \in Nat
    BY <1>1 DEF Ids
  <2> HIDE DEF ids
  <2> QED BY <1>1, <2>1, <2>2
<1> HIDE DEF ids
<1>3. Increasing(log) BY DEF InOrder, Increasing
<1>4. Increasing(ids) BY <1>2 DEF InOrder, Increasing
<1>5. \A i \in DOMAIN log, j \in DOMAIN ids : log[i] < ids[j] BY <1>2 DEF InOrder
<1>6. Increasing(log \o ids) BY <1>1, <1>2, <1>3, <1>4, <1>5, JoinedIncreasing
<1> QED BY <1>6 DEF TakenInOrder, ids

\* Commands are taken in the order of their sending and at most once, by any
\* number of backends, over queues of any capacity, through crashes of either
\* side and second launches.
THEOREM OrderOfCommands == Spec => []TakenInOrder
<1>1. MessageInv => TakenInOrder BY InOrderIsIncreasing DEF MessageInv
<1> QED BY MessageInit, MessageStep, <1>1, PTL DEF Spec

\* Every accepted message is taken, waiting, or discarded with its queue.
THEOREM Conservation == Spec => []NothingVanishes
<1>1. MessageInv => NothingVanishes BY DEF MessageInv
<1> QED BY MessageInit, MessageStep, <1>1, PTL DEF Spec

-----------------------------------------------------------------------------
(* The budget of a freeze.  Each identifier given out so far accounts for at *)
(* most one message, one busy backend or one answer.                         *)

Budget == sent >= Len(cmd.msgs) + Len(rsp.msgs) + Cardinality(Busy)

BudgetInv == TypeOK /\ Budget

\* The busy backends are finitely many.
LEMMA BusyCounts ==
    ASSUME NEW S, S \subseteq Backends, NEW T, T \subseteq S
    PROVE  /\ IsFiniteSet(S) /\ Cardinality(S) \in Nat
           /\ Cardinality(T) \in Nat /\ Cardinality(T) <= Cardinality(S)
BY BackendsAssumption, FS_Subset, FS_CardinalityType

\* Additions on natural numbers, for the counting below.
LEMMA Sums ==
    ASSUME NEW s1 \in Nat, NEW s \in Nat, NEW c \in Nat, NEW c1 \in Nat, NEW r \in Nat,
           NEW r1 \in Nat, NEW n \in Nat, NEW n1 \in Nat,
           s >= c + r + n, s1 + c >= s + c1, r1 <= r, n1 <= n
    PROVE  s1 >= c1 + r1 + n1
OBVIOUS

\* Every message that is somewhere, in a queue or in the hands of a backend,
\* has once been sent.
LEMMA BudgetStep == BudgetInv /\ [Next]_vars => BudgetInv'
<1> SUFFICES ASSUME BudgetInv, [Next]_vars PROVE BudgetInv'
  OBVIOUS
<1>1. TypeOK /\ TypeOK' /\ Budget BY TypeStep DEF BudgetInv
<1>2. /\ Len(cmd.msgs) \in Nat /\ Len(rsp.msgs) \in Nat /\ sent \in Nat
      /\ Len(cmd'.msgs) \in Nat /\ Len(rsp'.msgs) \in Nat
  BY <1>1 DEF TypeOK, QueueOf
<1>3. Busy \subseteq Backends /\ Busy' \subseteq Backends BY DEF Busy
<1>4. Cardinality(Busy) \in Nat /\ Cardinality(Busy') \in Nat /\ IsFiniteSet(Busy)
  BY <1>3, BusyCounts
<1> DEFINE n == Cardinality(Busy)
           nn == Cardinality(Busy')
           c == Len(cmd.msgs)
           cc == Len(cmd'.msgs)
           r == Len(rsp.msgs)
           rr == Len(rsp'.msgs)
<1>11. sent >= c + r + n BY <1>1 DEF Budget
<1>12. sent' >= cc + rr + nn => Budget' BY DEF Budget
<1>13. n \in Nat /\ nn \in Nat /\ c \in Nat /\ cc \in Nat /\ r \in Nat /\ rr \in Nat /\ sent \in Nat
  BY <1>2, <1>4
<1> SUFFICES Budget' BY <1>1 DEF BudgetInv
<1>5. ASSUME Busy' \subseteq Busy, rr <= r, sent' + c >= sent + cc, sent' \in Nat
      PROVE  Budget'
  <2>1. nn <= n BY <1>3, <1>5, BusyCounts
  <2> HIDE DEF n, nn, c, cc, r, rr
  <2>2. rr <= r /\ sent' + c >= sent + cc /\ sent' \in Nat BY <1>5
  <2>9. sent' >= cc + rr + nn BY <1>11, <1>13, <2>1, <2>2, Sums
  <2> QED BY <1>12, <2>9
<1>6. ASSUME NEW b \in Backends, Receive(b) PROVE Budget'
  <2>1. /\ cmd.msgs # <<>> /\ cmd' = Received(cmd) /\ pc[b] = "idle"
        /\ pc' = [pc EXCEPT ![b] = "working"] /\ sent' = sent /\ rsp' = rsp
    BY <1>6 DEF Receive, Takes
  <2>2. cc = c - 1 BY <1>1, <2>1, ReceivedType DEF TypeOK
  <2>5. rr = r BY <2>1
  <2>3. Busy' = Busy \cup {b} /\ b \notin Busy BY <1>1, <2>1 DEF TypeOK, Busy
  <2>4. nn = n + 1 BY <1>4, <2>3, FS_AddElement
  <2> HIDE DEF n, nn, c, cc, r, rr
  <2>9. sent' >= cc + rr + nn BY <1>11, <1>13, <2>1, <2>2, <2>4, <2>5
  <2> QED BY <1>12, <2>9
<1>7. ASSUME NEW b \in Backends, SendResponse(b) PROVE Budget'
  <2> DEFINE reply == [text |-> pc[b], id |-> job[b].id, session |-> job[b].session]
  <2>1. reply \in Reply
    BY <1>1, <1>7 DEF SendResponse, TypeOK, Reply, Message, NoJob, Identifier
  <2>2. /\ rsp' = Sent(rsp, reply) /\ sent' = sent /\ cmd' = cmd /\ pc[b] \in Outcomes
        /\ pc' = [pc EXCEPT ![b] = "idle"]
    BY <1>7 DEF SendResponse, ghosts
  <2>3. rsp \in QueueOf(Reply) BY <1>1 DEF TypeOK
  <2> HIDE DEF reply
  <2>4. rr = r + 1 BY <2>1, <2>2, <2>3, SentType
  <2>5. Busy' = Busy \ {b} /\ b \in Busy BY <1>1, <2>2 DEF TypeOK, Busy
  <2>7. cc = c BY <2>2
  <2>6. nn = n - 1 BY <1>4, <2>5, FS_RemoveElement
  <2> HIDE DEF n, nn, c, cc, r, rr
  <2>9. sent' >= cc + rr + nn BY <1>11, <1>13, <2>2, <2>4, <2>6, <2>7
  <2> QED BY <1>12, <2>9
<1>8. ASSUME NEW b \in Backends, BackendStep(b), ~Receive(b), ~SendResponse(b) PROVE Budget'
  <2>1. Busy' \subseteq Busy
    BY <1>1, <1>8 DEF BackendStep, Starts, Serves, Launch, LaunchAgain, Forks, StartFails,
       BackendKilled, OpenCommandQueue, OpenResponseQueue, ReceiveQuit, WorkSucceeds, WorkFails,
       WorkEndsQuietly, ResponseUndeliverable, TypeOK, Busy
  <2>2. rsp'.msgs = rsp.msgs /\ sent' = sent
    BY <1>8 DEF BackendStep, Starts, Serves, Launch, LaunchAgain, StartFails,
       BackendKilled, OpenCommandQueue, OpenResponseQueue, ReceiveQuit, WorkSucceeds, WorkFails,
       WorkEndsQuietly, ResponseUndeliverable, Opened, queues, ghosts
  <2>3. Len(cmd'.msgs) <= Len(cmd.msgs)
    <3>1. CASE ReceiveQuit(b)
      <4>1. cmd.msgs # <<>> /\ cmd' = Received(cmd) BY <3>1 DEF ReceiveQuit, Takes
      <4>2. cmd \in QueueOf(Message) BY <1>1 DEF TypeOK
      <4>3. Len(cmd'.msgs) = Len(cmd.msgs) - 1 BY <4>1, <4>2, ReceivedType
      <4> QED BY <1>2, <4>3
    <3>2. CASE ~ReceiveQuit(b)
      <4>1. cmd'.msgs = cmd.msgs
        BY <1>8, <3>2 DEF BackendStep, Starts, Serves, Launch, LaunchAgain, StartFails,
           BackendKilled, OpenCommandQueue, OpenResponseQueue, WorkSucceeds, WorkFails,
           WorkEndsQuietly, ResponseUndeliverable, Opened, queues
      <4> QED BY <1>2, <4>1
    <3> QED BY <3>1, <3>2
  <2> QED BY <1>2, <1>5, <2>1, <2>2, <2>3
<1>9. CASE FrontendStep \/ UNCHANGED vars
  <2>1. pc' = pc
    BY <1>9 DEF FrontendStep, UserStep, Shutdown, SendMessage, SendBlocks, SendFails, SendResumes,
       QuitResumes, ReadBackendMessage, RemoveCommandQueue, RemoveResponseQueue, Killed, backend, vars
  <2>2. Busy' = Busy BY <2>1 DEF Busy
  <2>3. Len(rsp'.msgs) <= Len(rsp.msgs)
    <3>1. rsp' \in {rsp, Opened(rsp, {}), NoQueue} \/ (rsp.msgs # <<>> /\ rsp' = Received(rsp))
      BY <1>9 DEF FrontendStep, UserStep, Shutdown, SendMessage, SendBlocks, SendFails, SendResumes,
         QuitResumes, ReadBackendMessage, RemoveCommandQueue, RemoveResponseQueue, Killed, queues, vars
    <3>2. CASE rsp' = rsp BY <1>2, <3>2
    <3>3. CASE rsp' = Opened(rsp, {}) BY <1>2, <3>3 DEF Opened
    <3>4. CASE rsp' = NoQueue BY <1>2, <3>4, NoQueueType
    <3>5. CASE rsp.msgs # <<>> /\ rsp' = Received(rsp)
      <4>1. rsp \in QueueOf(Reply) BY <1>1 DEF TypeOK
      <4>2. Len(rsp'.msgs) = Len(rsp.msgs) - 1 BY <3>5, <4>1, ReceivedType
      <4> QED BY <1>2, <4>2
    <3> QED BY <3>1, <3>2, <3>3, <3>4, <3>5
  <2>4. sent' \in Nat /\ sent' + c >= sent + cc
    <3>1. CASE Keeps BY <1>2, <3>1 DEF Keeps
    <3>2. CASE Enters
      <4>1. PICK m : cmd'.msgs = Append(cmd.msgs, m) BY <3>2 DEF Enters
      <4>2. cmd.msgs \in Seq(Message) BY <1>1 DEF TypeOK, QueueOf
      <4>3. cc = c + 1 BY <4>1, <4>2
      <4>4. sent' = sent + 1 BY <3>2 DEF Enters
      <4> HIDE DEF c, cc
      <4> QED BY <1>13, <4>3, <4>4
    <3>3. CASE IsTaken
      <4>1. cmd.msgs \in Seq(Message) BY <1>1 DEF TypeOK, QueueOf
      <4>2. Len(Tail(cmd.msgs)) = Len(cmd.msgs) - 1 BY <3>3, <4>1 DEF IsTaken
      <4> QED BY <1>2, <3>3, <4>2 DEF IsTaken
    <3>4. CASE IsDiscarded BY <1>2, <3>4 DEF IsDiscarded
    <3> QED BY <1>1, <3>1, <3>2, <3>3, <3>4, MessageSteps
  <2> QED BY <1>5, <2>2, <2>3, <2>4
<1> QED BY <1>6, <1>7, <1>8, <1>9 DEF Next

\* Frontend and backends can wait for each other for ever only after more
\* commands than both queues hold: with one backend and the default limits,
\* 64 + 64 + 1.
THEOREM FreezeTakesMany == Spec => []FreezeBudget
<1>1. Init => BudgetInv
  <2> SUFFICES ASSUME Init PROVE Budget
    BY TypeInit DEF BudgetInv
  <2>1. Busy = {} BY DEF Init, Busy
  <2>2. Len(cmd.msgs) = 0 /\ Len(rsp.msgs) = 0 /\ sent = 0 BY NoQueueType DEF Init
  <2> QED BY <2>1, <2>2, FS_EmptySet DEF Budget
<1>2. BudgetInv => FreezeBudget
  <2> SUFFICES ASSUME BudgetInv, MutuallyBlocked
               PROVE  sent >= CmdCap + RspCap + Cardinality(Stuck)
    BY DEF FreezeBudget
  <2>1. Stuck \subseteq Busy /\ Busy \subseteq Backends
    BY DEF BudgetInv, TypeOK, QueueOf, Stuck, Busy
  <2>2. Cardinality(Stuck) <= Cardinality(Busy) /\ Cardinality(Stuck) \in Nat
        /\ Cardinality(Busy) \in Nat
    BY <2>1, BusyCounts
  <2>3. sent >= CmdCap + RspCap + Cardinality(Busy) /\ sent \in Nat
    BY DEF BudgetInv, Budget, MutuallyBlocked, TypeOK
  <2> QED BY <2>2, <2>3, CapAssumption
<1> QED BY <1>1, <1>2, BudgetStep, PTL DEF Spec

=============================================================================
