-------------------------- MODULE FileManagerReplies --------------------------
(* More proofs about FileManager, again for any set of backends, capacities, *)
(* operations and faults: what becomes of the answers.  A command has one    *)
(* answer, answers keep the order of the commands, a session finds nothing   *)
(* of an earlier one, and the program implements RequestLifecycle.           *)
EXTENDS FileManagerProofs

USE DEF Outcomes, PcStates, GuiStates

-----------------------------------------------------------------------------
(* The kinds of step.  For commands and answers, a step of the two programs  *)
(* is one of ten things.                                                     *)

WorkKept == Busy' = Busy /\ job' = job
AnswersKept == rsp'.msgs = rsp.msgs /\ rsp'.users = rsp.users /\ answers' = answers

Rests == Keeps /\ WorkKept /\ AnswersKept

\* A backend that is not at work becomes a user of the response queue.
Joins(b) ==
    /\ Keeps /\ WorkKept /\ answers' = answers
    /\ b \notin Busy
    /\ rsp'.msgs = rsp.msgs /\ rsp'.users = rsp.users \cup {b}

Makes == Enters /\ WorkKept /\ AnswersKept

TakesUp(b) ==
    /\ IsTaken /\ AnswersKept
    /\ b \in Backends \ Busy
    /\ Busy' = Busy \cup {b}
    /\ job' = [job EXCEPT ![b] = Head(cmd.msgs)]

Obeys == IsTaken /\ WorkKept /\ AnswersKept

GivesUp(b) ==
    /\ Keeps /\ AnswersKept
    /\ b \in Busy
    /\ Busy' = Busy \ {b} /\ job' = job

Replies(b) ==
    /\ Keeps /\ answers' = answers
    /\ b \in Busy \cap rsp.users
    /\ Busy' = Busy \ {b} /\ job' = job
    /\ rsp'.users = rsp.users
    /\ \E m : m.id = job[b].id /\ rsp'.msgs = Append(rsp.msgs, m)

Reads ==
    /\ Keeps /\ WorkKept
    /\ rsp.msgs # <<>>
    /\ rsp'.msgs = Tail(rsp.msgs) /\ rsp'.users = rsp.users
    /\ answers' = Append(answers, Head(rsp.msgs).id)

ClearsCommands == IsDiscarded /\ WorkKept /\ AnswersKept

ClearsAnswers ==
    /\ Keeps /\ WorkKept /\ answers' = answers
    /\ rsp'.msgs = <<>> /\ rsp'.users = {}

\* What a backend's step does to commands and answers (backend.c:275-440).
LEMMA BackendKinds ==
    ASSUME TypeOK, NEW b \in Backends, BackendStep(b)
    PROVE  Rests \/ Joins(b) \/ TakesUp(b) \/ Obeys \/ GivesUp(b) \/ Replies(b)
<1>0. /\ DOMAIN cmd = {"live", "msgs", "users"} /\ DOMAIN rsp = {"live", "msgs", "users"}
      /\ pc \in [Backends -> PcStates]
  BY DEF TypeOK, QueueOf
<1>1. CASE Launch(b) \/ LaunchAgain(b) \/ StartFails(b) \/ WorkSucceeds(b) \/ WorkFails(b)
  <2>1. Busy' = Busy
    BY <1>0, <1>1 DEF Launch, LaunchAgain, Forks, StartFails, WorkSucceeds, WorkFails, Busy
  <2> QED BY <1>1, <2>1 DEF Launch, LaunchAgain, StartFails, WorkSucceeds, WorkFails, queues,
                            ghosts, Rests, Keeps, WorkKept, AnswersKept
<1>2. CASE OpenCommandQueue(b)
  <2>1. Busy' = Busy BY <1>0, <1>2 DEF OpenCommandQueue, Busy
  <2> QED BY <1>2, <2>1 DEF OpenCommandQueue, Opened, ghosts, Rests, Keeps, WorkKept, AnswersKept
<1>3. CASE OpenResponseQueue(b)
  <2>1. Busy' = Busy /\ b \notin Busy BY <1>0, <1>3 DEF OpenResponseQueue, Busy
  <2> QED BY <1>3, <2>1 DEF OpenResponseQueue, Opened, ghosts, Joins, Keeps, WorkKept
<1>4. CASE Receive(b)
  <2>1. Busy' = Busy \cup {b} /\ b \notin Busy BY <1>0, <1>4 DEF Receive, Takes, Busy
  <2>2. cmd'.msgs = Tail(cmd.msgs) BY <1>0, <1>4 DEF Receive, Takes, Received
  <2> QED BY <1>4, <2>1, <2>2 DEF Receive, Takes, TakesUp, IsTaken, AnswersKept
<1>5. CASE ReceiveQuit(b)
  <2>1. Busy' = Busy BY <1>0, <1>5 DEF ReceiveQuit, Takes, Busy
  <2>2. cmd'.msgs = Tail(cmd.msgs) BY <1>0, <1>5 DEF ReceiveQuit, Takes, Received
  <2> QED BY <1>5, <2>1, <2>2 DEF ReceiveQuit, Takes, Obeys, IsTaken, WorkKept, AnswersKept
<1>6. CASE WorkEndsQuietly(b) \/ ResponseUndeliverable(b) \/ BackendKilled(b)
  <2>1. (Busy' = Busy /\ b \notin Busy) \/ (Busy' = Busy \ {b} /\ b \in Busy)
    BY <1>0, <1>6 DEF WorkEndsQuietly, ResponseUndeliverable, BackendKilled, Busy
  <2> QED BY <1>6, <2>1 DEF WorkEndsQuietly, ResponseUndeliverable, BackendKilled, queues, ghosts,
                            Rests, GivesUp, Keeps, WorkKept, AnswersKept
<1>7. CASE SendResponse(b)
  <2>1. Busy' = Busy \ {b} /\ b \in Busy BY <1>0, <1>7 DEF SendResponse, Busy
  <2> DEFINE m == [text |-> pc[b], id |-> job[b].id, session |-> job[b].session]
  <2>2. rsp'.msgs = Append(rsp.msgs, m) /\ rsp'.users = rsp.users
    BY <1>0, <1>7 DEF SendResponse, Sent
  <2>3. m.id = job[b].id OBVIOUS
  <2> HIDE DEF m
  <2> QED BY <1>7, <2>1, <2>2, <2>3 DEF SendResponse, ghosts, Replies, Keeps
<1> QED BY <1>1, <1>2, <1>3, <1>4, <1>5, <1>6, <1>7 DEF BackendStep, Starts, Serves

\* What a step of the frontend does to them (communication.c, ui_manage.c).
LEMMA FrontendKinds ==
    ASSUME TypeOK, FrontendStep \/ UNCHANGED vars
    PROVE  Rests \/ Makes \/ Reads \/ ClearsCommands \/ ClearsAnswers
<1>0. /\ DOMAIN cmd = {"live", "msgs", "users"} /\ DOMAIN rsp = {"live", "msgs", "users"}
  BY DEF TypeOK, QueueOf
<1>1. ASSUME NEW op \in Ops, SendMessage(op) PROVE Makes
  <2>1. Accepts(Opened(cmd, {}), op) /\ UNCHANGED <<rsp, backend, log, lost, answers>>
    BY <1>1 DEF SendMessage
  <2>2. /\ Opened(cmd, {}).msgs = cmd.msgs
        /\ DOMAIN Opened(cmd, {}) = {"live", "msgs", "users"}
    BY DEF Opened
  <2>3. Enters BY <2>1, <2>2, AcceptsEnters
  <2> QED BY <2>1, <2>3 DEF Makes, WorkKept, AnswersKept, Busy, backend
<1>2. CASE SendResumes
  <2>1. Accepts(cmd, held) /\ UNCHANGED <<rsp, backend, log, lost, answers>> BY <1>2 DEF SendResumes
  <2>2. Enters BY <1>0, <2>1, AcceptsEnters
  <2> QED BY <2>1, <2>2 DEF Makes, WorkKept, AnswersKept, Busy, backend
<1>3. CASE Shutdown \/ QuitResumes
  <2>1. /\ Accepts(cmd, QUIT) \/ UNCHANGED <<cmd, sent>>
        /\ UNCHANGED <<rsp, backend, log, lost, answers>>
    BY <1>3 DEF Shutdown, QuitResumes
  <2>2. Enters \/ Keeps BY <1>0, <2>1, AcceptsEnters DEF Keeps
  <2> QED BY <2>1, <2>2 DEF Makes, Rests, WorkKept, AnswersKept, Busy, backend
<1>4. CASE RemoveCommandQueue
  <2>1. cmd'.msgs = <<>> BY <1>4 DEF RemoveCommandQueue, NoQueue
  <2>2. Range(Ids(cmd.msgs)) = {cmd.msgs[i].id : i \in DOMAIN cmd.msgs} BY DEF Range, Ids
  <2> QED BY <1>4, <2>1, <2>2 DEF RemoveCommandQueue, IsDiscarded, ClearsCommands, WorkKept,
                                  AnswersKept, Busy, backend
<1>5. CASE ReadBackendMessage
  <2>1. rsp' = Opened(rsp, {}) \/ rsp' = Received(rsp) BY <1>5 DEF ReadBackendMessage
  <2>2. rsp'.users = rsp.users BY <1>0, <2>1 DEF Opened, Received
  <2>3. UNCHANGED <<cmd, backend, sent, log, lost>> BY <1>5 DEF ReadBackendMessage
  <2>4. Keeps /\ WorkKept BY <2>3 DEF Keeps, WorkKept, Busy, backend
  <2>5. CASE rsp.msgs = <<>>
    BY <1>5, <2>2, <2>4, <2>5 DEF ReadBackendMessage, Opened, Rests, AnswersKept
  <2>6. CASE rsp.msgs # <<>>
    BY <1>0, <1>5, <2>2, <2>4, <2>6 DEF ReadBackendMessage, Received, Reads
  <2> QED BY <2>5, <2>6
<1>6. CASE RemoveResponseQueue
  <2>1. rsp' = rsp \/ (rsp'.msgs = <<>> /\ rsp'.users = {})
    BY <1>6 DEF RemoveResponseQueue, NoQueue
  <2> QED BY <1>6, <2>1 DEF RemoveResponseQueue, ClearsAnswers, Rests, Keeps, WorkKept,
                            AnswersKept, Busy, backend, ghosts
<1>7. CASE (\E op \in Ops : SendBlocks(op) \/ SendFails(op)) \/ Killed \/ UNCHANGED vars
  BY <1>7 DEF SendBlocks, SendFails, Killed, vars, queues, backend, ghosts, Rests, Keeps,
              WorkKept, AnswersKept, Busy
<1> QED BY <1>1, <1>2, <1>3, <1>4, <1>5, <1>6, <1>7 DEF FrontendStep, UserStep

\* Every step is of one of the kinds.
LEMMA Kinds ==
    ASSUME TypeOK, [Next]_vars
    PROVE  \/ Rests \/ Makes \/ Obeys \/ Reads \/ ClearsCommands \/ ClearsAnswers
           \/ \E b \in Backends : Joins(b) \/ TakesUp(b) \/ GivesUp(b) \/ Replies(b)
BY BackendKinds, FrontendKinds DEF Next

-----------------------------------------------------------------------------
(* One answer per command *)

\* The identifiers of a queue are a sequence of their own, which grows, and
\* shrinks, with the queue.
LEMMA IdsSequence ==
    ASSUME NEW s, NEW S, s \in Seq(S), \A m \in S : m.id \in Nat
    PROVE  /\ Ids(s) \in Seq(Nat)
           /\ DOMAIN Ids(s) = DOMAIN s /\ Len(Ids(s)) = Len(s)
           /\ \A i \in DOMAIN s : Ids(s)[i] = s[i].id
<1>1. DOMAIN s = 1..Len(s) /\ Len(s) \in Nat /\ \A i \in 1..Len(s) : s[i] \in S
  OBVIOUS
<1>2. Ids(s) = [i \in 1..Len(s) |-> s[i].id] BY <1>1 DEF Ids
<1>3. \A i \in 1..Len(s) : s[i].id \in Nat BY <1>1
<1>4. Ids(s) \in [1..Len(s) -> Nat] BY <1>2, <1>3
<1>5. Ids(s) \in Seq(Nat) /\ Len(Ids(s)) = Len(s) BY <1>1, <1>2, <1>4
<1> QED BY <1>1, <1>2, <1>5

\* No identifier twice in two sequences.
Distinct(a, b) ==
    /\ \A i, j \in DOMAIN a : a[i] = a[j] => i = j
    /\ \A i, j \in DOMAIN b : b[i] = b[j] => i = j
    /\ \A i \in DOMAIN a, j \in DOMAIN b : a[i] # b[j]

\* Two such sequences joined repeat nothing.
LEMMA DistinctJoined ==
    ASSUME NEW a \in Seq(Nat), NEW b \in Seq(Nat), Distinct(a, b)
    PROVE  IsInjective(a \o b) /\ Range(a \o b) = Range(a) \cup Range(b)
<1> DEFINE s == a \o b
<1>1. /\ Len(a) \in Nat /\ Len(b) \in Nat
      /\ DOMAIN a = 1..Len(a) /\ DOMAIN b = 1..Len(b)
      /\ DOMAIN s = 1..(Len(a) + Len(b))
  OBVIOUS
<1>2. \A i \in 1..Len(a) : s[i] = a[i]
  OBVIOUS
<1>3. \A i \in DOMAIN s : i > Len(a) => i - Len(a) \in DOMAIN b /\ s[i] = b[i - Len(a)]
  <2> TAKE i \in DOMAIN s
  <2> HAVE i > Len(a)
  <2>1. i - Len(a) \in DOMAIN b BY <1>1
  <2> QED BY <1>1, <2>1
<1>4. \A i \in 1..Len(b) : s[Len(a) + i] = b[i] /\ Len(a) + i \in DOMAIN s
  BY <1>1
<1> HIDE DEF s
<1>5. IsInjective(s)
  <2> SUFFICES ASSUME NEW i \in DOMAIN s, NEW j \in DOMAIN s, s[i] = s[j], i # j PROVE FALSE
    BY DEF IsInjective
  <2>1. i \in Nat /\ j \in Nat /\ i >= 1 /\ j >= 1 BY <1>1
  <2>2. CASE i <= Len(a) /\ j <= Len(a) BY <1>1, <1>2, <2>1, <2>2 DEF Distinct
  <2>3. CASE i > Len(a) /\ j > Len(a)
    <3>1. i - Len(a) # j - Len(a) BY <1>1, <2>1
    <3> QED BY <1>3, <2>3, <3>1 DEF Distinct
  <2>4. CASE i <= Len(a) /\ j > Len(a) BY <1>1, <1>2, <1>3, <2>1, <2>4 DEF Distinct
  <2>5. CASE i > Len(a) /\ j <= Len(a) BY <1>1, <1>2, <1>3, <2>1, <2>5 DEF Distinct
  <2> QED BY <1>1, <2>1, <2>2, <2>3, <2>4, <2>5
<1>6. Range(s) \subseteq Range(a) \cup Range(b)
  <2>1. ASSUME NEW i \in DOMAIN s PROVE s[i] \in Range(a) \cup Range(b)
    <3>1. CASE i <= Len(a) BY <1>1, <1>2, <3>1 DEF Range
    <3>2. CASE i > Len(a) BY <1>3, <3>2 DEF Range
    <3> QED BY <1>1, <3>1, <3>2
  <2> QED BY <2>1 DEF Range
<1>7. Range(a) \cup Range(b) \subseteq Range(s)
  <2>1. ASSUME NEW i \in DOMAIN a PROVE a[i] \in Range(s)
    <3>1. i \in DOMAIN s /\ s[i] = a[i] BY <1>1, <1>2
    <3> QED BY <3>1 DEF Range
  <2>2. ASSUME NEW i \in DOMAIN b PROVE b[i] \in Range(s)
    <3>1. Len(a) + i \in DOMAIN s /\ s[Len(a) + i] = b[i] BY <1>1, <1>4
    <3> QED BY <3>1 DEF Range
  <2> QED BY <2>1, <2>2 DEF Range
<1> QED BY <1>5, <1>6, <1>7 DEF s

\* The identifiers of all answers so far, read or waiting.
Answered == Range(answers) \cup Range(Ids(rsp.msgs))

\* OneReplyPerCommand, spelled out for the two sequences it joins.
OneReply ==
    /\ Distinct(answers, Ids(rsp.msgs))
    /\ Answered \subseteq Range(log)
    /\ \A b \in Busy : job[b].id \in Range(log) \ Answered
    /\ \A a, b \in Busy : job[a].id = job[b].id => a = b

ReplyInv == MessageInv /\ OneReply

\* The sequences of identifiers of a state.
LEMMA IdentifierSequences ==
    ASSUME TypeOK
    PROVE  /\ Ids(rsp.msgs) \in Seq(Nat) /\ Ids(cmd.msgs) \in Seq(Nat)
           /\ answers \in Seq(Nat) /\ log \in Seq(Nat)
           /\ rsp.msgs \in Seq(Reply) /\ cmd.msgs \in Seq(Message)
           /\ \A i \in DOMAIN rsp.msgs : rsp.msgs[i].id \in Nat
           /\ \A i \in DOMAIN cmd.msgs : cmd.msgs[i].id \in Nat
<1>1. rsp.msgs \in Seq(Reply) /\ cmd.msgs \in Seq(Message) BY DEF TypeOK, QueueOf
<1>2. (\A m \in Reply : m.id \in Nat) /\ (\A m \in Message : m.id \in Nat)
  BY DEF Reply, Message, Identifier, TypeOK
<1>3. answers \in Seq(Nat) /\ log \in Seq(Nat) BY SeqOfSuperset DEF TypeOK, Identifier
<1>4. Ids(rsp.msgs) \in Seq(Nat) /\ Ids(cmd.msgs) \in Seq(Nat) BY <1>1, <1>2, IdsSequence
<1> QED BY <1>1, <1>2, <1>3, <1>4

\* A command in the queue is younger than every command that was taken.
LEMMA QueuedIsNew ==
    ASSUME MessageInv, NEW x \in Range(log), NEW i \in DOMAIN cmd.msgs
    PROVE  x < cmd.msgs[i].id
BY DEF MessageInv, InOrder, Range

\* A new identifier can join the second sequence,
LEMMA DistinctAppend ==
    ASSUME NEW a \in Seq(Nat), NEW s, NEW S, s \in Seq(S), \A m \in S : m.id \in Nat,
           NEW m \in S, Distinct(a, Ids(s)), m.id \notin Range(a) \cup Range(Ids(s))
    PROVE  Distinct(a, Ids(Append(s, m)))
<1>1. Append(s, m) \in Seq(S) OBVIOUS
<1>2. /\ DOMAIN Append(s, m) = 1..(Len(s) + 1) /\ DOMAIN s = 1..Len(s) /\ Len(s) \in Nat
      /\ \A i \in 1..Len(s) : Append(s, m)[i] = s[i]
      /\ Append(s, m)[Len(s) + 1] = m
  OBVIOUS
<1> DEFINE t == Append(s, m)
<1>3. /\ DOMAIN Ids(t) = 1..(Len(s) + 1)
      /\ \A i \in DOMAIN Ids(t) : Ids(t)[i] = t[i].id
      /\ DOMAIN Ids(s) = 1..Len(s)
      /\ \A i \in DOMAIN Ids(s) : Ids(s)[i] = s[i].id
  BY <1>1, <1>2, IdsSequence
<1>4. \A i \in 1..Len(s) : Ids(t)[i] = Ids(s)[i] BY <1>2, <1>3
<1>5. Ids(t)[Len(s) + 1] = m.id /\ Len(s) + 1 \in DOMAIN Ids(t) BY <1>2, <1>3
<1>6. \A i \in DOMAIN Ids(t) : i \in DOMAIN Ids(s) \/ i = Len(s) + 1 BY <1>2, <1>3
<1>7. /\ \A i \in DOMAIN a : a[i] # m.id
      /\ \A i \in DOMAIN Ids(s) : Ids(s)[i] # m.id
  BY DEF Range
<1> HIDE DEF t
<1> QED BY <1>3, <1>4, <1>5, <1>6, <1>7 DEF Distinct, t

\* and the first of the second can move to the end of the first.
LEMMA DistinctMove ==
    ASSUME NEW a \in Seq(Nat), NEW s, NEW S, s \in Seq(S), \A m \in S : m.id \in Nat,
           Distinct(a, Ids(s)), s # <<>>
    PROVE  /\ Distinct(Append(a, Head(s).id), Ids(Tail(s)))
           /\ Range(Append(a, Head(s).id)) \cup Range(Ids(Tail(s))) = Range(a) \cup Range(Ids(s))
<1>1. Tail(s) \in Seq(S) /\ Head(s) \in S OBVIOUS
<1> DEFINE x == Head(s).id
           t == Tail(s)
           b == Append(a, x)
<1>2. /\ DOMAIN t = 1..(Len(s) - 1) /\ DOMAIN s = 1..Len(s) /\ Len(s) \in Nat \ {0}
      /\ \A i \in 1..(Len(s) - 1) : t[i] = s[i + 1]
      /\ Head(s) = s[1]
  OBVIOUS
<1>3. x \in Nat BY <1>1
<1>4. /\ DOMAIN b = 1..(Len(a) + 1) /\ DOMAIN a = 1..Len(a) /\ Len(a) \in Nat
      /\ \A i \in 1..Len(a) : b[i] = a[i]
      /\ b[Len(a) + 1] = x
  BY <1>3
<1>5. /\ DOMAIN Ids(t) = DOMAIN t /\ \A i \in DOMAIN t : Ids(t)[i] = t[i].id
      /\ DOMAIN Ids(s) = DOMAIN s /\ \A i \in DOMAIN s : Ids(s)[i] = s[i].id
  BY <1>1, IdsSequence
<1>6. /\ \A i \in DOMAIN Ids(t) : i + 1 \in DOMAIN Ids(s) /\ i + 1 # 1 /\ Ids(t)[i] = Ids(s)[i + 1]
      /\ 1 \in DOMAIN Ids(s) /\ Ids(s)[1] = x
  <2>1. \A i \in DOMAIN t : i + 1 \in DOMAIN s /\ i + 1 # 1 BY <1>2
  <2>2. 1 \in DOMAIN s BY <1>2
  <2> QED BY <1>2, <1>5, <2>1, <2>2
<1>7. \A i \in DOMAIN b : (i \in DOMAIN a /\ b[i] = a[i]) \/ (i = Len(a) + 1 /\ b[i] = x)
  BY <1>4
<1>8. \A i, j \in DOMAIN Ids(t) : i + 1 = j + 1 => i = j BY <1>2, <1>5
<1>9. Range(b) = Range(a) \cup {x} BY <1>3, RangeOfAppend
<1>10. Range(Ids(s)) = Range(Ids(t)) \cup {x} BY IdsOfTail
<1> HIDE DEF x, t, b
<1>11. Distinct(b, Ids(t))
  <2>1. \A i, j \in DOMAIN b : b[i] = b[j] => i = j BY <1>6, <1>7 DEF Distinct
  <2>2. \A i, j \in DOMAIN Ids(t) : Ids(t)[i] = Ids(t)[j] => i = j BY <1>6, <1>8 DEF Distinct
  <2>3. \A i \in DOMAIN b, j \in DOMAIN Ids(t) : b[i] # Ids(t)[j] BY <1>6, <1>7 DEF Distinct
  <2> QED BY <2>1, <2>2, <2>3 DEF Distinct
<1>12. Range(b) \cup Range(Ids(t)) = Range(a) \cup Range(Ids(s)) BY <1>9, <1>10
<1> QED BY <1>11, <1>12 DEF x, t, b

\* At the start nothing has been answered.
LEMMA ReplyInit == Init => ReplyInv
<1> SUFFICES ASSUME Init PROVE OneReply
  BY MessageInit DEF ReplyInv
<1>1. rsp.msgs = <<>> /\ answers = <<>> /\ Busy = {} BY DEF Init, NoQueue, Busy
<1>2. Ids(rsp.msgs) = <<>> BY <1>1 DEF Ids
<1>3. Answered = {} BY <1>1, <1>2 DEF Answered, Range
<1>4. Distinct(answers, Ids(rsp.msgs)) BY <1>1, <1>2 DEF Distinct
<1> QED BY <1>1, <1>3, <1>4 DEF OneReply

\* A backend answers for the command it took, and then no longer works on it;
\* what it takes next is younger than everything that was taken.
LEMMA ReplyStep == ReplyInv /\ [Next]_vars => ReplyInv'
<1> SUFFICES ASSUME ReplyInv, [Next]_vars PROVE ReplyInv'
  OBVIOUS
<1>1. MessageInv /\ MessageInv' /\ TypeOK /\ TypeOK' /\ OneReply
  BY MessageStep DEF ReplyInv, MessageInv
<1>2. /\ Ids(rsp.msgs) \in Seq(Nat) /\ answers \in Seq(Nat) /\ log \in Seq(Nat)
      /\ rsp.msgs \in Seq(Reply) /\ cmd.msgs \in Seq(Message)
      /\ \A i \in DOMAIN cmd.msgs : cmd.msgs[i].id \in Nat
  BY <1>1, IdentifierSequences
<1>3. Busy \subseteq Backends /\ job \in [Backends -> Message \cup {NoJob}]
  BY <1>1 DEF Busy, TypeOK
<1>4. \A m \in Reply : m.id \in Nat BY <1>1 DEF Reply, Identifier, TypeOK
<1> SUFFICES OneReply' BY <1>1 DEF ReplyInv
<1>5. ASSUME log' = log \/ IsTaken
      PROVE  /\ Range(log) \subseteq Range(log')
             /\ IsTaken => /\ Range(log') = Range(log) \cup {Head(cmd.msgs).id}
                           /\ Head(cmd.msgs).id \notin Range(log)
  <2>1. CASE log' = log /\ ~IsTaken BY <2>1
  <2>2. CASE IsTaken
    <3> DEFINE x == Head(cmd.msgs).id
    <3>1. cmd.msgs # <<>> /\ log' = Append(log, x) BY <2>2 DEF IsTaken
    <3>2. 1 \in DOMAIN cmd.msgs /\ Head(cmd.msgs) = cmd.msgs[1] BY <1>2, <3>1
    <3>3. x \in Nat BY <1>2, <3>2
    <3>5. \A y \in Range(log) : y < x BY <1>1, <3>2, QueuedIsNew
    <3> HIDE DEF x
    <3>4. Range(Append(log, x)) = Range(log) \cup {x} BY <1>2, <3>3, RangeOfAppend
    <3>6. x \notin Range(log) BY <3>3, <3>5
    <3> QED BY <3>1, <3>4, <3>6 DEF x
  <2> QED BY <1>5, <2>1, <2>2
<1>6. CASE /\ log' = log \/ IsTaken
           /\ rsp'.msgs = rsp.msgs /\ answers' = answers
           /\ Busy' \subseteq Busy /\ job' = job
  <2>1. Ids(rsp'.msgs) = Ids(rsp.msgs) BY <1>6
  <2>2. Answered' = Answered /\ Distinct(answers, Ids(rsp.msgs))' BY <1>1, <1>6, <2>1 DEF Answered, OneReply
  <2>3. Range(log) \subseteq Range(log') BY <1>5, <1>6
  <2> QED BY <1>1, <1>6, <2>2, <2>3 DEF OneReply
<1>7. ASSUME NEW b \in Backends, TakesUp(b) PROVE OneReply'
  <2> DEFINE x == Head(cmd.msgs).id
  <2>0. IsTaken /\ AnswersKept BY <1>7 DEF TakesUp
  <2>1. Range(log') = Range(log) \cup {x} /\ x \notin Range(log) BY <1>5, <2>0
  <2>2. Answered' = Answered /\ Distinct(answers, Ids(rsp.msgs))'
    BY <1>1, <2>0 DEF AnswersKept, Answered, OneReply
  <2>3. job'[b].id = x /\ \A c \in Busy : job'[c] = job[c] /\ c # b
    BY <1>3, <1>7 DEF TakesUp
  <2>4. Busy' = Busy \cup {b} BY <1>7 DEF TakesUp
  <2> HIDE DEF x
  <2>5. \A c \in Busy : job[c].id \in Range(log) \ Answered BY <1>1 DEF OneReply
  <2>6. Answered \subseteq Range(log) BY <1>1 DEF OneReply
  <2>7. \A c \in Busy' : job'[c].id \in Range(log') \ Answered' BY <2>1, <2>2, <2>3, <2>4, <2>5, <2>6
  <2>8. \A c, d \in Busy' : job'[c].id = job'[d].id => c = d
    BY <1>1, <2>1, <2>3, <2>4, <2>5 DEF OneReply
  <2> QED BY <2>1, <2>2, <2>6, <2>7, <2>8 DEF OneReply
<1>8. ASSUME NEW b \in Backends, Replies(b) PROVE OneReply'
  <2>1. PICK m : m.id = job[b].id /\ rsp'.msgs = Append(rsp.msgs, m) BY <1>8 DEF Replies
  <2>2. /\ b \in Busy /\ Busy' = Busy \ {b} /\ job' = job /\ answers' = answers /\ log' = log
    BY <1>8 DEF Replies, Keeps
  <2>3. rsp'.msgs \in Seq(Reply') BY <1>1, <1>8 DEF TypeOK, QueueOf
  <2>4. m.id \in Range(log) \ Answered BY <1>1, <2>1, <2>2 DEF OneReply
  <2>5. m.id \in Nat BY <1>2, <2>4 DEF Range
  <2>6. Distinct(answers, Ids(rsp.msgs))'
    <3> DEFINE S == Reply \cup {m}
    <3>1. rsp.msgs \in Seq(S) /\ m \in S /\ \A n \in S : n.id \in Nat
      BY <1>2, <1>4, <2>5, SeqOfSuperset
    <3>2. m.id \notin Range(answers) \cup Range(Ids(rsp.msgs)) BY <2>4 DEF Answered
    <3>3. Distinct(answers, Ids(rsp.msgs)) BY <1>1 DEF OneReply
    <3> HIDE DEF S
    <3>4. Distinct(answers, Ids(Append(rsp.msgs, m))) BY <1>2, <3>1, <3>2, <3>3, DistinctAppend
    <3> QED BY <2>1, <2>2, <3>4
  <2>7. Range(Ids(rsp'.msgs)) = Range(Ids(rsp.msgs)) \cup {m.id} BY <1>2, <2>1, IdsOfAppend
  <2>8. Answered' = Answered \cup {m.id} BY <2>2, <2>7 DEF Answered
  <2> QED BY <1>1, <2>1, <2>2, <2>4, <2>6, <2>8 DEF OneReply
<1>9. CASE Reads
  <2>1. /\ rsp.msgs # <<>> /\ rsp'.msgs = Tail(rsp.msgs)
        /\ answers' = Append(answers, Head(rsp.msgs).id)
        /\ log' = log /\ Busy' = Busy /\ job' = job
    BY <1>9 DEF Reads, Keeps, WorkKept
  <2>2. Distinct(answers, Ids(rsp.msgs)) BY <1>1 DEF OneReply
  <2>3. Distinct(answers', Ids(rsp'.msgs)) /\ Answered' = Answered
    BY <1>2, <1>4, <2>1, <2>2, DistinctMove DEF Answered
  <2> QED BY <1>1, <2>1, <2>3 DEF OneReply
<1>10. CASE ClearsAnswers
  <2>1. rsp'.msgs = <<>> /\ answers' = answers /\ log' = log /\ Busy' = Busy /\ job' = job
    BY <1>10 DEF ClearsAnswers, Keeps, WorkKept
  <2>2. Ids(rsp'.msgs) = <<>> BY <2>1 DEF Ids
  <2>3. Answered' \subseteq Answered BY <2>1, <2>2 DEF Answered, Range
  <2>4. Distinct(answers', Ids(rsp'.msgs)) BY <1>1, <2>1, <2>2 DEF OneReply, Distinct
  <2> QED BY <1>1, <2>1, <2>3, <2>4 DEF OneReply
<1>11. CASE Rests \/ Makes \/ Obeys \/ ClearsCommands \/ \E b \in Backends : Joins(b) \/ GivesUp(b)
  <2>1. /\ log' = log \/ IsTaken
        /\ rsp'.msgs = rsp.msgs /\ answers' = answers
        /\ Busy' \subseteq Busy /\ job' = job
    BY <1>11 DEF Rests, Makes, Obeys, ClearsCommands, Joins, GivesUp, Keeps, Enters, IsDiscarded,
                 WorkKept, AnswersKept
  <2> QED BY <1>6, <2>1
<1> QED BY <1>1, <1>7, <1>8, <1>9, <1>10, <1>11, Kinds

\* A command is answered at most once, and once it is nobody works on it, with
\* any number of backends on the same queues and through every fault.
THEOREM OneAnswerEach == Spec => []OneReplyPerCommand
<1>1. ReplyInv => OneReplyPerCommand
  <2> SUFFICES ASSUME ReplyInv PROVE OneReplyPerCommand
    OBVIOUS
  <2>1. Ids(rsp.msgs) \in Seq(Nat) /\ answers \in Seq(Nat)
    BY IdentifierSequences DEF ReplyInv, MessageInv
  <2>2. Distinct(answers, Ids(rsp.msgs)) BY DEF ReplyInv, OneReply
  <2>3. IsInjective(answers \o Ids(rsp.msgs)) /\ Range(answers \o Ids(rsp.msgs)) = Answered
    BY <2>1, <2>2, DistinctJoined DEF Answered
  <2> QED BY <2>3 DEF ReplyInv, OneReply, OneReplyPerCommand
<1> QED BY ReplyInit, ReplyStep, <1>1, PTL DEF Spec

-----------------------------------------------------------------------------
(* The order of the answers *)

\* AnswersInOrder, spelled out for the four sequences it joins; that commands
\* in the queue are the youngest follows from InOrder.
LinesUp(b) ==
    /\ \A i, j \in DOMAIN rsp.msgs : i < j => rsp.msgs[i].id < rsp.msgs[j].id
    /\ b \in Busy => \A i \in DOMAIN rsp.msgs : rsp.msgs[i].id < job[b].id
    /\ answers # <<>> =>
          /\ \A i \in DOMAIN rsp.msgs : answers[Len(answers)] < rsp.msgs[i].id
          /\ b \in Busy => answers[Len(answers)] < job[b].id

\* A response queue without a user is empty: answers come from users only.
AnswerOrder ==
    /\ rsp.users = {} => rsp.msgs = <<>>
    /\ \A b \in Backends : rsp.users = {b} => LinesUp(b)

OrderInv == ReplyInv /\ AnswerOrder

\* What has been taken is older than what waits in the command queue: the
\* answers, read or not, and the commands in the hands of the backends.
LEMMA TakenIsOlder ==
    ASSUME ReplyInv, NEW j \in DOMAIN cmd.msgs
    PROVE  /\ \A i \in DOMAIN answers : answers[i] < cmd.msgs[j].id
           /\ \A i \in DOMAIN rsp.msgs : rsp.msgs[i].id < cmd.msgs[j].id
           /\ \A b \in Busy : job[b].id < cmd.msgs[j].id
<1>1. MessageInv /\ OneReply BY DEF ReplyInv
<1>2. \A i \in DOMAIN answers : answers[i] \in Range(log)
  BY <1>1 DEF OneReply, Answered, Range
<1>3. \A i \in DOMAIN rsp.msgs : rsp.msgs[i].id \in Range(log)
  BY <1>1 DEF OneReply, Answered, Range, Ids
<1>4. \A b \in Busy : job[b].id \in Range(log) BY <1>1 DEF OneReply
<1> QED BY <1>1, <1>2, <1>3, <1>4, QueuedIsNew

\* At the start nobody uses the response queue.
LEMMA OrderInit == Init => OrderInv
<1> SUFFICES ASSUME Init PROVE AnswerOrder
  BY ReplyInit DEF OrderInv
<1>1. rsp.msgs = <<>> /\ rsp.users = {} BY DEF Init, NoQueue
<1> QED BY <1>1 DEF AnswerOrder

\* An answer follows those of the same backend; it takes the oldest command;
\* and whoever becomes the only user finds an empty queue.
LEMMA OrderStep == OrderInv /\ [Next]_vars => OrderInv'
<1> SUFFICES ASSUME OrderInv, [Next]_vars PROVE OrderInv'
  OBVIOUS
<1>1. ReplyInv /\ ReplyInv' /\ AnswerOrder /\ TypeOK /\ TypeOK'
  BY ReplyStep DEF OrderInv, ReplyInv, MessageInv
<1>2. /\ answers \in Seq(Nat) /\ rsp.msgs \in Seq(Reply) /\ cmd.msgs \in Seq(Message)
      /\ \A i \in DOMAIN rsp.msgs : rsp.msgs[i].id \in Nat
      /\ job \in [Backends -> Message \cup {NoJob}]
  BY <1>1, IdentifierSequences DEF TypeOK
<1> SUFFICES AnswerOrder' BY <1>1 DEF OrderInv
<1>3. ASSUME rsp'.msgs = rsp.msgs, rsp'.users = rsp.users, answers' = answers,
             Busy' \subseteq Busy, job' = job
      PROVE  AnswerOrder'
  BY <1>1, <1>3 DEF AnswerOrder, LinesUp
<1>4. ASSUME NEW b \in Backends, Joins(b) PROVE AnswerOrder'
  <2>1. /\ rsp'.msgs = rsp.msgs /\ rsp'.users = rsp.users \cup {b} /\ answers' = answers
        /\ Busy' = Busy /\ job' = job /\ b \notin Busy
    BY <1>4 DEF Joins, WorkKept
  <2>2. ASSUME NEW c \in Backends, rsp'.users = {c} PROVE LinesUp(c)'
    <3>1. c = b /\ rsp.users \in {{}, {c}} BY <2>1, <2>2
    <3>2. CASE rsp.users = {}
      <4>1. rsp'.msgs = <<>> BY <1>1, <2>1, <3>2 DEF AnswerOrder
      <4> QED BY <2>1, <3>1, <4>1 DEF LinesUp
    <3>3. CASE rsp.users = {c} BY <1>1, <2>1, <3>3 DEF AnswerOrder, LinesUp
    <3> QED BY <3>1, <3>2, <3>3
  <2> QED BY <2>1, <2>2 DEF AnswerOrder
<1>5. ASSUME NEW b \in Backends, TakesUp(b) PROVE AnswerOrder'
  <2>1. /\ rsp'.msgs = rsp.msgs /\ rsp'.users = rsp.users /\ answers' = answers
        /\ Busy' = Busy \cup {b} /\ job' = [job EXCEPT ![b] = Head(cmd.msgs)] /\ b \notin Busy
        /\ cmd.msgs # <<>>
    BY <1>5 DEF TakesUp, AnswersKept, IsTaken
  <2>2. 1 \in DOMAIN cmd.msgs /\ Head(cmd.msgs) = cmd.msgs[1] BY <1>2, <2>1
  <2>3. job'[b] = cmd.msgs[1] /\ \A c \in Backends \ {b} : job'[c] = job[c]
    BY <1>2, <2>1, <2>2
  <2>4. /\ \A i \in DOMAIN rsp.msgs : rsp.msgs[i].id < cmd.msgs[1].id
        /\ answers # <<>> => answers[Len(answers)] < cmd.msgs[1].id
    <3>1. answers # <<>> => Len(answers) \in DOMAIN answers BY <1>2
    <3> QED BY <1>1, <2>2, <3>1, TakenIsOlder
  <2>5. ASSUME NEW c \in Backends, rsp'.users = {c} PROVE LinesUp(c)'
    <3>1. LinesUp(c) BY <1>1, <2>1, <2>5 DEF AnswerOrder
    <3>2. CASE c = b BY <2>1, <2>3, <2>4, <3>1, <3>2 DEF LinesUp
    <3>3. CASE c # b BY <2>1, <2>3, <3>1, <3>3 DEF LinesUp
    <3> QED BY <3>2, <3>3
  <2> QED BY <1>1, <2>1, <2>5 DEF AnswerOrder
<1>6. ASSUME NEW b \in Backends, Replies(b) PROVE AnswerOrder'
  <2>1. PICK m : m.id = job[b].id /\ rsp'.msgs = Append(rsp.msgs, m) BY <1>6 DEF Replies
  <2>2. /\ rsp'.users = rsp.users /\ answers' = answers /\ b \in Busy \cap rsp.users
        /\ Busy' = Busy \ {b} /\ job' = job
    BY <1>6 DEF Replies
  <2>3. /\ DOMAIN rsp'.msgs = 1..(Len(rsp.msgs) + 1) /\ DOMAIN rsp.msgs = 1..Len(rsp.msgs)
        /\ Len(rsp.msgs) \in Nat
        /\ \A i \in 1..Len(rsp.msgs) : rsp'.msgs[i] = rsp.msgs[i]
        /\ rsp'.msgs[Len(rsp.msgs) + 1] = m
    BY <1>2, <2>1
  <2>4. ASSUME NEW c \in Backends, rsp'.users = {c} PROVE LinesUp(c)'
    <3>1. c = b BY <2>2, <2>4
    <3>2. LinesUp(b) BY <1>1, <2>2, <2>4, <3>1 DEF AnswerOrder
    <3>3. \A i \in DOMAIN rsp'.msgs :
             (i \in DOMAIN rsp.msgs /\ rsp'.msgs[i] = rsp.msgs[i])
             \/ (i = Len(rsp.msgs) + 1 /\ rsp'.msgs[i].id = job[b].id)
      BY <2>1, <2>3
    <3>4. \A i, j \in DOMAIN rsp'.msgs : i < j => i \in DOMAIN rsp.msgs /\ rsp'.msgs[i] = rsp.msgs[i]
      BY <2>3
    <3>5. \A i, j \in DOMAIN rsp'.msgs : i < j => rsp'.msgs[i].id < rsp'.msgs[j].id
      BY <2>2, <3>2, <3>3, <3>4 DEF LinesUp
    <3>6. answers # <<>> => \A i \in DOMAIN rsp'.msgs : answers[Len(answers)] < rsp'.msgs[i].id
      BY <2>2, <3>2, <3>3 DEF LinesUp
    <3> QED BY <2>2, <3>1, <3>5, <3>6 DEF LinesUp
  <2> QED BY <2>2, <2>4 DEF AnswerOrder
<1>7. CASE Reads
  <2>1. /\ rsp.msgs # <<>> /\ rsp'.msgs = Tail(rsp.msgs) /\ rsp'.users = rsp.users
        /\ answers' = Append(answers, Head(rsp.msgs).id)
        /\ Busy' = Busy /\ job' = job
    BY <1>7 DEF Reads, WorkKept
  <2>2. /\ DOMAIN rsp'.msgs = 1..(Len(rsp.msgs) - 1) /\ DOMAIN rsp.msgs = 1..Len(rsp.msgs)
        /\ Len(rsp.msgs) \in Nat \ {0}
        /\ \A i \in 1..(Len(rsp.msgs) - 1) : rsp'.msgs[i] = rsp.msgs[i + 1]
        /\ Head(rsp.msgs) = rsp.msgs[1]
    BY <1>2, <2>1
  <2>3. \A i \in DOMAIN rsp'.msgs :
           i + 1 \in DOMAIN rsp.msgs /\ rsp'.msgs[i] = rsp.msgs[i + 1] /\ 1 < i + 1
    BY <2>2
  <2>4. 1 \in DOMAIN rsp.msgs /\ rsp.msgs[1].id \in Nat BY <1>2, <2>2
  <2>5. answers'[Len(answers')] = rsp.msgs[1].id
    BY <1>2, <2>1, <2>2, <2>4
  <2>6. \A i, j \in DOMAIN rsp'.msgs : i < j => i + 1 < j + 1 BY <2>2
  <2>7. ASSUME NEW c \in Backends, rsp'.users = {c} PROVE LinesUp(c)'
    <3>1. LinesUp(c) BY <1>1, <2>1, <2>7 DEF AnswerOrder
    <3>2. \A i, j \in DOMAIN rsp'.msgs : i < j => rsp'.msgs[i].id < rsp'.msgs[j].id
      BY <2>3, <2>6, <3>1 DEF LinesUp
    <3>3. \A i \in DOMAIN rsp'.msgs : answers'[Len(answers')] < rsp'.msgs[i].id
      BY <2>3, <2>4, <2>5, <3>1 DEF LinesUp
    <3>4. c \in Busy => /\ \A i \in DOMAIN rsp'.msgs : rsp'.msgs[i].id < job[c].id
                        /\ answers'[Len(answers')] < job[c].id
      BY <2>3, <2>4, <2>5, <3>1 DEF LinesUp
    <3> QED BY <2>1, <3>2, <3>3, <3>4 DEF LinesUp
  <2>8. rsp.users # {} BY <1>1, <2>1 DEF AnswerOrder
  <2> QED BY <2>1, <2>7, <2>8 DEF AnswerOrder
<1>8. CASE ClearsAnswers
  BY <1>8 DEF ClearsAnswers, AnswerOrder
<1>9. CASE Rests \/ Makes \/ Obeys \/ ClearsCommands \/ \E b \in Backends : GivesUp(b)
  <2>1. /\ rsp'.msgs = rsp.msgs /\ rsp'.users = rsp.users /\ answers' = answers
        /\ Busy' \subseteq Busy /\ job' = job
    BY <1>9 DEF Rests, Makes, Obeys, ClearsCommands, GivesUp, WorkKept, AnswersKept
  <2> QED BY <1>3, <2>1
<1> QED BY <1>1, <1>4, <1>5, <1>6, <1>7, <1>8, <1>9, Kinds

\* A sequence of at most one number is increasing.
LEMMA ShortIncreasing ==
    /\ <<>> \in Seq(Nat) /\ Increasing(<<>>)
    /\ \A x \in Nat : <<x>> \in Seq(Nat) /\ Increasing(<<x>>) /\ DOMAIN <<x>> = {1} /\ <<x>>[1] = x
<1>1. Increasing(<<>>) BY DEF Increasing
<1>2. ASSUME NEW x \in Nat PROVE Increasing(<<x>>) BY DEF Increasing
<1> QED BY <1>1, <1>2

\* Two increasing sequences, the second above the first, make one that holds
\* the numbers of both.
LEMMA Joined ==
    ASSUME NEW a \in Seq(Nat), NEW b \in Seq(Nat), Increasing(a), Increasing(b),
           \A x \in Range(a), y \in Range(b) : x < y
    PROVE  a \o b \in Seq(Nat) /\ Increasing(a \o b) /\ Range(a \o b) = Range(a) \cup Range(b)
<1>1. \A i \in DOMAIN a, j \in DOMAIN b : a[i] < b[j] BY DEF Range
<1>2. Increasing(a \o b) BY <1>1, JoinedIncreasing
<1>3. Distinct(a, b)
  <2>1. \A i \in DOMAIN a : a[i] \in Nat /\ i \in Nat OBVIOUS
  <2>2. \A i \in DOMAIN b : b[i] \in Nat /\ i \in Nat OBVIOUS
  <2>3. \A i, j \in DOMAIN a : a[i] = a[j] => i = j BY <2>1 DEF Increasing
  <2>4. \A i, j \in DOMAIN b : b[i] = b[j] => i = j BY <2>2 DEF Increasing
  <2> QED BY <1>1, <2>1, <2>2, <2>3, <2>4 DEF Distinct
<1>4. Range(a \o b) = Range(a) \cup Range(b) BY <1>3, DistinctJoined
<1>5. a \o b \in Seq(Nat) OBVIOUS
<1> QED BY <1>2, <1>4, <1>5

\* While one backend alone answers, its answers come in the order of the
\* commands, and an old backend cannot put one before them.
THEOREM OrderOfAnswers == Spec => []AnswersInOrder
<1>1. ASSUME OrderInv PROVE AnswersInOrder
  <2> SUFFICES ASSUME NEW b \in rsp.users, rsp.users = {b}
               PROVE  LET shown == IF answers = <<>> THEN <<>> ELSE <<answers[Len(answers)]>>
                          taken == IF b \in Busy THEN <<job[b].id>> ELSE <<>>
                      IN  Increasing(shown \o Ids(rsp.msgs) \o taken \o Ids(cmd.msgs))
    BY DEF AnswersInOrder
  <2> DEFINE shown == IF answers = <<>> THEN <<>> ELSE <<answers[Len(answers)]>>
             taken == IF b \in Busy THEN <<job[b].id>> ELSE <<>>
             waiting == Ids(rsp.msgs)
             queued == Ids(cmd.msgs)
  <2>1. ReplyInv /\ MessageInv /\ TypeOK /\ OneReply BY <1>1 DEF OrderInv, ReplyInv, MessageInv
  <2>2. b \in Backends BY <2>1 DEF TypeOK, QueueOf
  <2>3. LinesUp(b) BY <1>1, <2>2 DEF OrderInv, AnswerOrder
  <2>4. /\ waiting \in Seq(Nat) /\ queued \in Seq(Nat)
        /\ answers \in Seq(Nat) /\ log \in Seq(Nat)
    BY <2>1, IdentifierSequences
  <2>5. /\ DOMAIN waiting = DOMAIN rsp.msgs /\ \A i \in DOMAIN rsp.msgs : waiting[i] = rsp.msgs[i].id
        /\ DOMAIN queued = DOMAIN cmd.msgs /\ \A i \in DOMAIN cmd.msgs : queued[i] = cmd.msgs[i].id
    BY DEF Ids
  <2>6. answers # <<>> => Len(answers) \in DOMAIN answers BY <2>4
  <2>7. /\ answers # <<>> => answers[Len(answers)] \in Nat
        /\ b \in Busy => job[b].id \in Nat
    <3>1. b \in Busy => job[b].id \in Range(log) BY <2>1 DEF OneReply
    <3> QED BY <2>4, <2>6, <3>1 DEF Range
  <2>8. /\ shown \in Seq(Nat) /\ Increasing(shown)
        /\ \A x \in Range(shown) : answers # <<>> /\ x = answers[Len(answers)]
    BY <2>7, ShortIncreasing DEF Range
  <2>9. /\ taken \in Seq(Nat) /\ Increasing(taken)
        /\ \A x \in Range(taken) : b \in Busy /\ x = job[b].id
    BY <2>7, ShortIncreasing DEF Range
  <2>10. Increasing(waiting) /\ Increasing(queued)
    BY <2>1, <2>3, <2>5 DEF Increasing, LinesUp, MessageInv, InOrder
  <2>11. \A y \in Range(waiting) : \E i \in DOMAIN rsp.msgs : y = rsp.msgs[i].id
    BY <2>5 DEF Range
  <2>12. \A y \in Range(queued) : \E i \in DOMAIN cmd.msgs : y = cmd.msgs[i].id
    BY <2>5 DEF Range
  <2>13. /\ \A x \in Range(shown), y \in Range(waiting) : x < y
         /\ \A x \in Range(shown), y \in Range(taken) : x < y
         /\ \A x \in Range(waiting), y \in Range(taken) : x < y
    <3> HIDE DEF shown, taken, waiting, queued
    <3> QED BY <2>3, <2>8, <2>9, <2>11 DEF LinesUp
  <2>14. /\ \A x \in Range(shown), y \in Range(queued) : x < y
         /\ \A x \in Range(taken), y \in Range(queued) : x < y
         /\ \A x \in Range(waiting), y \in Range(queued) : x < y
    <3> HIDE DEF shown, taken, waiting, queued
    <3> QED BY <2>1, <2>6, <2>8, <2>9, <2>11, <2>12, TakenIsOlder
  <2> HIDE DEF shown, taken, waiting, queued
  <2>15. /\ shown \o waiting \in Seq(Nat) /\ Increasing(shown \o waiting)
         /\ Range(shown \o waiting) = Range(shown) \cup Range(waiting)
    BY <2>4, <2>8, <2>10, <2>13, Joined
  <2>16. /\ shown \o waiting \o taken \in Seq(Nat) /\ Increasing(shown \o waiting \o taken)
         /\ Range(shown \o waiting \o taken) = Range(shown) \cup Range(waiting) \cup Range(taken)
    BY <2>9, <2>13, <2>15, Joined
  <2>17. Increasing(shown \o waiting \o taken \o queued)
    BY <2>4, <2>10, <2>14, <2>16, Joined
  <2> QED BY <2>17 DEF shown, taken, waiting, queued
<1> QED BY OrderInit, OrderStep, <1>1, PTL DEF Spec

-----------------------------------------------------------------------------
(* Sessions.  Unless the frontend is killed, its shutdown handler leaves     *)
(* empty queues; and a backend that is still at work then has no queue left  *)
(* to answer to.                                                             *)

Active == gui \notin {"off", "cleaning"}

\* What is in the queues, and with the users of the response queue, is of the
\* running session.
OursOnly ==
    Active =>
        /\ \A i \in DOMAIN cmd.msgs : cmd.msgs[i].session = session
        /\ \A i \in DOMAIN rsp.msgs : rsp.msgs[i].session = session
        /\ \A b \in Busy \cap rsp.users : job[b].session = session

\* Nothing waits in a queue that has not been opened,
UnopenedEmpty ==
    /\ ~cmd.live => cmd.msgs = <<>>
    /\ ~cmdKey => cmd.msgs = <<>> /\ ~rspKey
    /\ ~rspKey => rsp.msgs = <<>> /\ rsp.users = {}
    /\ \A b \in Backends : pc[b] = "starting" => cmdKey
    /\ gui \in {"sending", "quitting"} => cmdKey /\ cmd.live

\* nor between two sessions.
LeftEmpty ==
    /\ ~Active => cmd.msgs = <<>>
    /\ gui = "off" => rsp.msgs = <<>> /\ rsp.users \cap Busy = {}

SessionInv == OursOnly /\ UnopenedEmpty /\ LeftEmpty

\* The first start finds no queue.
LEMMA SessionInit == Init => SessionInv
<1> SUFFICES ASSUME Init PROVE SessionInv
  OBVIOUS
<1>1. cmd.msgs = <<>> /\ rsp.msgs = <<>> /\ rsp.users = {} /\ gui = "off"
  BY DEF Init, NoQueue
<1>2. (~cmdKey => ~rspKey) /\ \A b \in Backends : pc[b] # "starting" BY DEF Init
<1> QED BY <1>1, <1>2 DEF SessionInv, OursOnly, UnopenedEmpty, LeftEmpty, Active

\* A message that a frontend sends carries its session.
LEMMA SessionAccepts ==
    ASSUME TypeOK, SessionInv, Active, cmdKey, NEW q \in QueueOf(Message), q.msgs = cmd.msgs,
           q.live, NEW t \in {QUIT} \cup Ops, Accepts(q, t),
           gui' \notin {"off", "cleaning"}, UNCHANGED <<session, cmdKey, rspKey, rsp, backend>>
    PROVE  SessionInv'
<1> DEFINE m == [mtype |-> t, id |-> sent + 1, session |-> session]
<1>1. cmd' = Sent(q, m) BY DEF Accepts
<1>2. DOMAIN q = {"live", "msgs", "users"} BY DEF QueueOf
<1>3. cmd'.msgs = Append(cmd.msgs, m) /\ cmd'.live BY <1>1, <1>2 DEF Sent
<1>4. m.session = session OBVIOUS
<1>5. cmd.msgs \in Seq(Message) BY DEF TypeOK, QueueOf
<1> HIDE DEF m
<1>6. \A i \in DOMAIN cmd'.msgs : cmd'.msgs[i].session = session
  <2>1. \A i \in DOMAIN cmd'.msgs : (i \in DOMAIN cmd.msgs /\ cmd'.msgs[i] = cmd.msgs[i]) \/ cmd'.msgs[i] = m
    BY <1>3, <1>5
  <2> QED BY <1>4, <2>1 DEF SessionInv, OursOnly
<1>7. OursOnly' BY <1>6 DEF SessionInv, OursOnly, Busy, backend
<1>8. UnopenedEmpty' BY <1>3 DEF SessionInv, UnopenedEmpty, backend
<1>9. LeftEmpty' BY DEF LeftEmpty, Active
<1> QED BY <1>7, <1>8, <1>9 DEF SessionInv

\* A backend works for the running session, or cannot answer.
LEMMA SessionBackend ==
    ASSUME TypeOK, SessionInv, NEW b \in Backends, BackendStep(b)
    PROVE  SessionInv'
<1>0. /\ DOMAIN cmd = {"live", "msgs", "users"} /\ DOMAIN rsp = {"live", "msgs", "users"}
      /\ pc \in [Backends -> PcStates] /\ job \in [Backends -> Message \cup {NoJob}]
      /\ cmd.msgs \in Seq(Message) /\ rsp.msgs \in Seq(Reply)
  BY DEF TypeOK, QueueOf
<1> USE DEF SessionInv, OursOnly, UnopenedEmpty, LeftEmpty
<1>1. CASE Launch(b)
  <2>1. cmd.msgs = <<>> /\ rsp.msgs = <<>> /\ rsp.users \cap Busy = {}
    BY <1>1 DEF Launch, Active
  <2>2. UNCHANGED <<cmd, rsp, cmdKey, rspKey, job>> BY <1>1 DEF Launch, queues
  <2>3. Busy' = Busy /\ \A c \in Backends : pc'[c] = "starting" => pc[c] = "starting"
    BY <1>0, <1>1 DEF Launch, Forks, Busy
  <2>4. gui' = "running" BY <1>1 DEF Launch
  <2> QED BY <2>1, <2>2, <2>3, <2>4 DEF Active
<1>2. CASE \/ LaunchAgain(b) \/ StartFails(b) \/ WorkSucceeds(b) \/ WorkFails(b)
           \/ WorkEndsQuietly(b) \/ ResponseUndeliverable(b) \/ BackendKilled(b)
  <2>1. Busy' \subseteq Busy /\ \A c \in Backends : pc'[c] = "starting" => pc[c] = "starting"
    BY <1>0, <1>2 DEF LaunchAgain, Forks, StartFails, WorkSucceeds, WorkFails, WorkEndsQuietly,
                      ResponseUndeliverable, BackendKilled, Busy
  <2>2. UNCHANGED <<cmd, rsp, cmdKey, rspKey, job, gui, session>>
    BY <1>2 DEF LaunchAgain, StartFails, WorkSucceeds, WorkFails, WorkEndsQuietly,
                ResponseUndeliverable, BackendKilled, queues, frontend
  <2> QED BY <2>1, <2>2 DEF Active
<1>3. CASE OpenCommandQueue(b)
  <2>1. Busy' = Busy BY <1>0, <1>3 DEF OpenCommandQueue, Busy
  <2>2. cmdKey' /\ cmd'.msgs = cmd.msgs /\ cmd'.live BY <1>3 DEF OpenCommandQueue, Opened
  <2>3. UNCHANGED <<rspKey, rsp, job, gui, session>> BY <1>3 DEF OpenCommandQueue, frontend
  <2> QED BY <2>1, <2>2, <2>3 DEF Active
<1>4. CASE OpenResponseQueue(b)
  <2>1. Busy' = Busy /\ b \notin Busy /\ \A c \in Backends : pc'[c] = "starting" => pc[c] = "starting"
    BY <1>0, <1>4 DEF OpenResponseQueue, Busy
  <2>2. rspKey' /\ rsp'.msgs = rsp.msgs /\ rsp'.users = rsp.users \cup {b}
    BY <1>4 DEF OpenResponseQueue, Opened
  <2>3. UNCHANGED <<cmdKey, cmd, job, gui, session>> /\ cmdKey
    BY <1>4 DEF OpenResponseQueue, frontend
  <2> QED BY <2>1, <2>2, <2>3 DEF Active
<1>5. CASE Receive(b) \/ ReceiveQuit(b)
  <2>1. /\ cmd.msgs # <<>> /\ UNCHANGED <<cmdKey, rspKey, rsp, gui, session>>
        /\ cmd' = Received(cmd)
    BY <1>5 DEF Receive, ReceiveQuit, Takes, frontend
  <2>2. cmd'.msgs = Tail(cmd.msgs) /\ cmd'.live = cmd.live BY <1>0, <2>1 DEF Received
  <2>3. Active /\ cmd.live /\ cmdKey BY <2>1
  <2>4. /\ \A i \in DOMAIN cmd'.msgs : cmd'.msgs[i].session = session
        /\ Head(cmd.msgs).session = session
    <3>1. /\ \A i \in DOMAIN cmd'.msgs : i + 1 \in DOMAIN cmd.msgs /\ cmd'.msgs[i] = cmd.msgs[i + 1]
          /\ 1 \in DOMAIN cmd.msgs /\ Head(cmd.msgs) = cmd.msgs[1]
      BY <1>0, <2>1, <2>2
    <3> QED BY <2>3, <3>1
  <2>5. \A c \in Busy' : (c \in Busy /\ job'[c] = job[c]) \/ job'[c] = Head(cmd.msgs)
    BY <1>0, <1>5 DEF Receive, ReceiveQuit, Takes, Busy
  <2>6. \A c \in Backends : pc'[c] = "starting" => pc[c] = "starting"
    BY <1>0, <1>5 DEF Receive, ReceiveQuit
  <2> QED BY <2>1, <2>2, <2>3, <2>4, <2>5, <2>6 DEF Active
<1>6. CASE SendResponse(b)
  <2>1. Busy' = Busy \ {b} /\ b \in Busy \cap rsp.users /\ \A c \in Backends : pc'[c] = "starting" => pc[c] = "starting"
    BY <1>0, <1>6 DEF SendResponse, Busy
  <2>2. UNCHANGED <<cmd, cmdKey, rspKey, job, gui, session>> BY <1>6 DEF SendResponse, frontend
  <2>3. gui # "off" /\ rspKey /\ cmdKey BY <2>1
  <2> DEFINE m == [text |-> pc[b], id |-> job[b].id, session |-> job[b].session]
  <2>4. rsp'.msgs = Append(rsp.msgs, m) /\ rsp'.users = rsp.users
    BY <1>0, <1>6 DEF SendResponse, Sent
  <2>5. m.session = job[b].session OBVIOUS
  <2> HIDE DEF m
  <2>6. \A i \in DOMAIN rsp'.msgs : (i \in DOMAIN rsp.msgs /\ rsp'.msgs[i] = rsp.msgs[i]) \/ rsp'.msgs[i] = m
    BY <1>0, <2>4
  <2>7. OursOnly' BY <2>1, <2>2, <2>4, <2>5, <2>6 DEF Active
  <2>8. UnopenedEmpty' BY <2>1, <2>2, <2>3, <2>4
  <2>9. LeftEmpty' BY <2>2, <2>3 DEF Active
  <2> QED BY <2>7, <2>8, <2>9
<1> QED BY <1>1, <1>2, <1>3, <1>4, <1>5, <1>6 DEF BackendStep, Starts, Serves

\* The frontend sends in its own session, and closes it with both queues empty.
LEMMA SessionFrontend ==
    ASSUME TypeOK, SessionInv, FrontendStep, "kill" \notin Faults
    PROVE  SessionInv'
<1>0. /\ cmd \in QueueOf(Message) /\ held \in {0} \cup Ops
      /\ rsp.msgs \in Seq(Reply) /\ DOMAIN rsp = {"live", "msgs", "users"}
  BY DEF TypeOK, QueueOf
<1> USE DEF SessionInv, OursOnly, UnopenedEmpty, LeftEmpty
<1>1. ASSUME NEW op \in Ops, SendMessage(op) PROVE SessionInv'
  <2>1. Opened(cmd, {}) \in QueueOf(Message) /\ Opened(cmd, {}).msgs = cmd.msgs /\ Opened(cmd, {}).live
    BY <1>0, OpenedType DEF Opened
  <2>2. /\ gui = "running" /\ gui' = gui /\ cmdKey /\ Accepts(Opened(cmd, {}), op)
        /\ UNCHANGED <<session, cmdKey, rspKey, rsp, backend>>
    BY <1>1 DEF SendMessage
  <2>3. Active /\ gui' \notin {"off", "cleaning"} BY <2>2 DEF Active
  <2> QED BY <2>1, <2>2, <2>3, SessionAccepts
<1>2. ASSUME NEW t \in {QUIT} \cup Ops, Accepts(cmd, t), gui' \notin {"off", "cleaning"}, Active,
             cmdKey /\ cmd.live,
             UNCHANGED <<session, cmdKey, rspKey, rsp, backend>>
      PROVE  SessionInv'
  BY <1>0, <1>2, SessionAccepts
<1>3. ASSUME UNCHANGED <<session, cmdKey, rspKey, rsp, cmd, backend>>, gui # "off", gui # "cleaning",
             gui' # "off", gui' = "cleaning" => cmd.msgs = <<>>,
             gui' \in {"sending", "quitting"} => cmdKey /\ cmd.live
      PROVE  SessionInv'
  <2>1. Busy' = Busy /\ pc' = pc /\ job' = job BY <1>3 DEF Busy, backend
  <2> QED BY <1>3, <2>1 DEF Active
<1>31. ~HasRoom(cmd, CmdCap) => cmd.live
  <2>1. SUFFICES ASSUME cmd.msgs = <<>> PROVE Len(cmd.msgs) < CmdCap BY DEF HasRoom
  <2>2. Len(cmd.msgs) = 0 BY <2>1
  <2> QED BY <2>2, CapAssumption
<1>4. CASE \E op \in Ops : SendBlocks(op)
  <2>1. /\ UNCHANGED <<session, cmdKey, rspKey, rsp, cmd, backend>>
        /\ gui = "running" /\ gui' = "sending" /\ cmdKey /\ ~HasRoom(cmd, CmdCap)
    BY <1>4 DEF SendBlocks, queues
  <2> QED BY <1>3, <1>31, <2>1
<1>5. CASE \E op \in Ops : SendFails(op)
  <2>1. /\ UNCHANGED <<session, cmdKey, rspKey, rsp, cmd, backend>>
        /\ gui = "running" /\ ~cmdKey /\ gui' \in {"running", "off"}
    BY <1>5 DEF SendFails, queues
  <2>2. cmd.msgs = <<>> /\ rsp.msgs = <<>> /\ rsp.users = {} BY <2>1
  <2>3. Busy' = Busy /\ pc' = pc /\ job' = job BY <2>1 DEF Busy, backend
  <2> QED BY <2>1, <2>2, <2>3 DEF Active
<1>6. CASE SendResumes
  <2>1. /\ gui = "sending" /\ gui' = "running" /\ Accepts(cmd, held)
        /\ UNCHANGED <<session, cmdKey, rspKey, rsp, backend>>
    BY <1>6 DEF SendResumes
  <2>2. cmdKey /\ cmd.live /\ Active /\ held \in {QUIT} \cup Ops BY <2>1 DEF Active, TypeOK
  <2> QED BY <1>2, <2>1, <2>2
<1>7. CASE QuitResumes
  <2>1. /\ gui = "quitting" /\ gui' = "sleeping" /\ Accepts(cmd, QUIT)
        /\ UNCHANGED <<session, cmdKey, rspKey, rsp, backend>>
    BY <1>7 DEF QuitResumes
  <2>2. cmdKey /\ cmd.live /\ Active BY <2>1 DEF Active
  <2> QED BY <1>2, <2>1, <2>2
<1>8. CASE Shutdown
  <2>1. /\ gui = "running" /\ UNCHANGED <<session, cmdKey, rspKey, rsp, backend>>
    BY <1>8 DEF Shutdown
  <2>2. CASE CommandQueueFound /\ Accepts(cmd, QUIT) /\ gui' = "sleeping"
    BY <1>2, <2>1, <2>2 DEF CommandQueueFound, Active
  <2>3. CASE CommandQueueFound /\ gui' = "quitting" /\ UNCHANGED cmd
    BY <1>3, <2>1, <2>3 DEF CommandQueueFound
  <2>4. CASE ~CommandQueueFound /\ gui' = "cleaning" /\ UNCHANGED cmd
    BY <1>3, <2>1, <2>4 DEF CommandQueueFound
  <2> QED BY <1>8, <2>2, <2>3, <2>4 DEF Shutdown
<1>9. CASE ReadBackendMessage
  <2>1. /\ UNCHANGED <<gui, session, cmdKey, rspKey, cmd, backend>> /\ rspKey /\ gui = "running"
        /\ rsp' = Opened(rsp, {}) \/ (rsp.msgs # <<>> /\ rsp' = Received(rsp))
    BY <1>9 DEF ReadBackendMessage, frontend
  <2>2. rsp'.users = rsp.users BY <1>0, <2>1 DEF Opened, Received
  <2>3. rsp'.msgs = rsp.msgs \/ (rsp.msgs # <<>> /\ rsp'.msgs = Tail(rsp.msgs))
    BY <1>0, <2>1 DEF Opened, Received
  <2>4. \A i \in DOMAIN rsp'.msgs : rsp'.msgs[i].session = session
    <3>1. CASE rsp'.msgs = rsp.msgs BY <2>1, <3>1 DEF Active
    <3>2. CASE rsp.msgs # <<>> /\ rsp'.msgs = Tail(rsp.msgs)
      <4>1. \A i \in DOMAIN rsp'.msgs : i + 1 \in DOMAIN rsp.msgs /\ rsp'.msgs[i] = rsp.msgs[i + 1]
        BY <1>0, <3>2
      <4> QED BY <2>1, <4>1 DEF Active
    <3> QED BY <2>3, <3>1, <3>2
  <2>5. Busy' = Busy /\ pc' = pc /\ job' = job BY <2>1 DEF Busy, backend
  <2> QED BY <2>1, <2>2, <2>4, <2>5 DEF Active
<1>10. CASE RemoveCommandQueue
  <2>1. /\ cmd'.msgs = <<>> /\ gui' = "cleaning"
        /\ UNCHANGED <<session, cmdKey, rspKey, rsp, backend>>
    BY <1>10 DEF RemoveCommandQueue, NoQueue
  <2>2. Busy' = Busy /\ pc' = pc /\ job' = job BY <2>1 DEF Busy, backend
  <2> QED BY <2>1, <2>2 DEF Active
<1>11. CASE RemoveResponseQueue
  <2>1. /\ gui = "cleaning" /\ gui' = "off" /\ UNCHANGED <<session, cmdKey, rspKey, cmd, backend>>
        /\ (~rspKey /\ rsp' = rsp) \/ (rsp'.msgs = <<>> /\ rsp'.users = {})
    BY <1>11 DEF RemoveResponseQueue, NoQueue
  <2>2. rsp'.msgs = <<>> /\ rsp'.users = {} BY <2>1
  <2>3. Busy' = Busy /\ pc' = pc /\ job' = job BY <2>1 DEF Busy, backend
  <2> QED BY <2>1, <2>2, <2>3 DEF Active
<1>12. ~Killed BY DEF Killed
<1> QED BY <1>1, <1>4, <1>5, <1>6, <1>7, <1>8, <1>9, <1>10, <1>11, <1>12 DEF FrontendStep, UserStep

\* Unless a frontend is killed, every command and every answer that a running
\* frontend finds is of its own session, whatever else goes wrong.
THEOREM SessionsApart ==
    ASSUME "kill" \notin Faults
    PROVE  Spec => []RepliesAreOurs
<1>1. TypeOK /\ SessionInv /\ [Next]_vars => SessionInv'
  <2> SUFFICES ASSUME TypeOK, SessionInv, [Next]_vars PROVE SessionInv'
    OBVIOUS
  <2>1. CASE UNCHANGED vars
    <3>1. Busy' = Busy BY <2>1 DEF Busy, vars
    <3> QED BY <2>1, <3>1 DEF vars, SessionInv, OursOnly, UnopenedEmpty, LeftEmpty, Active
  <2> QED BY <2>1, SessionBackend, SessionFrontend DEF Next
<1>2. SessionInv => RepliesAreOurs BY DEF SessionInv, OursOnly, Active, RepliesAreOurs
<1> QED BY TypeCorrect, SessionInit, <1>1, <1>2, PTL DEF Spec

-----------------------------------------------------------------------------
(* Refinement: the five places in which a request can be, as sets.  What is  *)
(* in none of them is not made yet, or over.                                 *)

Queued == Range(Ids(cmd.msgs))
InWork == {job[b].id : b \in Busy}
Waiting == Range(Ids(rsp.msgs))
Shown == Range(answers)

\* The places do not overlap.
LEMMA Places ==
    ASSUME ReplyInv
    PROVE  /\ Queued \subseteq 1..sent /\ lost \subseteq 1..sent /\ sent \in Nat
           /\ InWork \subseteq Range(log) /\ Waiting \subseteq Range(log) /\ Shown \subseteq Range(log)
           /\ Range(log) \subseteq 1..sent
           /\ Range(log) \cap Queued = {} /\ Range(log) \cap lost = {} /\ Queued \cap lost = {}
           /\ InWork \cap Waiting = {} /\ InWork \cap Shown = {} /\ Waiting \cap Shown = {}
<1>1. MessageInv /\ OneReply /\ TypeOK /\ NothingVanishes BY DEF ReplyInv, MessageInv
<1>2. /\ 1..sent = Range(log) \cup Queued \cup lost
      /\ lost \cap (Range(log) \cup Queued) = {}
  BY <1>1 DEF NothingVanishes, Queued
<1>3. Range(log) \cap Queued = {}
  <2>1. \A i \in DOMAIN cmd.msgs : cmd.msgs[i].id \in Nat BY <1>1, IdentifierSequences
  <2>2. \A x \in Range(log) : \A i \in DOMAIN cmd.msgs : x # cmd.msgs[i].id
    BY <1>1, <2>1, QueuedIsNew
  <2> QED BY <2>2 DEF Queued, Range, Ids
<1>4. InWork \subseteq Range(log) \ Answered BY <1>1 DEF InWork, OneReply
<1>5. Waiting \subseteq Answered /\ Shown \subseteq Answered /\ Answered \subseteq Range(log)
  BY <1>1 DEF Waiting, Shown, Answered, OneReply
<1>6. Waiting \cap Shown = {} BY <1>1 DEF OneReply, Distinct, Waiting, Shown, Range
<1>7. sent \in Nat BY <1>1 DEF TypeOK
<1> QED BY <1>2, <1>3, <1>4, <1>5, <1>6, <1>7

\* The phase of a request is the place where it is.
PhaseIsPlace ==
    \A r \in Requests :
        /\ PhaseOf(r) = "unmade" <=> r > sent
        /\ PhaseOf(r) = "queued" <=> r \in Queued
        /\ PhaseOf(r) = "lost" <=> r \in lost
        /\ PhaseOf(r) = "taken" <=> r \in InWork
        /\ PhaseOf(r) = "answered" <=> r \in Waiting
        /\ PhaseOf(r) = "shown" <=> r \in Shown
        /\ PhaseOf(r) \in {"unmade", "queued", "lost", "taken", "answered", "shown", "over"}

LEMMA PhaseByPlace == ReplyInv => PhaseIsPlace
<1> SUFFICES ASSUME ReplyInv, NEW r \in Requests
             PROVE  /\ PhaseOf(r) = "unmade" <=> r > sent
                    /\ PhaseOf(r) = "queued" <=> r \in Queued
                    /\ PhaseOf(r) = "lost" <=> r \in lost
                    /\ PhaseOf(r) = "taken" <=> r \in InWork
                    /\ PhaseOf(r) = "answered" <=> r \in Waiting
                    /\ PhaseOf(r) = "shown" <=> r \in Shown
                    /\ PhaseOf(r) \in {"unmade", "queued", "lost", "taken", "answered", "shown", "over"}
  BY DEF PhaseIsPlace
<1>1. r \in Int /\ r >= 1 BY DEF Requests
<1>2. PhaseOf(r) = CASE r > sent -> "unmade"
                     [] r \in Queued -> "queued"
                     [] r \in lost -> "lost"
                     [] r \in InWork -> "taken"
                     [] r \in Waiting -> "answered"
                     [] r \in Shown -> "shown"
                     [] OTHER -> "over"
  <2>1. (\E b \in Busy : job[b].id = r) <=> r \in InWork BY DEF InWork
  <2> QED BY <2>1 DEF PhaseOf, Queued, Waiting, Shown
<1>3. \A x \in 1..sent : ~(x > sent) BY Places
<1>4. r > sent => r \notin 1..sent BY <1>3
<1> QED BY <1>1, <1>2, <1>4, Places

\* The state of RequestLifecycle that a state of the program stands for.
phases == [r \in Requests |-> PhaseOf(r)]

\* A request that alone changes its place moves in the life cycle, or is
\* beyond the requests that the life cycle counts.
LEMMA RequestMoves ==
    ASSUME NEW x, NEW from, NEW to,
           \A r \in Requests : r # x => PhaseOf(r)' = PhaseOf(r),
           x \in Requests => PhaseOf(x) = from /\ PhaseOf(x)' = to
    PROVE  IF x \in Requests THEN Lifecycle!Moves(x, from, to) ELSE phases' = phases
<1>1. phases = [r \in Requests |-> PhaseOf(r)] /\ phases' = [r \in Requests |-> PhaseOf(r)']
  BY DEF phases
<1>2. CASE x \notin Requests BY <1>1, <1>2
<1>3. CASE x \in Requests
  <2>1. phases[x] = from /\ phases' = [phases EXCEPT ![x] = to] BY <1>1, <1>3
  <2> QED BY <1>3, <2>1 DEF phases, Lifecycle!Moves
<1> QED BY <1>2, <1>3

\* Every step of the program is a step of the life cycle, or none.
LEMMA LifecycleStep == ReplyInv /\ [Next]_vars => [Lifecycle!Next]_phases
<1> SUFFICES ASSUME ReplyInv, [Next]_vars PROVE Lifecycle!Next \/ phases' = phases
  OBVIOUS
<1>1. ReplyInv' /\ MessageInv /\ TypeOK /\ OneReply
  BY ReplyStep DEF ReplyInv, MessageInv
<1>2. PhaseIsPlace /\ PhaseIsPlace'
  <2>1. PhaseIsPlace BY PhaseByPlace
  <2>2. ReplyInv' => PhaseIsPlace' BY PhaseByPlace, PTL
  <2> QED BY <1>1, <2>1, <2>2
<1>3. /\ Queued \subseteq 1..sent /\ lost \subseteq 1..sent /\ sent \in Nat
      /\ InWork \subseteq Range(log) /\ Waiting \subseteq Range(log) /\ Shown \subseteq Range(log)
      /\ Range(log) \subseteq 1..sent
      /\ Range(log) \cap Queued = {} /\ Range(log) \cap lost = {} /\ Queued \cap lost = {}
      /\ InWork \cap Waiting = {} /\ InWork \cap Shown = {} /\ Waiting \cap Shown = {}
  BY Places
<1>4. /\ cmd.msgs \in Seq(Message) /\ rsp.msgs \in Seq(Reply) /\ answers \in Seq(Nat)
      /\ \A i \in DOMAIN cmd.msgs : cmd.msgs[i].id \in Nat
      /\ \A i \in DOMAIN rsp.msgs : rsp.msgs[i].id \in Nat
      /\ job \in [Backends -> Message \cup {NoJob}]
  BY <1>1, IdentifierSequences DEF TypeOK
<1>5. \A r \in Requests : r \in Int /\ r >= 1 BY DEF Requests
<1>6. ASSUME NEW r \in Requests,
             r > sent' <=> r > sent, r \in Queued' <=> r \in Queued, r \in lost' <=> r \in lost,
             r \in InWork' <=> r \in InWork, r \in Waiting' <=> r \in Waiting,
             r \in Shown' <=> r \in Shown
      PROVE  PhaseOf(r)' = PhaseOf(r)
  <2>1. /\ PhaseOf(r) = "unmade" <=> r > sent
        /\ PhaseOf(r) = "queued" <=> r \in Queued
        /\ PhaseOf(r) = "lost" <=> r \in lost
        /\ PhaseOf(r) = "taken" <=> r \in InWork
        /\ PhaseOf(r) = "answered" <=> r \in Waiting
        /\ PhaseOf(r) = "shown" <=> r \in Shown
        /\ PhaseOf(r) \in {"unmade", "queued", "lost", "taken", "answered", "shown", "over"}
    BY <1>2 DEF PhaseIsPlace
  <2>2. /\ PhaseOf(r)' = "unmade" <=> r > sent'
        /\ PhaseOf(r)' = "queued" <=> r \in Queued'
        /\ PhaseOf(r)' = "lost" <=> r \in lost'
        /\ PhaseOf(r)' = "taken" <=> r \in InWork'
        /\ PhaseOf(r)' = "answered" <=> r \in Waiting'
        /\ PhaseOf(r)' = "shown" <=> r \in Shown'
        /\ PhaseOf(r)' \in {"unmade", "queued", "lost", "taken", "answered", "shown", "over"}
    BY <1>2 DEF PhaseIsPlace
  <2> QED BY <1>6, <2>1, <2>2
<1>7. ASSUME (\A r \in Requests : PhaseOf(r)' = PhaseOf(r)) PROVE phases' = phases
  BY <1>7 DEF phases
<1>8. WorkKept => InWork' = InWork BY DEF WorkKept, InWork
<1>9. AnswersKept => Waiting' = Waiting /\ Shown' = Shown
  <2>1. rsp'.msgs = rsp.msgs => Ids(rsp'.msgs) = Ids(rsp.msgs) OBVIOUS
  <2> QED BY <2>1 DEF AnswersKept, Waiting, Shown
<1>10. Keeps => sent' = sent /\ lost' = lost /\ Queued' = Queued
  <2>1. cmd'.msgs = cmd.msgs => Ids(cmd'.msgs) = Ids(cmd.msgs) OBVIOUS
  <2> QED BY <2>1 DEF Keeps, Queued
<1>11. ASSUME IsTaken
       PROVE  /\ sent' = sent /\ lost' = lost
              /\ Head(cmd.msgs).id \in Queued /\ Queued' = Queued \ {Head(cmd.msgs).id}
              /\ \A q \in Queued : q >= Head(cmd.msgs).id
  <2> DEFINE x == Head(cmd.msgs).id
  <2>1. cmd.msgs # <<>> /\ cmd'.msgs = Tail(cmd.msgs) /\ log' = Append(log, x)
        /\ sent' = sent /\ lost' = lost
    BY <1>11 DEF IsTaken
  <2>2. Queued = Range(Ids(Tail(cmd.msgs))) \cup {x} BY <1>4, <2>1, IdsOfTail DEF Queued
  <2>3. Queued' = Range(Ids(Tail(cmd.msgs))) BY <2>1 DEF Queued
  <2>4. 1 \in DOMAIN cmd.msgs /\ Head(cmd.msgs) = cmd.msgs[1]
        /\ \A i \in DOMAIN cmd.msgs : i \in Nat /\ (i = 1 \/ 1 < i)
    BY <1>4, <2>1
  <2>5. \A i \in DOMAIN cmd.msgs : i = 1 \/ x < cmd.msgs[i].id
    BY <1>1, <2>4 DEF MessageInv, InOrder
  <2>6. \A q \in Queued : q >= x
    <3>1. \A q \in Queued : \E i \in DOMAIN cmd.msgs : q = cmd.msgs[i].id BY DEF Queued, Range, Ids
    <3>2. \A i \in DOMAIN cmd.msgs : cmd.msgs[i].id >= x
      <4> TAKE i \in DOMAIN cmd.msgs
      <4>1. cmd.msgs[i].id \in Nat /\ x \in Nat BY <1>4, <2>4
      <4>2. i = 1 => cmd.msgs[i].id = x BY <2>4
      <4> HIDE DEF x
      <4> QED BY <2>5, <4>1, <4>2
    <3> HIDE DEF x
    <3> QED BY <3>1, <3>2
  <2>7. x \notin Range(Ids(Tail(cmd.msgs)))
    <3>1. /\ DOMAIN Tail(cmd.msgs) = 1..(Len(cmd.msgs) - 1) /\ Len(cmd.msgs) \in Nat
          /\ DOMAIN cmd.msgs = 1..Len(cmd.msgs)
          /\ \A i \in 1..(Len(cmd.msgs) - 1) : Tail(cmd.msgs)[i] = cmd.msgs[i + 1]
      BY <1>4, <2>1
    <3>2. \A i \in DOMAIN Tail(cmd.msgs) : i + 1 \in DOMAIN cmd.msgs /\ i + 1 # 1 BY <3>1
    <3>3. \A i \in DOMAIN Tail(cmd.msgs) : Tail(cmd.msgs)[i].id # x
      BY <1>4, <2>4, <2>5, <3>1, <3>2
    <3> HIDE DEF x
    <3> QED BY <3>3 DEF Range, Ids
  <2> QED BY <2>1, <2>2, <2>3, <2>6, <2>7
<1>12. CASE Rests \/ \E b \in Backends : Joins(b)
  <2>1. Keeps /\ WorkKept /\ Waiting' = Waiting /\ Shown' = Shown
    <3>1. Keeps /\ WorkKept /\ rsp'.msgs = rsp.msgs /\ answers' = answers
      BY <1>12 DEF Rests, Joins, AnswersKept
    <3>2. Ids(rsp'.msgs) = Ids(rsp.msgs) BY <3>1
    <3> QED BY <3>1, <3>2 DEF Waiting, Shown
  <2> QED BY <1>6, <1>7, <1>8, <1>10, <2>1
<1>13. CASE Makes
  <2>9. PICK x : x = sent + 1 OBVIOUS
  <2>1. /\ InWork' = InWork /\ Waiting' = Waiting /\ Shown' = Shown
        /\ sent' = x /\ lost' = lost
    BY <1>8, <1>9, <1>13, <2>9 DEF Makes, Enters
  <2>2. PICK m : m.id = sent + 1 /\ cmd'.msgs = Append(cmd.msgs, m) BY <1>13 DEF Makes, Enters
  <2>3. Range(Ids(cmd'.msgs)) = Range(Ids(cmd.msgs)) \cup {m.id} BY <1>4, <2>2, IdsOfAppend
  <2>4. Queued' = Queued \cup {x} BY <2>2, <2>3, <2>9 DEF Queued
  <2>5. \A r \in Requests : r # x => PhaseOf(r)' = PhaseOf(r)
    BY <2>9, <1>3, <1>5, <1>6, <2>1, <2>4
  <2>6. x \in Requests => PhaseOf(x) = "unmade" /\ PhaseOf(x)' = "queued"
    <3>1. x \in Queued' /\ x > sent BY <1>3, <2>4, <2>9
    <3> QED BY <1>2, <3>1 DEF PhaseIsPlace
  <2>7. IF x \in Requests THEN Lifecycle!Moves(x, "unmade", "queued") ELSE phases' = phases
    <3> QED BY <2>5, <2>6, RequestMoves
  <2>8. \A q \in Requests : q < x => phases[q] # "unmade"
    <3>1. \A q \in Requests : q < x => ~(q > sent) BY <1>3, <1>5, <2>9
    <3> QED BY <1>2, <3>1 DEF PhaseIsPlace, phases
  <2>10. \A q \in Requests : phases[q] = "unmade" => x <= q
    <3>1. x \in Nat /\ \A q \in Requests : q \in Nat BY <1>3, <1>5, <2>9
    <3> HIDE DEF phases
    <3> QED BY <2>8, <3>1
  <2>11. x \in Requests => Lifecycle!Make(x)
    <3>1. ASSUME x \in Requests PROVE Lifecycle!Moves(x, "unmade", "queued") BY <2>7, <3>1
    <3> QED BY <2>10, <3>1 DEF Lifecycle!Make, phases
  <2> QED BY <2>7, <2>11 DEF Lifecycle!Next
<1>14. ASSUME IsTaken, AnswersKept PROVE \A q \in Requests : q < Head(cmd.msgs).id => phases[q] # "queued"
  <2>1. \A q \in Requests : q < Head(cmd.msgs).id => q \notin Queued
    <3>1. PICK x : x = Head(cmd.msgs).id OBVIOUS
    <3>2. x \in Queued /\ \A q \in Queued : q >= x BY <1>11, <1>14, <3>1
    <3>3. \A q \in Queued : q \in Int BY <1>3
    <3> QED BY <1>5, <3>1, <3>2, <3>3
  <2> QED BY <1>2, <2>1 DEF PhaseIsPlace, phases
<1>15. CASE Obeys
  <2>9. PICK x : x = Head(cmd.msgs).id OBVIOUS
  <2>0. IsTaken /\ WorkKept /\ AnswersKept BY <1>15 DEF Obeys
  <2>1. /\ sent' = sent /\ lost' = lost /\ Queued' = Queued \ {x} /\ x \in Queued
        /\ InWork' = InWork /\ Waiting' = Waiting /\ Shown' = Shown
    BY <1>8, <1>9, <1>11, <2>0, <2>9
  <2>2. \A q \in Requests : q < x => phases[q] # "queued" BY <1>14, <2>0, <2>9
  <2>3. \A r \in Requests : r # x => PhaseOf(r)' = PhaseOf(r) BY <1>6, <2>1
  <2>4. x \in Requests => PhaseOf(x) = "queued" /\ PhaseOf(x)' = "over"
    <3>1. x \notin Queued' /\ x \notin lost' /\ x \notin InWork' /\ x \notin Waiting' /\ x \notin Shown'
          /\ ~(x > sent')
      BY <1>3, <2>1
    <3> QED BY <1>2, <2>1, <3>1 DEF PhaseIsPlace
  <2>5. IF x \in Requests THEN Lifecycle!Moves(x, "queued", "over") ELSE phases' = phases
    BY <2>3, <2>4, RequestMoves
  <2>6. x \in Requests => Lifecycle!Obey(x)
    BY <2>2, <2>5 DEF Lifecycle!Obey, Lifecycle!Oldest, phases
  <2> QED BY <2>5, <2>6 DEF Lifecycle!Next
<1>16. ASSUME NEW b \in Backends, TakesUp(b) PROVE Lifecycle!Next \/ phases' = phases
  <2>9. PICK x : x = Head(cmd.msgs).id OBVIOUS
  <2>0. IsTaken /\ AnswersKept BY <1>16 DEF TakesUp
  <2>1. /\ sent' = sent /\ lost' = lost /\ Queued' = Queued \ {x} /\ x \in Queued
        /\ Waiting' = Waiting /\ Shown' = Shown
    BY <1>9, <1>11, <2>0, <2>9
  <2>2. \A q \in Requests : q < x => phases[q] # "queued" BY <1>14, <2>0, <2>9
  <2>3. InWork' = InWork \cup {x}
    <3>1. /\ Busy' = Busy \cup {b} /\ b \notin Busy
          /\ \A c \in Busy : job'[c] = job[c]
          /\ job'[b] = Head(cmd.msgs)
      BY <1>4, <1>16 DEF TakesUp, Busy
    <3> QED BY <2>9, <3>1 DEF InWork
  <2>4. \A r \in Requests : r # x => PhaseOf(r)' = PhaseOf(r) BY <1>6, <2>1, <2>3
  <2>5. x \in Requests => PhaseOf(x) = "queued" /\ PhaseOf(x)' = "taken"
    BY <1>2, <2>1, <2>3 DEF PhaseIsPlace
  <2>6. IF x \in Requests THEN Lifecycle!Moves(x, "queued", "taken") ELSE phases' = phases
    BY <2>4, <2>5, RequestMoves
  <2>7. x \in Requests => Lifecycle!Take(x)
    BY <2>2, <2>6 DEF Lifecycle!Take, Lifecycle!Oldest, phases
  <2> QED BY <2>6, <2>7 DEF Lifecycle!Next
<1>17. ASSUME NEW b \in Busy, Busy' = Busy \ {b}, job' = job
       PROVE  InWork' = InWork \ {job[b].id} /\ job[b].id \in InWork
  <2>1. \A c \in Busy : c # b => job[c].id # job[b].id BY <1>1 DEF OneReply
  <2> QED BY <1>17, <2>1 DEF InWork
<1>18. ASSUME NEW b \in Backends, GivesUp(b) PROVE Lifecycle!Next \/ phases' = phases
  <2>9. PICK x : x = job[b].id OBVIOUS
  <2>1. /\ sent' = sent /\ lost' = lost /\ Queued' = Queued /\ Waiting' = Waiting /\ Shown' = Shown
        /\ InWork' = InWork \ {x} /\ x \in InWork
    BY <1>9, <1>10, <1>17, <1>18, <2>9 DEF GivesUp
  <2>2. \A r \in Requests : r # x => PhaseOf(r)' = PhaseOf(r) BY <1>6, <2>1
  <2>3. x \in Requests => PhaseOf(x) = "taken" /\ PhaseOf(x)' = "over"
    <3>1. x \notin Queued' /\ x \notin lost' /\ x \notin InWork' /\ x \notin Waiting' /\ x \notin Shown'
          /\ ~(x > sent')
      BY <1>3, <2>1
    <3> QED BY <1>2, <2>1, <3>1 DEF PhaseIsPlace
  <2>4. IF x \in Requests THEN Lifecycle!Moves(x, "taken", "over") ELSE phases' = phases
    BY <2>2, <2>3, RequestMoves
  <2> QED BY <2>4 DEF Lifecycle!Next, Lifecycle!Conclude
<1>19. ASSUME NEW b \in Backends, Replies(b) PROVE Lifecycle!Next \/ phases' = phases
  <2>9. PICK x : x = job[b].id OBVIOUS
  <2>1. /\ sent' = sent /\ lost' = lost /\ Queued' = Queued /\ Shown' = Shown
        /\ InWork' = InWork \ {x} /\ x \in InWork
    BY <1>10, <1>17, <1>19, <2>9 DEF Replies, Shown
  <2>2. Waiting' = Waiting \cup {x}
    <3>1. PICK m : m.id = job[b].id /\ rsp'.msgs = Append(rsp.msgs, m) BY <1>19 DEF Replies
    <3>2. Range(Ids(rsp'.msgs)) = Range(Ids(rsp.msgs)) \cup {m.id} BY <1>4, <3>1, IdsOfAppend
    <3> QED BY <2>9, <3>1, <3>2 DEF Waiting
  <2>3. \A r \in Requests : r # x => PhaseOf(r)' = PhaseOf(r) BY <1>6, <2>1, <2>2
  <2>4. x \in Requests => PhaseOf(x) = "taken" /\ PhaseOf(x)' = "answered"
    BY <1>2, <2>1, <2>2 DEF PhaseIsPlace
  <2>5. IF x \in Requests THEN Lifecycle!Moves(x, "taken", "answered") ELSE phases' = phases
    BY <2>3, <2>4, RequestMoves
  <2> QED BY <2>5 DEF Lifecycle!Next, Lifecycle!Answer
<1>20. CASE Reads
  <2>9. PICK x : x = Head(rsp.msgs).id OBVIOUS
  <2>1. /\ sent' = sent /\ lost' = lost /\ Queued' = Queued /\ InWork' = InWork
        /\ rsp.msgs # <<>> /\ rsp'.msgs = Tail(rsp.msgs) /\ answers' = Append(answers, x)
    BY <1>8, <1>10, <1>20, <2>9 DEF Reads
  <2>2. Waiting = Range(Ids(Tail(rsp.msgs))) \cup {x} BY <1>4, <2>1, <2>9, IdsOfTail DEF Waiting
  <2>3. Waiting' = Range(Ids(Tail(rsp.msgs))) BY <2>1 DEF Waiting
  <2>4. x \in Nat
    <3>1. 1 \in DOMAIN rsp.msgs /\ Head(rsp.msgs) = rsp.msgs[1] BY <1>4, <2>1
    <3> QED BY <1>4, <2>9, <3>1
  <2>5. Shown' = Shown \cup {x}
    <3>1. Range(Append(answers, x)) = Range(answers) \cup {x} BY <1>4, <2>4, RangeOfAppend
    <3> QED BY <2>1, <3>1 DEF Shown
  <2>6. \A r \in Requests : r # x => PhaseOf(r)' = PhaseOf(r) BY <1>6, <2>1, <2>2, <2>3, <2>5
  <2>7. x \in Requests => PhaseOf(x) = "answered" /\ PhaseOf(x)' = "shown"
    BY <1>2, <2>2, <2>5 DEF PhaseIsPlace
  <2>8. IF x \in Requests THEN Lifecycle!Moves(x, "answered", "shown") ELSE phases' = phases
    BY <2>6, <2>7, RequestMoves
  <2> QED BY <2>8 DEF Lifecycle!Next, Lifecycle!Show
<1>21. CASE ClearsCommands
  <2>1. /\ sent' = sent /\ lost' = lost \cup Queued /\ cmd'.msgs = <<>>
        /\ InWork' = InWork /\ Waiting' = Waiting /\ Shown' = Shown
    BY <1>8, <1>9, <1>21 DEF ClearsCommands, IsDiscarded, Queued
  <2>2. Queued' = {} BY <2>1 DEF Queued, Range, Ids
  <2>3. \A r \in Requests : PhaseOf(r)' = IF PhaseOf(r) = "queued" THEN "lost" ELSE PhaseOf(r)
    <3> TAKE r \in Requests
    <3>1. CASE r \in Queued
      <4>1. r \in lost' BY <2>1, <3>1
      <4> QED BY <1>2, <3>1, <4>1 DEF PhaseIsPlace
    <3>2. CASE r \notin Queued
      <4>1. PhaseOf(r)' = PhaseOf(r) BY <1>6, <2>1, <2>2, <3>2
      <4> QED BY <1>2, <3>2, <4>1 DEF PhaseIsPlace
    <3> QED BY <3>1, <3>2
  <2>4. phases' = [r \in Requests |-> IF phases[r] = "queued" THEN "lost" ELSE phases[r]]
    BY <2>3 DEF phases
  <2> QED BY <2>4 DEF Lifecycle!Next, Lifecycle!LoseRequests, phases
<1>22. CASE ClearsAnswers
  <2>1. /\ sent' = sent /\ lost' = lost /\ Queued' = Queued
        /\ InWork' = InWork /\ Shown' = Shown /\ rsp'.msgs = <<>>
    BY <1>8, <1>10, <1>22 DEF ClearsAnswers, Shown
  <2>2. Waiting' = {} BY <2>1 DEF Waiting, Range, Ids
  <2>3. \A r \in Requests : PhaseOf(r)' = IF PhaseOf(r) = "answered" THEN "over" ELSE PhaseOf(r)
    <3> TAKE r \in Requests
    <3>1. CASE r \in Waiting
      <4>1. r \notin Queued' /\ r \notin lost' /\ r \notin InWork' /\ r \notin Waiting' /\ r \notin Shown'
            /\ ~(r > sent')
        BY <1>3, <2>1, <2>2, <3>1
      <4> QED BY <1>2, <3>1, <4>1 DEF PhaseIsPlace
    <3>2. CASE r \notin Waiting
      <4>1. PhaseOf(r)' = PhaseOf(r) BY <1>6, <2>1, <2>2, <3>2
      <4> QED BY <1>2, <3>2, <4>1 DEF PhaseIsPlace
    <3> QED BY <3>1, <3>2
  <2>4. phases' = [r \in Requests |-> IF phases[r] = "answered" THEN "over" ELSE phases[r]]
    BY <2>3 DEF phases
  <2> QED BY <2>4 DEF Lifecycle!Next, Lifecycle!LoseAnswers, phases
<1> QED BY <1>1, <1>12, <1>13, <1>15, <1>16, <1>18, <1>19, <1>20, <1>21, <1>22, Kinds

\* Frontend, backends and queues implement the life cycle of a request, for any
\* number of requests, backends and places in the queues, through every fault.
THEOREM Refinement == Spec => ImplementsLifecycle
<1>1. Init => Lifecycle!Init
  <2> SUFFICES ASSUME Init PROVE phases = [r \in Requests |-> "unmade"]
    BY DEF Lifecycle!Init, phases
  <2>1. PhaseIsPlace /\ sent = 0 BY ReplyInit, PhaseByPlace DEF Init
  <2>2. \A r \in Requests : r > sent BY <2>1 DEF Requests
  <2> QED BY <2>1, <2>2 DEF PhaseIsPlace, phases
<1>2. Lifecycle!Spec <=> Lifecycle!Init /\ [][Lifecycle!Next]_phases
  BY DEF Lifecycle!Spec, phases
<1> QED BY ReplyInit, ReplyStep, LifecycleStep, <1>1, <1>2, PTL DEF Spec, ImplementsLifecycle

=============================================================================
