--------------------------- MODULE ExercisesProofs ---------------------------
(* Theorems about the small programs: the containers (Tcp), the exercises in *)
(* ipc_test/ (IpcTest), and, with those of ParentChildProofs, whichever of   *)
(* the programs the user picks.  They hold for any number of processes, any  *)
(* capacity of the queues, and whatever is killed or late.                   *)
EXTENDS Exercises, ParentChildProofs, SequenceTheorems

-----------------------------------------------------------------------------
(* The server and its visitors.  Each connection is in one place only: it    *)
(* waits at the port, the server has it, or the client has something to read.*)

\* Who has not come through has been sent nothing and is nowhere else.
Outside == {"off", "knocking", "refused"}

ServerAt ==
    /\ server \in {"off", "bound"} => backlog = <<>>
    /\ server \in {"off", "bound", "listening"} => serving = {}
    /\ server = "accepted" => \A v \in serving : inbox[v] = "nothing"
    /\ server = "written" => \A v \in serving : inbox[v] # "nothing"

BacklogAt ==
    \A v \in T!Waiting :
        /\ visitor[v] \in {"connected", "killed"} /\ inbox[v] = "nothing"
        /\ v \notin serving

VisitorAt(v) ==
    /\ v \in serving => visitor[v] \notin Outside
    /\ visitor[v] \in Outside => inbox[v] = "nothing"
    /\ inbox[v] \in {"end", "reset"} => v \in cut

TcpTypes ==
    /\ server \in {"off", "bound", "listening", "accepted", "written"}
    /\ servers \in 0..MaxServers
    /\ serving \subseteq Visitors /\ held \subseteq Visitors /\ cut \subseteq Visitors
    /\ visitor \in [Visitors -> {"off", "knocking", "connected", "refused", "over", "failed", "killed"}]
    /\ inbox \in [Visitors -> {"nothing", "greeting", "end", "reset"}]
    /\ greeted \in [Visitors -> {"nothing", "greeting", "end"}]
    /\ killed \in BOOLEAN

BacklogTypes ==
    /\ backlog \in Seq(Visitors) /\ Len(backlog) <= Backlog + 1
    /\ \A i, j \in DOMAIN backlog : backlog[i] = backlog[j] => i = j

TcpInv ==
    /\ TcpTypes /\ BacklogTypes
    /\ ServerAt /\ BacklogAt
    /\ \A v \in Visitors : VisitorAt(v)
    /\ ~killed => cut = {}
    /\ T!VisitorsAreGreeted

\* Who waits at the port is in the backlog,
LEMMA WaitingIsBacklog ==
    ASSUME backlog \in Seq(Visitors)
    PROVE  T!Waiting = {backlog[i] : i \in DOMAIN backlog} /\ T!Waiting \subseteq Visitors
BY DEF T!Waiting, T!ToSet

\* joins it at the end,
LEMMA BacklogGrows ==
    ASSUME BacklogTypes, NEW v \in Visitors, v \notin T!Waiting, Len(backlog) <= Backlog,
           backlog' = Append(backlog, v)
    PROVE  BacklogTypes' /\ T!Waiting' = T!Waiting \cup {v}
<1>1. /\ backlog \in Seq(Visitors) /\ backlog' \in Seq(Visitors) /\ Len(backlog) \in Nat
      /\ DOMAIN backlog = 1..Len(backlog) /\ DOMAIN backlog' = 1..(Len(backlog) + 1)
      /\ \A i \in 1..Len(backlog) : backlog'[i] = backlog[i]
      /\ backlog'[Len(backlog) + 1] = v
      /\ Len(backlog') = Len(backlog) + 1
  BY DEF BacklogTypes
<1>2. \A i \in DOMAIN backlog' : i \in DOMAIN backlog \/ i = Len(backlog) + 1
  BY <1>1
<1>3. /\ T!Waiting = {backlog[i] : i \in DOMAIN backlog}
      /\ T!Waiting' = {backlog'[i] : i \in DOMAIN backlog'}
  BY DEF T!Waiting, T!ToSet
<1>4. \A i, j \in DOMAIN backlog' : backlog'[i] = backlog'[j] => i = j
  <2>1. \A i \in DOMAIN backlog : backlog'[i] = backlog[i] /\ backlog[i] # v BY <1>1, <1>3
  <2> QED BY <1>1, <1>2, <2>1 DEF BacklogTypes
<1>5. Len(backlog') <= Backlog + 1 BY <1>1, BoundsAssumption
<1>6. T!Waiting' = T!Waiting \cup {v}
  <2>1. \A i \in DOMAIN backlog : i \in DOMAIN backlog' /\ backlog'[i] = backlog[i] BY <1>1
  <2>2. Len(backlog) + 1 \in DOMAIN backlog' BY <1>1
  <2> QED BY <1>1, <1>2, <1>3, <2>1, <2>2
<1> QED BY <1>1, <1>4, <1>5, <1>6 DEF BacklogTypes

\* and leaves it as the first.
LEMMA BacklogShrinks ==
    ASSUME BacklogTypes, backlog # <<>>, backlog' = Tail(backlog)
    PROVE  /\ BacklogTypes' /\ Head(backlog) \in T!Waiting
           /\ T!Waiting' = T!Waiting \ {Head(backlog)}
<1> DEFINE h == Head(backlog)
<1>1. /\ backlog \in Seq(Visitors) /\ backlog' \in Seq(Visitors) /\ Len(backlog) \in Nat \ {0}
      /\ DOMAIN backlog = 1..Len(backlog) /\ DOMAIN backlog' = 1..(Len(backlog) - 1)
      /\ \A i \in 1..(Len(backlog) - 1) : backlog'[i] = backlog[i + 1]
      /\ h = backlog[1]
      /\ Len(backlog') = Len(backlog) - 1
  BY DEF BacklogTypes
<1>2. \A i \in DOMAIN backlog' : i + 1 \in DOMAIN backlog /\ i + 1 # 1 /\ backlog'[i] = backlog[i + 1]
  BY <1>1
<1>3. /\ T!Waiting = {backlog[i] : i \in DOMAIN backlog}
      /\ T!Waiting' = {backlog'[i] : i \in DOMAIN backlog'}
  BY DEF T!Waiting, T!ToSet
<1>4. 1 \in DOMAIN backlog BY <1>1
<1>5. \A i, j \in DOMAIN backlog' : i + 1 = j + 1 => i = j BY <1>1
<1>6. \A i, j \in DOMAIN backlog' : backlog'[i] = backlog'[j] => i = j
  BY <1>2, <1>5 DEF BacklogTypes
<1>7. Len(backlog') <= Backlog + 1 BY <1>1, BoundsAssumption DEF BacklogTypes
<1>8. \A i \in DOMAIN backlog : i = 1 \/ \E j \in DOMAIN backlog' : backlog'[j] = backlog[i]
  <2> TAKE i \in DOMAIN backlog
  <2>1. i = 1 \/ (i - 1 \in DOMAIN backlog' /\ backlog'[i - 1] = backlog[i]) BY <1>1
  <2> QED BY <2>1
<1>9. \A i \in DOMAIN backlog : backlog[i] = h => i = 1
  BY <1>1, <1>4 DEF BacklogTypes
<1>81. backlog[1] = h BY <1>1
<1> HIDE DEF h
<1>10. T!Waiting' = T!Waiting \ {h}
  <2>1. \A x \in T!Waiting' : x \in T!Waiting \ {h} BY <1>2, <1>3, <1>9
  <2>2. \A x \in T!Waiting : x # h => x \in T!Waiting' BY <1>3, <1>8, <1>81
  <2>3. h \notin T!Waiting' BY <1>2, <1>3, <1>9
  <2> QED BY <2>1, <2>2, <2>3
<1>11. h \in T!Waiting BY <1>1, <1>3, <1>4
<1> QED BY <1>1, <1>6, <1>7, <1>10, <1>11 DEF BacklogTypes, h

\* At the start nobody is there.
LEMMA TcpInit == T!Init => TcpInv
<1> SUFFICES ASSUME T!Init PROVE TcpInv
  OBVIOUS
<1> USE DEF T!Init
<1>1. TcpTypes
  <2>1. servers \in 0..MaxServers BY BoundsAssumption
  <2>2. serving = {} /\ held = {} /\ cut = {} /\ server = "off" /\ killed = FALSE OBVIOUS
  <2>3. /\ visitor \in [Visitors -> {"off"}] /\ inbox \in [Visitors -> {"nothing"}]
        /\ greeted \in [Visitors -> {"nothing"}]
    OBVIOUS
  <2> HIDE DEF T!Init
  <2> QED BY <2>1, <2>2, <2>3 DEF TcpTypes
<1>2. BacklogTypes BY BoundsAssumption DEF BacklogTypes
<1>3. T!Waiting = {} BY DEF T!Waiting, T!ToSet
<1>4. ServerAt /\ BacklogAt /\ (\A v \in Visitors : VisitorAt(v)) /\ (~killed => cut = {})
  BY <1>3 DEF ServerAt, BacklogAt, VisitorAt
<1>5. T!VisitorsAreGreeted BY DEF T!VisitorsAreGreeted
<1> QED BY <1>1, <1>2, <1>4, <1>5 DEF TcpInv

\* A connection goes from the port to the server and from there to the
\* client's inbox, and a server that is killed leaves an end or a reset there.
LEMMA TcpServerStep == ASSUME TcpInv, T!ServerStep PROVE TcpInv'
<1> USE DEF TcpInv, TcpTypes, ServerAt, BacklogAt, VisitorAt, T!VisitorsAreGreeted, T!Listening
<1>0. T!Waiting \subseteq Visitors BY WaitingIsBacklog DEF BacklogTypes
<1>1. CASE backlog' = backlog /\ (T!StartServer \/ T!Listen)
  <2>1. T!Waiting' = T!Waiting /\ BacklogTypes' BY <1>1 DEF T!Waiting, T!ToSet, BacklogTypes
  <2>2. T!Waiting = {} BY <1>1 DEF T!Waiting, T!ToSet, T!StartServer, T!Listen
  <2>3. servers' \in 0..MaxServers BY <1>1, BoundsAssumption DEF T!StartServer, T!Listen
  <2> QED BY <1>1, <2>1, <2>2, <2>3 DEF T!StartServer, T!Listen
<1>2. CASE T!Accept
  <2>1. PICK h : h = Head(backlog) OBVIOUS
  <2>2. /\ BacklogTypes' /\ h \in T!Waiting /\ T!Waiting' = T!Waiting \ {h}
    BY <1>2, <2>1, BacklogShrinks DEF T!Accept
  <2>3. /\ server = "listening" /\ server' = "accepted" /\ serving' = {h}
        /\ UNCHANGED <<servers, visitor, inbox, greeted, held, cut, killed>>
    BY <1>2, <2>1 DEF T!Accept
  <2>4. TcpTypes' /\ ServerAt'
    <3>1. serving' \subseteq Visitors BY <1>0, <2>2, <2>3
    <3> QED BY <2>2, <2>3, <3>1
  <2>5. BacklogAt' BY <2>2, <2>3
  <2>6. (\A v \in Visitors : VisitorAt(v)') BY <2>2, <2>3 DEF Outside
  <2>7. T!VisitorsAreGreeted'
    <3> SUFFICES ASSUME NEW v \in Visitors
                 PROVE  /\ visitor[v] = "connected" /\ inbox[v] = "nothing"
                              => v \in T!Waiting' \/ v \in serving'
                        /\ visitor[v] \in {"over", "failed"} => greeted[v] = "greeting" \/ v \in cut
      BY <2>3
    <3> QED BY <2>2, <2>3
  <2> QED BY <2>2, <2>3, <2>4, <2>5, <2>6, <2>7
<1>3. CASE backlog' = backlog /\ (T!Write \/ T!Close)
  <2>1. T!Waiting' = T!Waiting /\ BacklogTypes' BY <1>3 DEF T!Waiting, T!ToSet, BacklogTypes
  <2>2. CASE T!Write
    <3>1. /\ server = "accepted" /\ server' = "written"
          /\ \A v \in Visitors : inbox'[v] = IF v \in serving THEN "greeting" ELSE inbox[v]
          /\ inbox' \in [Visitors -> {"nothing", "greeting", "end", "reset"}]
          /\ UNCHANGED <<servers, serving, visitor, greeted, held, cut, killed>>
      BY <2>2 DEF T!Write
    <3> QED BY <1>0, <2>1, <3>1
  <2>3. CASE T!Close BY <1>0, <2>1, <2>3 DEF T!Close
  <2> QED BY <1>3, <2>2, <2>3
<1>4. CASE T!KillServer
  <2>1. /\ server' = "off" /\ serving' = {} /\ backlog' = <<>> /\ killed' = TRUE /\ ~killed /\ cut = {}
        /\ cut' = T!Waiting \cup serving
        /\ UNCHANGED <<servers, visitor, greeted>>
    BY <1>4 DEF T!KillServer
  <2>2. /\ inbox' \in [Visitors -> {"nothing", "greeting", "end", "reset"}]
        /\ \A v \in Visitors :
              inbox'[v] = CASE v \in T!Waiting -> "reset"
                            [] v \in serving /\ inbox[v] = "nothing" -> "end"
                            [] OTHER -> inbox[v]
    BY <1>4 DEF T!KillServer
  <2>3. held' \subseteq Visitors BY <1>4 DEF T!KillServer
  <2>4. T!Waiting' = {} /\ BacklogTypes'
    BY <2>1, BoundsAssumption DEF T!Waiting, T!ToSet, BacklogTypes
  <2>5. TcpTypes' /\ ServerAt' /\ BacklogAt' BY <1>0, <2>1, <2>2, <2>3, <2>4
  <2>6. (\A v \in Visitors : VisitorAt(v)') BY <2>1, <2>2 DEF Outside
  <2>7. T!VisitorsAreGreeted'
    <3> SUFFICES ASSUME NEW v \in Visitors
                 PROVE  /\ ~(visitor[v] = "connected" /\ inbox'[v] = "nothing")
                        /\ visitor[v] \in {"over", "failed"} => greeted[v] = "greeting"
      BY <2>1
    <3> QED BY <2>1, <2>2
  <2> QED BY <2>1, <2>4, <2>5, <2>6, <2>7
<1>5. T!StartServer \/ T!Listen \/ T!Write \/ T!Close => backlog' = backlog
  BY DEF T!StartServer, T!Listen, T!Write, T!Close
<1> QED BY <1>1, <1>2, <1>3, <1>4, <1>5 DEF T!ServerStep

\* A visitor comes once, reads once, and leaves.
LEMMA TcpVisitorStep == ASSUME TcpInv, NEW v \in Visitors, T!VisitorStep(v) PROVE TcpInv'
<1> USE DEF TcpInv, TcpTypes, ServerAt, BacklogAt, VisitorAt, T!VisitorsAreGreeted, T!Listening
<1>0. T!Waiting \subseteq Visitors BY WaitingIsBacklog DEF BacklogTypes
<1>1. ASSUME backlog' = backlog PROVE T!Waiting' = T!Waiting /\ BacklogTypes'
  BY <1>1 DEF T!Waiting, T!ToSet, BacklogTypes
<1>2. CASE T!Refused(v) \/ T!KillVisitor(v) \/ T!Expire(v)
  <2>1. T!Waiting' = T!Waiting /\ BacklogTypes'
    BY <1>1, <1>2 DEF T!Refused, T!KillVisitor, T!Expire
  <2>2. CASE T!Refused(v) BY <1>0, <2>1, <2>2 DEF T!Refused, Outside
  <2>3. CASE T!KillVisitor(v) BY <1>0, <2>1, <2>3 DEF T!KillVisitor, Outside
  <2>4. CASE T!Expire(v) BY <1>0, <2>1, <2>4 DEF T!Expire, Outside
  <2> QED BY <1>2, <2>2, <2>3, <2>4
<1>3. CASE T!Connect(v)
  <2>1. UNCHANGED <<server, servers, serving, inbox, greeted, held, cut, killed>>
    BY <1>3 DEF T!Connect
  <2>2. CASE /\ visitor[v] \in {"off", "knocking"} /\ Len(backlog) <= Backlog
             /\ visitor' = [visitor EXCEPT ![v] = "connected"]
             /\ backlog' = Append(backlog, v) /\ T!Listening
    <3>1. v \notin T!Waiting BY <2>2
    <3>2. BacklogTypes' /\ T!Waiting' = T!Waiting \cup {v} BY <2>2, <3>1, BacklogGrows
    <3> QED BY <1>0, <2>1, <2>2, <3>2 DEF Outside
  <2>3. CASE visitor[v] = "off" /\ visitor' = [visitor EXCEPT ![v] = "knocking"] /\ backlog' = backlog
    BY <1>0, <1>1, <2>1, <2>3 DEF Outside
  <2> QED BY <1>3, <2>2, <2>3 DEF T!Connect
<1>4. CASE T!Read(v)
  <2>1. backlog' = backlog BY <1>4 DEF T!Read
  <2> QED BY <1>0, <1>1, <1>4, <2>1 DEF T!Read, Outside
<1> QED BY <1>2, <1>3, <1>4 DEF T!VisitorStep

\* The server never leaves anybody without its greeting, whoever is killed.
LEMMA TcpStep == TcpInv /\ [T!Next]_T!vars => TcpInv'
<1> SUFFICES ASSUME TcpInv, [T!Next]_T!vars PROVE TcpInv'
  OBVIOUS
<1>1. CASE UNCHANGED T!vars
  <2>1. T!Waiting' = T!Waiting BY <1>1 DEF T!vars, T!Waiting, T!ToSet
  <2> QED BY <1>1, <2>1 DEF T!vars, TcpInv, TcpTypes, BacklogTypes, ServerAt, BacklogAt, VisitorAt,
                            T!VisitorsAreGreeted, T!Listening
<1> QED BY <1>1, TcpServerStep, TcpVisitorStep DEF T!Next

\* TcpInv gives every variable its type.
LEMMA TcpInvTypes == TcpInv => T!TypeOK
BY DEF TcpInv, TcpTypes, BacklogTypes, T!TypeOK, T!IsInjective

\* However many visitors come to whatever number of places, and whoever is
\* killed: who got through has its greeting, or will find it.
THEOREM EverybodyGreeted == T!Spec => []T!VisitorsAreGreeted
<1>1. TcpInv => T!VisitorsAreGreeted BY DEF TcpInv
<1> QED BY TcpInit, TcpStep, <1>1, PTL DEF T!Spec

-----------------------------------------------------------------------------
(* The mail of send_message and receive_message.  Message n has the number n, *)
(* and the numbers of those received and of those that wait make one row.     *)

MailTypes ==
    /\ accepted \in Nat /\ received \in Seq(Nat)
    /\ mail.msgs \in Seq([id : Nat]) /\ Len(mail.msgs) <= MailCap
    /\ DOMAIN mail = {"live", "msgs", "users"}
    /\ receiver \in [Receivers -> {"off", "waiting", "over", "failed"}]

Numbered ==
    /\ accepted = Len(received) + Len(mail.msgs)
    /\ \A i \in 1..Len(received) : received[i] = i
    /\ \A i \in 1..Len(mail.msgs) : mail.msgs[i].id = Len(received) + i

MailInv == MailTypes /\ Numbered

\* The numbers of a queue are a sequence of their own.
LEMMA NumbersOf ==
    ASSUME NEW S, NEW ms \in Seq(S), \A m \in S : m.id \in Nat
    PROVE  /\ I!Ids(ms) \in Seq(Nat) /\ Len(I!Ids(ms)) = Len(ms)
           /\ \A i \in 1..Len(ms) : I!Ids(ms)[i] = ms[i].id
<1>1. DOMAIN ms = 1..Len(ms) /\ Len(ms) \in Nat /\ \A i \in 1..Len(ms) : ms[i] \in S
  OBVIOUS
<1>2. I!Ids(ms) = [i \in 1..Len(ms) |-> ms[i].id] BY <1>1 DEF I!Ids
<1>3. \A i \in 1..Len(ms) : ms[i].id \in Nat BY <1>1
<1>4. I!Ids(ms) \in [1..Len(ms) -> Nat] BY <1>2, <1>3
<1>5. I!Ids(ms) \in Seq(Nat) /\ Len(I!Ids(ms)) = Len(ms) BY <1>1, <1>2, <1>4
<1> QED BY <1>1, <1>2, <1>5

\* Two rows, the second going on where the first ends, make one.
LEMMA RowsJoin ==
    ASSUME NEW s \in Seq(Nat), NEW t \in Seq(Nat),
           \A i \in 1..Len(s) : s[i] = i, \A i \in 1..Len(t) : t[i] = Len(s) + i
    PROVE  s \o t = [i \in 1..(Len(s) + Len(t)) |-> i]
<1> DEFINE st == s \o t
<1>1. /\ Len(s) \in Nat /\ Len(t) \in Nat
      /\ st \in Seq(Nat) /\ Len(st) = Len(s) + Len(t)
      /\ \A i \in 1..Len(st) : st[i] = IF i <= Len(s) THEN s[i] ELSE t[i - Len(s)]
  OBVIOUS
<1> HIDE DEF st
<1>2. \A i \in 1..Len(st) : st[i] = i
  <2> TAKE i \in 1..Len(st)
  <2>1. CASE i <= Len(s) BY <1>1, <2>1
  <2>2. CASE ~(i <= Len(s))
    <3>1. st[i] = t[i - Len(s)] BY <1>1, <2>2
    <3>2. i - Len(s) \in 1..Len(t) BY <1>1, <2>2
    <3>3. t[i - Len(s)] = Len(s) + (i - Len(s)) BY <3>2
    <3> QED BY <1>1, <3>1, <3>3
  <2> QED BY <2>1, <2>2
<1>3. st = [i \in 1..Len(st) |-> st[i]] BY <1>1
<1> QED BY <1>1, <1>2, <1>3 DEF st

\* The row is what MailIsKept says.
LEMMA MailInvKeeps == MailInv => I!MailIsKept
<1> SUFFICES ASSUME MailInv PROVE [i \in 1..accepted |-> i] = received \o I!Ids(mail.msgs)
  BY DEF I!MailIsKept
<1>1. PICK numbers : numbers = I!Ids(mail.msgs) OBVIOUS
<1>2. /\ received \in Seq(Nat) /\ mail.msgs \in Seq([id : Nat])
      /\ accepted = Len(received) + Len(mail.msgs)
      /\ \A i \in 1..Len(received) : received[i] = i
      /\ \A i \in 1..Len(mail.msgs) : mail.msgs[i].id = Len(received) + i
  BY DEF MailInv, MailTypes, Numbered
<1>3. /\ numbers \in Seq(Nat) /\ Len(numbers) = Len(mail.msgs)
      /\ \A i \in 1..Len(mail.msgs) : numbers[i] = mail.msgs[i].id
  <2>1. \A m \in [id : Nat] : m.id \in Nat OBVIOUS
  <2> QED BY <1>1, <1>2, <2>1, NumbersOf
<1>4. received \o numbers = [i \in 1..(Len(received) + Len(numbers)) |-> i] BY <1>2, <1>3, RowsJoin
<1> QED BY <1>1, <1>2, <1>3, <1>4

\* There is no mail at the start.
LEMMA MailInit == I!Init => MailInv
<1> SUFFICES ASSUME I!Init PROVE MailInv
  OBVIOUS
<1>1. /\ mail.msgs = <<>> /\ DOMAIN mail = {"live", "msgs", "users"}
      /\ accepted = 0 /\ received = <<>> /\ receiver = [r \in Receivers |-> "off"]
  BY DEF I!Init, I!NoQueue
<1>2. Len(mail.msgs) = 0 /\ Len(received) = 0 BY <1>1
<1> QED BY <1>1, <1>2, BoundsAssumption DEF MailInv, MailTypes, Numbered

\* What is sent gets the next number, and what is received is the next one.
LEMMA MailStep == MailInv /\ [I!Next]_I!vars => MailInv'
<1> SUFFICES ASSUME MailInv, [I!Next]_I!vars PROVE MailInv'
  OBVIOUS
<1>1. /\ accepted \in Nat /\ received \in Seq(Nat) /\ mail.msgs \in Seq([id : Nat])
      /\ Len(received) \in Nat /\ Len(mail.msgs) \in Nat /\ Len(mail.msgs) <= MailCap
      /\ DOMAIN mail = {"live", "msgs", "users"}
      /\ receiver \in [Receivers -> {"off", "waiting", "over", "failed"}]
  BY DEF MailInv, MailTypes
<1>2. /\ accepted = Len(received) + Len(mail.msgs)
      /\ \A i \in 1..Len(received) : received[i] = i
      /\ \A i \in 1..Len(mail.msgs) : mail.msgs[i].id = Len(received) + i
  BY DEF MailInv, Numbered
<1>3. CASE mail'.msgs = mail.msgs /\ DOMAIN mail' = DOMAIN mail /\ UNCHANGED <<accepted, received>>
           /\ receiver' \in [Receivers -> {"off", "waiting", "over", "failed"}]
  BY <1>1, <1>2, <1>3 DEF MailInv, MailTypes, Numbered
<1>4. CASE I!SendMessage
  <2> DEFINE q == I!Opened(mail, {})
             m == [id |-> accepted + 1]
  <2>1. /\ q.msgs = mail.msgs /\ DOMAIN q = {"live", "msgs", "users"} BY DEF I!Opened
  <2>2. CASE ~I!HasRoom(q, MailCap)
    <3>1. mail' = q /\ UNCHANGED <<accepted, received, receiver>> BY <1>4, <2>2 DEF I!SendMessage
    <3> QED BY <1>1, <1>3, <2>1, <3>1
  <2>3. CASE I!HasRoom(q, MailCap)
    <3>1. /\ mail' = I!Sent(q, m) /\ accepted' = accepted + 1 /\ UNCHANGED <<received, receiver>>
      BY <1>4, <2>3 DEF I!SendMessage
    <3>2. mail'.msgs = Append(mail.msgs, m) /\ DOMAIN mail' = {"live", "msgs", "users"}
      <4> HIDE DEF q, m
      <4> QED BY <2>1, <3>1 DEF I!Sent
    <3>3. Len(mail.msgs) < MailCap BY <2>1, <2>3 DEF I!HasRoom
    <3>4. m \in [id : Nat] /\ m.id = accepted + 1 BY <1>1
    <3> HIDE DEF m
    <3>5. /\ mail'.msgs \in Seq([id : Nat]) /\ Len(mail'.msgs) = Len(mail.msgs) + 1
          /\ \A i \in 1..Len(mail.msgs) : mail'.msgs[i] = mail.msgs[i]
          /\ mail'.msgs[Len(mail.msgs) + 1] = m
      BY <1>1, <3>2, <3>4
    <3>6. \A i \in 1..Len(mail'.msgs) : mail'.msgs[i].id = Len(received) + i
      <4> TAKE i \in 1..Len(mail'.msgs)
      <4>1. CASE i \in 1..Len(mail.msgs) BY <1>2, <3>5, <4>1
      <4>2. CASE i = Len(mail.msgs) + 1 BY <1>1, <1>2, <3>4, <3>5, <4>2
      <4> QED BY <1>1, <3>5, <4>1, <4>2
    <3>7. accepted' = Len(received) + Len(mail'.msgs) BY <1>1, <1>2, <3>1, <3>5
    <3>8. Len(mail'.msgs) <= MailCap BY <1>1, <3>3, <3>5, BoundsAssumption
    <3> QED BY <1>1, <1>2, <3>1, <3>2, <3>5, <3>6, <3>7, <3>8 DEF MailInv, MailTypes, Numbered
  <2> QED BY <2>2, <2>3
<1>5. ASSUME NEW r \in Receivers, I!StartReceiver(r) PROVE MailInv'
  <2>1. UNCHANGED <<mail, accepted, received>> BY <1>5 DEF I!StartReceiver
  <2>2. receiver' \in [Receivers -> {"off", "waiting", "over", "failed"}]
    BY <1>1, <1>5 DEF I!StartReceiver
  <2> QED BY <1>3, <2>1, <2>2
<1>6. ASSUME NEW r \in Receivers, I!Receive(r) PROVE MailInv'
  <2> DEFINE x == Head(mail.msgs).id
  <2>1. /\ mail.msgs # <<>> /\ received' = Append(received, x) /\ mail' = I!Received(mail)
        /\ accepted' = accepted
        /\ receiver' \in [Receivers -> {"off", "waiting", "over", "failed"}]
    BY <1>1, <1>6 DEF I!Receive
  <2>2. mail'.msgs = Tail(mail.msgs) /\ DOMAIN mail' = {"live", "msgs", "users"}
    BY <1>1, <2>1 DEF I!Received
  <2>3. /\ mail'.msgs \in Seq([id : Nat]) /\ Len(mail'.msgs) = Len(mail.msgs) - 1
        /\ Len(mail.msgs) >= 1
        /\ \A i \in 1..Len(mail'.msgs) : mail'.msgs[i] = mail.msgs[i + 1]
        /\ Head(mail.msgs) = mail.msgs[1]
    BY <1>1, <2>1, <2>2
  <2>4. x = Len(received) + 1 BY <1>1, <1>2, <2>3
  <2> HIDE DEF x
  <2>5. /\ received' \in Seq(Nat) /\ Len(received') = Len(received) + 1
        /\ \A i \in 1..Len(received) : received'[i] = received[i]
        /\ received'[Len(received) + 1] = x
    BY <1>1, <2>1, <2>4
  <2>6. \A i \in 1..Len(received') : received'[i] = i
    <3> TAKE i \in 1..Len(received')
    <3>1. CASE i \in 1..Len(received) BY <1>2, <2>5, <3>1
    <3>2. CASE i = Len(received) + 1 BY <1>1, <2>4, <2>5, <3>2
    <3> QED BY <1>1, <2>5, <3>1, <3>2
  <2>7. \A i \in 1..Len(mail'.msgs) : mail'.msgs[i].id = Len(received') + i
    <3> TAKE i \in 1..Len(mail'.msgs)
    <3>1. i + 1 \in 1..Len(mail.msgs) BY <1>1, <2>3
    <3>2. mail.msgs[i + 1].id = Len(received) + (i + 1) BY <1>2, <3>1
    <3>3. mail'.msgs[i] = mail.msgs[i + 1] BY <2>3
    <3>4. Len(received') + i = Len(received) + (i + 1) BY <1>1, <2>3, <2>5
    <3> QED BY <3>2, <3>3, <3>4
  <2>8. accepted' = Len(received') + Len(mail'.msgs) BY <1>1, <1>2, <2>1, <2>3, <2>5
  <2>9. Len(mail'.msgs) <= MailCap BY <1>1, <2>3, BoundsAssumption
  <2> QED BY <1>1, <2>1, <2>2, <2>3, <2>5, <2>6, <2>7, <2>8, <2>9 DEF MailInv, MailTypes, Numbered
<1>7. CASE UNCHANGED <<mail, receiver, accepted, received>>
  BY <1>1, <1>3, <1>7
<1>8. I!TalkerStep => UNCHANGED <<mail, receiver, accepted, received>>
  BY DEF I!TalkerStep, I!ListenerStep, I!StartListener, I!SetHandler, I!Suspend, I!Hear, I!Reply, I!EndListener,
         I!Listens, I!ClientStep, I!StartClient, I!Attach, I!Talk, I!Signal, I!Read, I!RemoveSegment, I!Steps,
         I!post
<1>9. UNCHANGED I!vars => UNCHANGED <<mail, receiver, accepted, received>> BY DEF I!vars, I!post
<1> QED BY <1>4, <1>5, <1>6, <1>7, <1>8, <1>9 DEF I!Next, I!PostStep

\* Whatever the capacity of the queue and the number of receivers: every message
\* that send_message reported as sent is received once, in order, or waits.
THEOREM MailIsNotLost == I!Spec => []I!MailIsKept
BY MailInit, MailStep, MailInvKeeps, PTL DEF I!Spec

-----------------------------------------------------------------------------
(* Listener and Client.  What joins them is the segment: the Client that was  *)
(* told of a Listener has got its segment, or another Client has removed it.  *)

TalkTypes ==
    /\ listener \in [Listeners -> I!ListenerPlaces]
    /\ client \in [Clients -> I!ClientPlaces]
    /\ segment \in I!Segments \cup {"none"}
    /\ shmid \in [Listeners \cup Clients -> I!Segments \cup {"none"}]
    /\ memory \in [I!Segments -> [I!Halves -> I!Texts]]
    /\ heard \in [Listeners -> [I!Halves -> I!Texts] \cup {I!Nothing}]
    /\ told \in [Clients -> [I!Halves -> I!Texts] \cup {I!Nothing}]
    /\ pid \in [Clients -> Listeners \cup {"nobody"}]
    /\ woke \subseteq Clients \X Listeners
    /\ since \in [Clients -> SUBSET (Listeners \cup Clients)] /\ late \subseteq Clients

Started(c) == client[c] \notin {"off", "crashed"}

\* A Client that is through has asked for the removal of s.
Gone(s) == \E d \in Clients : client[d] = "over" /\ shmid[d] = s

\* A Listener has a segment, and the key names no other unless that one is gone.
ListenerAt(l) ==
    listener[l] # "off" =>
        /\ shmid[l] \in I!Segments
        /\ segment = shmid[l] \/ Gone(shmid[l])

\* What a Client has written is there until a Listener writes.
ClientAt(c) ==
    /\ Started(c) => shmid[c] \in I!Segments
    /\ client[c] \notin I!NotYet =>
          memory[shmid[c]][1] = "talk" \/ since[c] \cap Listeners # {}
    /\ client[c] \notin I!NotYet \cup {"writing"} =>
          memory[shmid[c]][2] = "talk" \/ since[c] \cap Listeners # {}

Joined(c, l) ==
    /\ Started(c) /\ pid[c] = l =>
          listener[l] # "off" /\ (shmid[c] = shmid[l] \/ I!Apart(c, l))
    /\ l \in since[c] => listener[l] \in {"writing", "answered", "over"}

\* A Listener and the Client that woke it, when they share the segment: what is
\* heard and, half by half, the answer.
Heard(c, l) == heard[l] \in {I!Nothing, I!Whole("talk")} \/ since[c] \cap (Listeners \ {l}) # {}

AnswerAt(c, l, half) == memory[shmid[c]][half] = "reply" \/ since[c] \cap Clients # {}

Answered(c, l) ==
    /\ client[c] = "sleeping" /\ listener[l] \in {"writing", "answered", "over"} => AnswerAt(c, l, 1)
    /\ client[c] = "sleeping" /\ listener[l] \in {"answered", "over"} => AnswerAt(c, l, 2)
    /\ client[c] = "removing" =>
          told[c] = I!Whole("reply") \/ c \in late \/ since[c] \cap Clients # {}

WokenAt(c, l) ==
    /\ pid[c] = l /\ client[c] \in {"sleeping", "removing", "over"}
    /\ listener[l] \in {"woken", "heard", "writing", "answered", "over"}
    /\ shmid[c] = shmid[l] =>
          /\ Heard(c, l) /\ Answered(c, l)

TalkInv ==
    /\ TalkTypes
    /\ \A l \in Listeners :
          /\ ListenerAt(l)
          /\ listener[l] \in {"off", "begun", "deaf", "waiting", "woken"} => heard[l] = I!Nothing
    /\ \A c \in Clients : ClientAt(c)
    /\ \A c \in Clients, l \in Listeners : Joined(c, l) /\ (<<c, l>> \in woke => WokenAt(c, l))

\* Nobody runs, and at most one old segment is there.
LEMMA TalkInit == I!Init => TalkInv
<1> SUFFICES ASSUME I!Init PROVE TalkInv
  OBVIOUS
<1>1. /\ listener = [l \in Listeners |-> "off"] /\ client = [c \in Clients |-> "off"]
      /\ segment \in {"none", "old"} /\ heard = [l \in Listeners |-> I!Nothing]
      /\ told = [c \in Clients |-> I!Nothing] /\ pid = [c \in Clients |-> "nobody"]
      /\ woke = {} /\ since = [c \in Clients |-> {}] /\ late = {}
      /\ shmid = [p \in Listeners \cup Clients |-> "none"]
  BY DEF I!Init
<1>2. memory \in [I!Segments -> [I!Halves -> I!Texts]]
  <2>1. PICK t \in I!Texts :
           memory = [s \in I!Segments |-> I!Whole(IF s = segment THEN t ELSE "blank")]
    BY DEF I!Init
  <2>2. \A x \in I!Texts : I!Whole(x) \in [I!Halves -> I!Texts] BY DEF I!Whole
  <2>3. "blank" \in I!Texts BY DEF I!Texts
  <2> QED BY <2>1, <2>2, <2>3
<1>3. TalkTypes BY <1>1, <1>2 DEF TalkTypes, I!ListenerPlaces, I!ClientPlaces, I!Segments
<1> QED BY <1>1, <1>3 DEF TalkInv, ListenerAt, ClientAt, Joined, Started, I!NotYet

\* What a half of strcpy does.
LEMMA WritesHalf ==
    ASSUME TalkTypes, NEW p \in Listeners \cup Clients, shmid[p] \in I!Segments,
           NEW half \in I!Halves, NEW t \in I!Texts, I!Writes(p, half, t)
    PROVE  /\ memory' \in [I!Segments -> [I!Halves -> I!Texts]]
           /\ \A s \in I!Segments, h \in I!Halves :
                 memory'[s][h] = IF s = shmid[p] /\ h = half THEN t ELSE memory[s][h]
           /\ since' \in [Clients -> SUBSET (Listeners \cup Clients)]
           /\ \A c \in Clients :
                 since'[c] = IF c # p /\ client[c] \notin I!NotYet /\ shmid[c] = shmid[p]
                             THEN since[c] \cup {p} ELSE since[c]
<1>1. memory' = [memory EXCEPT ![shmid[p]] = [memory[shmid[p]] EXCEPT ![half] = t]]
  BY DEF I!Writes
<1>2. [memory[shmid[p]] EXCEPT ![half] = t] \in [I!Halves -> I!Texts]
  BY DEF TalkTypes
<1>3. \A h \in I!Halves : [memory[shmid[p]] EXCEPT ![half] = t][h]
                           = IF h = half THEN t ELSE memory[shmid[p]][h]
  BY DEF TalkTypes
<1>4. \A s \in I!Segments : memory'[s] = IF s = shmid[p]
                               THEN [memory[shmid[p]] EXCEPT ![half] = t] ELSE memory[s]
  BY <1>1 DEF TalkTypes
<1>5. memory' \in [I!Segments -> [I!Halves -> I!Texts]] BY <1>1, <1>2 DEF TalkTypes
<1>6. since' = [c \in Clients |-> IF c # p /\ client[c] \notin I!NotYet /\ shmid[c] = shmid[p]
                                  THEN since[c] \cup {p} ELSE since[c]]
  BY DEF I!Writes
<1>7. since' \in [Clients -> SUBSET (Listeners \cup Clients)] BY <1>6 DEF TalkTypes
<1> QED BY <1>3, <1>4, <1>5, <1>6, <1>7

\* Those whose segment another Client has removed stay apart.
LEMMA ApartStays ==
    ASSUME \A d \in Clients : client[d] = "over" => client'[d] = "over" /\ shmid'[d] = shmid[d],
           NEW c \in Clients, NEW l \in Listeners,
           shmid'[c] = shmid[c], shmid'[l] = shmid[l], I!Apart(c, l)
    PROVE  I!Apart(c, l)'
BY DEF I!Apart

\* Two texts are the same when both halves are.
LEMMA WholeIs ==
    ASSUME NEW t \in [I!Halves -> I!Texts], NEW x, t[1] = x, t[2] = x
    PROVE  t = I!Whole(x)
BY DEF I!Whole, I!Halves

\* Listener: it finds the segment of the key or makes it,
LEMMA ListenerStarts == ASSUME TalkInv, NEW l \in Listeners, I!StartListener(l) PROVE TalkInv'
<1>1. /\ listener[l] = "off" /\ listener' = [listener EXCEPT ![l] = "begun"]
      /\ segment' = IF segment = "none" THEN l ELSE segment
      /\ shmid' = [shmid EXCEPT ![l] = segment']
      /\ UNCHANGED <<client, memory, heard, told, pid, woke, since, late>>
  BY DEF I!StartListener, I!Listens
<1>2. TalkTypes BY DEF TalkInv
<1>3. segment' \in I!Segments /\ (segment = "none" \/ segment' = segment)
  BY <1>1, <1>2 DEF TalkTypes, I!Segments
<1>4. /\ shmid' \in [Listeners \cup Clients -> I!Segments \cup {"none"}]
      /\ shmid'[l] = segment'
      /\ \A p \in Listeners \cup Clients : p # l => shmid'[p] = shmid[p]
  BY <1>1, <1>2, <1>3 DEF TalkTypes
<1>5. \A c \in Clients : shmid'[c] = shmid[c] BY <1>4, ProcessesAssumption
<1>6. TalkTypes' BY <1>1, <1>2, <1>3, <1>4 DEF TalkTypes, I!ListenerPlaces
<1>7. /\ listener'[l] = "begun" /\ \A k \in Listeners : k # l => listener'[k] = listener[k]
  BY <1>1, <1>2 DEF TalkTypes
<1>8. "none" \notin I!Segments BY ProcessesAssumption DEF I!Segments
<1>9. ASSUME NEW k \in Listeners PROVE ListenerAt(k)'
  <2>1. ListenerAt(k) BY DEF TalkInv
  <2> QED BY <1>1, <1>3, <1>4, <1>5, <1>7, <1>8, <2>1 DEF ListenerAt, Gone
<1>10. ASSUME NEW c \in Clients PROVE ClientAt(c)'
  <2>1. ClientAt(c) BY DEF TalkInv
  <2> QED BY <1>1, <1>5, <2>1 DEF ClientAt, Started
<1>11. ASSUME NEW c \in Clients, NEW k \in Listeners
       PROVE Joined(c, k)' /\ (<<c, k>> \in woke' => WokenAt(c, k)')
  <2>1. Joined(c, k) /\ (<<c, k>> \in woke => WokenAt(c, k)) BY DEF TalkInv
  <2>2. CASE k = l
    <3>1. <<c, k>> \notin woke BY <1>1, <2>1, <2>2 DEF WokenAt
    <3>2. ~(Started(c) /\ pid[c] = k) /\ k \notin since[c] BY <1>1, <2>1, <2>2 DEF Joined
    <3> QED BY <1>1, <3>1, <3>2 DEF Joined, Started
  <2>3. CASE k # l
    <3>1. shmid'[c] = shmid[c] /\ shmid'[k] = shmid[k] /\ listener'[k] = listener[k]
      BY <1>4, <1>5, <1>7, <2>3
    <3>2. I!Apart(c, k) => I!Apart(c, k)' BY <1>1, <1>5, <3>1, ApartStays
    <3> QED BY <1>1, <2>1, <3>1, <3>2
            DEF Joined, Started, WokenAt, Heard, Answered, AnswerAt
  <2> QED BY <2>2, <2>3
<1>12. ASSUME NEW k \in Listeners,
              listener'[k] \in {"off", "begun", "deaf", "waiting", "woken"}
       PROVE  heard'[k] = I!Nothing
  BY <1>1, <1>7, <1>12 DEF TalkInv
<1> QED BY <1>6, <1>9, <1>10, <1>11, <1>12 DEF TalkInv

\* waits for the signal, and hears what is in its segment; another Client may have
\* removed it,
LEMMA ListenerGoesOn ==
    ASSUME TalkInv, NEW l \in Listeners,
           I!SetHandler(l) \/ I!Suspend(l) \/ I!Hear(l) \/ I!EndListener(l)
    PROVE  TalkInv'
<1>1. UNCHANGED <<client, segment, shmid, memory, told, pid, woke, since, late>>
  BY DEF I!SetHandler, I!Suspend, I!Hear, I!EndListener, I!Listens
<1>2. PICK to \in I!ListenerPlaces :
         /\ listener' = [listener EXCEPT ![l] = to]
         /\ \/ <<listener[l], to>> \in {<<"begun", "deaf">>, <<"deaf", "waiting">>, <<"answered", "over">>}
               /\ heard' = heard
            \/ listener[l] = "woken" /\ to = "heard" /\ heard' = [heard EXCEPT ![l] = memory[shmid[l]]]
            \/ listener[l] = "woken" /\ to = "over" /\ heard' = heard /\ ~I!Exists(shmid[l])
  BY DEF I!SetHandler, I!Suspend, I!Hear, I!EndListener, I!Listens, I!ListenerPlaces
<1>3. TalkTypes BY DEF TalkInv
<1>4. listener[l] # "off" /\ ListenerAt(l) BY <1>2 DEF TalkInv
<1>5. memory[shmid[l]] \in [I!Halves -> I!Texts] BY <1>3, <1>4 DEF TalkTypes, ListenerAt
<1>6. TalkTypes' BY <1>1, <1>2, <1>3, <1>5 DEF TalkTypes
<1>7. /\ listener'[l] = to /\ \A k \in Listeners : k # l => listener'[k] = listener[k] /\ heard'[k] = heard[k]
      /\ heard'[l] = IF to = "heard" THEN memory[shmid[l]] ELSE heard[l]
  BY <1>2, <1>3 DEF TalkTypes
<1>8. ASSUME NEW k \in Listeners PROVE ListenerAt(k)'
  <2>1. ListenerAt(k) BY DEF TalkInv
  <2> QED BY <1>1, <1>4, <1>7, <2>1 DEF ListenerAt, Gone
<1>9. ASSUME NEW c \in Clients PROVE ClientAt(c)'
  <2>1. ClientAt(c) BY DEF TalkInv
  <2> QED BY <1>1, <2>1 DEF ClientAt, Started
<1>10. ASSUME NEW c \in Clients, NEW k \in Listeners
       PROVE Joined(c, k)' /\ (<<c, k>> \in woke' => WokenAt(c, k)')
  <2>1. /\ Joined(c, k) /\ (<<c, k>> \in woke => WokenAt(c, k)) /\ ClientAt(c)
    BY DEF TalkInv
  <2>2. I!Apart(c, k) => I!Apart(c, k)' BY <1>1, ApartStays
  <2>3. CASE k # l
    BY <1>1, <1>7, <2>1, <2>2, <2>3 DEF Joined, Started, WokenAt, Heard, Answered, AnswerAt
  <2>4. CASE k = l
    <3>1. Joined(c, k)' BY <1>1, <1>2, <1>4, <1>7, <2>1, <2>2, <2>4 DEF Joined, Started
    <3>2. ASSUME <<c, k>> \in woke PROVE WokenAt(c, k)'
      <4>1. /\ WokenAt(c, k) /\ shmid'[c] = shmid[c] /\ shmid'[k] = shmid[k] BY <1>1, <2>1, <3>2
      <4>2. /\ pid'[c] = k /\ client'[c] \in {"sleeping", "removing", "over"}
            /\ listener'[k] \in {"woken", "heard", "writing", "answered", "over"}
        BY <1>1, <1>2, <1>7, <2>4, <4>1 DEF WokenAt
      <4>3. ASSUME shmid[c] = shmid[k] PROVE Heard(c, k)'
        <5>1. Heard(c, k) BY <4>1, <4>3 DEF WokenAt
        <5>2. CASE to # "heard" BY <1>1, <1>7, <2>4, <5>1, <5>2 DEF Heard
        <5>3. CASE to = "heard"
          <6>1. listener[l] = "woken" BY <1>2, <5>3
          <6>2. l \notin since[c] BY <2>1, <2>4, <6>1 DEF Joined
          <6>3. CASE since[c] \cap (Listeners \ {l}) # {} BY <1>1, <2>4, <6>3 DEF Heard
          <6>4. CASE since[c] \cap (Listeners \ {l}) = {}
            <7>1. since[c] \cap Listeners = {} BY <6>2, <6>4
            <7>2. client[c] \notin I!NotYet \cup {"writing"} BY <4>1 DEF WokenAt, I!NotYet
            <7>3. memory[shmid[l]][1] = "talk" /\ memory[shmid[l]][2] = "talk"
              BY <2>1, <2>4, <4>3, <7>1, <7>2 DEF ClientAt
            <7>4. memory[shmid[l]] = I!Whole("talk") BY <1>5, <7>3, WholeIs
            <7> QED BY <1>7, <2>4, <5>3, <7>4 DEF Heard
          <6> QED BY <6>3, <6>4
        <5> QED BY <5>2, <5>3
      <4>4. ASSUME shmid[c] = shmid[k] PROVE Answered(c, k)'
        <5>1. Answered(c, k) BY <4>1, <4>4 DEF WokenAt
        <5>2. client[c] = "sleeping" => I!Exists(shmid[l]) BY <2>4, <4>4 DEF I!Exists
        <5> QED BY <1>1, <1>2, <1>7, <2>4, <5>1, <5>2 DEF Answered, AnswerAt
      <4> QED BY <4>1, <4>2, <4>3, <4>4 DEF WokenAt
    <3> QED BY <1>1, <3>1, <3>2
  <2> QED BY <2>3, <2>4
<1>11. ASSUME NEW k \in Listeners,
              listener'[k] \in {"off", "begun", "deaf", "waiting", "woken"}
       PROVE  heard'[k] = I!Nothing
  BY <1>2, <1>7, <1>11 DEF TalkInv
<1> QED BY <1>6, <1>8, <1>9, <1>10, <1>11 DEF TalkInv

\* and answers there, one half after the other.
LEMMA ListenerAnswers == ASSUME TalkInv, NEW l \in Listeners, I!Reply(l) PROVE TalkInv'
<1>1. PICK half \in I!Halves, to \in {"writing", "answered"} :
         /\ <<listener[l], half, to>> \in {<<"heard", 1, "writing">>, <<"writing", 2, "answered">>}
         /\ listener' = [listener EXCEPT ![l] = to]
         /\ I!Writes(l, half, "reply")
         /\ UNCHANGED <<client, segment, shmid, heard, told, pid, woke, late>>
  BY DEF I!Reply, I!Listens, I!Halves
<1>2. TalkTypes /\ ListenerAt(l) BY DEF TalkInv
<1>3. shmid[l] \in I!Segments BY <1>1, <1>2 DEF ListenerAt
<1>4. /\ memory' \in [I!Segments -> [I!Halves -> I!Texts]]
      /\ \A s \in I!Segments, h \in I!Halves :
            memory'[s][h] = IF s = shmid[l] /\ h = half THEN "reply" ELSE memory[s][h]
      /\ since' \in [Clients -> SUBSET (Listeners \cup Clients)]
      /\ \A c \in Clients :
            since'[c] = IF client[c] \notin I!NotYet /\ shmid[c] = shmid[l]
                        THEN since[c] \cup {l} ELSE since[c]
  <2>1. "reply" \in I!Texts BY DEF I!Texts
  <2>2. \A c \in Clients : c # l BY ProcessesAssumption
  <2>3. l \in Listeners \cup Clients OBVIOUS
  <2>4. /\ memory' \in [I!Segments -> [I!Halves -> I!Texts]]
        /\ \A s \in I!Segments, h \in I!Halves :
              memory'[s][h] = IF s = shmid[l] /\ h = half THEN "reply" ELSE memory[s][h]
        /\ since' \in [Clients -> SUBSET (Listeners \cup Clients)]
        /\ \A c \in Clients :
              since'[c] = IF c # l /\ client[c] \notin I!NotYet /\ shmid[c] = shmid[l]
                          THEN since[c] \cup {l} ELSE since[c]
    BY <1>1, <1>2, <1>3, <2>1, <2>3, WritesHalf
  <2> QED BY <2>2, <2>4
<1>5. TalkTypes' BY <1>1, <1>2, <1>4 DEF TalkTypes, I!ListenerPlaces
<1>6. /\ listener'[l] = to /\ \A k \in Listeners : k # l => listener'[k] = listener[k]
  BY <1>1, <1>2 DEF TalkTypes
<1>7. ASSUME NEW k \in Listeners PROVE ListenerAt(k)'
  <2>1. ListenerAt(k) BY DEF TalkInv
  <2> QED BY <1>1, <1>6, <2>1 DEF ListenerAt, Gone
<1>8. ASSUME NEW c \in Clients PROVE ClientAt(c)'
  <2>1. ClientAt(c) BY DEF TalkInv
  <2>2. CASE client[c] \in I!NotYet BY <1>1, <2>1, <2>2 DEF ClientAt, Started
  <2>3. CASE client[c] \notin I!NotYet
    <3>1. shmid[c] \in I!Segments BY <2>1, <2>3 DEF ClientAt, Started, I!NotYet
    <3>2. CASE shmid[c] = shmid[l]
      <4>1. since'[c] \cap Listeners # {} BY <1>4, <2>3, <3>2
      <4> QED BY <1>1, <2>1, <4>1 DEF ClientAt, Started
    <3>3. CASE shmid[c] # shmid[l]
      <4>1. \A h \in I!Halves : memory'[shmid[c]][h] = memory[shmid[c]][h] BY <1>4, <3>1, <3>3
      <4> QED BY <1>1, <1>4, <2>1, <3>3, <4>1 DEF ClientAt, Started, I!Halves
    <3> QED BY <3>2, <3>3
  <2> QED BY <2>2, <2>3
<1>9. ASSUME NEW c \in Clients, NEW k \in Listeners
       PROVE Joined(c, k)' /\ (<<c, k>> \in woke' => WokenAt(c, k)')
  <2>1. Joined(c, k) /\ (<<c, k>> \in woke => WokenAt(c, k)) /\ ClientAt(c) BY DEF TalkInv
  <2>2. I!Apart(c, k) => I!Apart(c, k)' BY <1>1, ApartStays
  <2>3. \A x \in since'[c] : x \in since[c] \/ x = l BY <1>4
  <2>4. Joined(c, k)' BY <1>1, <1>6, <2>1, <2>2, <2>3 DEF Joined, Started
  <2>5. ASSUME <<c, k>> \in woke PROVE WokenAt(c, k)'
    <3>1. WokenAt(c, k) /\ shmid'[c] = shmid[c] /\ shmid'[k] = shmid[k] BY <1>1, <2>1, <2>5
    <3>2. /\ pid'[c] = k /\ client'[c] \in {"sleeping", "removing", "over"}
          /\ listener'[k] \in {"woken", "heard", "writing", "answered", "over"}
      BY <1>1, <1>6, <3>1 DEF WokenAt
    <3>3. since[c] \subseteq since'[c] BY <1>4
    <3>4. shmid[c] \in I!Segments BY <2>1, <3>1 DEF WokenAt, ClientAt, Started
    <3>5. \A h \in I!Halves : memory[shmid[c]][h] = "reply" => memory'[shmid[c]][h] = "reply"
      BY <1>4, <3>4
    <3>6. ASSUME shmid[c] = shmid[k] PROVE Heard(c, k)' /\ Answered(c, k)'
      <4>1. Heard(c, k) /\ Answered(c, k) BY <3>1, <3>6 DEF WokenAt
      <4>2. Heard(c, k)' BY <1>1, <3>3, <4>1 DEF Heard
      <4>3. \A h \in I!Halves : AnswerAt(c, k, h) => AnswerAt(c, k, h)'
        BY <1>1, <3>3, <3>5 DEF AnswerAt
      <4>4. 1 \in I!Halves /\ 2 \in I!Halves BY DEF I!Halves
      <4>5. k = l => memory'[shmid[c]][half] = "reply" BY <1>4, <3>4, <3>6
      <4>6. k = l => AnswerAt(c, k, half)' BY <1>1, <4>5 DEF AnswerAt
      <4>7. Answered(c, k)'
        <5>1. CASE k # l
          <6>1. listener'[k] = listener[k] BY <1>6, <5>1
          <6> QED BY <1>1, <3>3, <4>1, <4>3, <4>4, <6>1 DEF Answered
        <5>2. CASE k = l
          BY <1>1, <1>6, <3>3, <4>1, <4>3, <4>4, <4>6, <5>2 DEF Answered
        <5> QED BY <5>1, <5>2
      <4> QED BY <4>2, <4>7
    <3> QED BY <3>1, <3>2, <3>6 DEF WokenAt
  <2> QED BY <1>1, <2>4, <2>5
<1>10. ASSUME NEW k \in Listeners,
              listener'[k] \in {"off", "begun", "deaf", "waiting", "woken"}
       PROVE  heard'[k] = I!Nothing
  BY <1>1, <1>6, <1>10 DEF TalkInv
<1> QED BY <1>5, <1>7, <1>8, <1>9, <1>10 DEF TalkInv

\* Client: it finds the segment of the key, which is that of the Listener it was
\* told of, unless another Client has removed that one,
LEMMA ClientStarts ==
    ASSUME TalkInv, NEW c \in Clients, I!StartClient(c) \/ I!Attach(c)
    PROVE  TalkInv'
<1>1. /\ client[c] \in {"off", "found"}
      /\ UNCHANGED <<listener, segment, memory, heard, told, woke, since, late>>
  BY DEF I!StartClient, I!Attach, I!Steps
<1>2. PICK to \in {"found", "attached", "crashed"} : client' = [client EXCEPT ![c] = to]
  BY DEF I!StartClient, I!Attach, I!Steps
<1>3. TalkTypes /\ \A d \in Clients : ClientAt(d) BY DEF TalkInv
<1>4. \/ client[c] = "found" /\ UNCHANGED <<shmid, pid>>
      \/ /\ client[c] = "off" /\ shmid' = [shmid EXCEPT ![c] = segment]
         /\ segment = "none" => client' = [client EXCEPT ![c] = "crashed"]
         /\ \E p \in Listeners \cup {"nobody"} :
               pid' = [pid EXCEPT ![c] = p] /\ (p # "nobody" => listener[p] # "off")
  <2>1. CASE I!Attach(c) BY <2>1 DEF I!Attach, I!Steps
  <2>2. CASE I!StartClient(c)
    <3> DEFINE running == {l \in Listeners : listener[l] \notin {"off", "over"}}
    <3>1. PICK p \in IF running = {} THEN {"nobody"} ELSE running : pid' = [pid EXCEPT ![c] = p]
      BY <2>2 DEF I!StartClient
    <3>2. p \in Listeners \cup {"nobody"} /\ (p # "nobody" => listener[p] # "off") BY <3>1
    <3>3. /\ client[c] = "off" /\ shmid' = [shmid EXCEPT ![c] = segment]
          /\ client' = [client EXCEPT ![c] = IF segment = "none" THEN "crashed" ELSE "found"]
      BY <2>2 DEF I!StartClient, I!Steps
    <3> QED BY <3>1, <3>2, <3>3
  <2> QED BY <2>1, <2>2
<1>5. TalkTypes' BY <1>1, <1>2, <1>3, <1>4 DEF TalkTypes, I!ClientPlaces
<1>6. /\ client'[c] = to /\ \A d \in Clients : d # c => client'[d] = client[d]
      /\ \A p \in Listeners \cup Clients : p # c => shmid'[p] = shmid[p]
      /\ \A d \in Clients : d # c => pid'[d] = pid[d]
      /\ \A d \in Clients : client[d] = "over" => client'[d] = "over" /\ shmid'[d] = shmid[d]
      /\ \A l \in Listeners : shmid'[l] = shmid[l]
  BY <1>1, <1>2, <1>3, <1>4, ProcessesAssumption DEF TalkTypes
<1>7. ASSUME NEW l \in Listeners PROVE ListenerAt(l)'
  <2>1. ListenerAt(l) BY DEF TalkInv
  <2>2. Gone(shmid[l]) => Gone(shmid[l])' BY <1>6 DEF Gone
  <2> QED BY <1>1, <1>6, <2>1, <2>2 DEF ListenerAt
<1>8. ASSUME NEW d \in Clients PROVE ClientAt(d)'
  <2>1. CASE d # c BY <1>1, <1>3, <1>6, <2>1 DEF ClientAt, Started
  <2>2. CASE d = c
    <3>1. client'[d] \in I!NotYet BY <1>6, <2>2 DEF I!NotYet
    <3>2. Started(d)' => shmid'[d] \in I!Segments
      <4>1. CASE client[c] = "found" BY <1>3, <1>4, <2>2, <4>1 DEF ClientAt, Started
      <4>2. CASE client[c] = "off"
        <5>1. /\ shmid' = [shmid EXCEPT ![c] = segment]
              /\ segment = "none" => client' = [client EXCEPT ![c] = "crashed"]
          BY <1>4, <4>2
        <5>2. shmid'[c] = segment BY <1>3, <5>1 DEF TalkTypes
        <5>3. segment = "none" => client'[c] = "crashed" BY <1>3, <5>1 DEF TalkTypes
        <5> QED BY <1>3, <2>2, <5>2, <5>3 DEF TalkTypes, Started
      <4> QED BY <1>1, <4>1, <4>2
    <3> QED BY <3>1, <3>2 DEF ClientAt
  <2> QED BY <2>1, <2>2
<1>9. ASSUME NEW d \in Clients, NEW l \in Listeners
      PROVE Joined(d, l)' /\ (<<d, l>> \in woke' => WokenAt(d, l)')
  <2>1. Joined(d, l) /\ (<<d, l>> \in woke => WokenAt(d, l)) /\ ListenerAt(l) BY DEF TalkInv
  <2>2. shmid'[d] = shmid[d] => (I!Apart(d, l) => I!Apart(d, l)') BY <1>6, ApartStays
  <2>3. CASE d # c
    BY <1>1, <1>6, <2>1, <2>2, <2>3 DEF Joined, Started, WokenAt, Heard, Answered, AnswerAt
  <2>4. CASE d = c
    <3>1. <<d, l>> \notin woke BY <1>1, <2>1, <2>4 DEF WokenAt
    <3>2. Joined(d, l)'
      <4>1. CASE client[c] = "found" BY <1>1, <1>4, <2>1, <2>2, <2>4, <4>1 DEF Joined, Started
      <4>2. CASE client[c] = "off"
        <5>1. PICK p \in Listeners \cup {"nobody"} :
                 pid' = [pid EXCEPT ![c] = p] /\ (p # "nobody" => listener[p] # "off")
          BY <1>4, <4>2
        <5>2. pid'[c] = p /\ shmid'[c] = segment BY <1>3, <1>4, <4>2, <5>1 DEF TalkTypes
        <5>3. ASSUME p = l PROVE listener[l] # "off" /\ (shmid'[c] = shmid'[l] \/ I!Apart(c, l)')
          <6>1. listener[l] # "off" BY <5>1, <5>3, ProcessesAssumption
          <6>2. segment = shmid[l] \/ Gone(shmid[l]) BY <2>1, <6>1 DEF ListenerAt
          <6>3. CASE segment = shmid[l] BY <1>6, <5>2, <6>1, <6>3
          <6>4. CASE Gone(shmid[l])
            <7>1. PICK e \in Clients : client[e] = "over" /\ shmid[e] = shmid[l] BY <6>4 DEF Gone
            <7>2. e # c /\ client'[e] = "over" /\ shmid'[e] = shmid'[l] BY <1>6, <4>2, <7>1
            <7> QED BY <6>1, <7>2 DEF I!Apart
          <6> QED BY <6>2, <6>3, <6>4
        <5> QED BY <1>1, <2>1, <2>4, <5>2, <5>3 DEF Joined
      <4> QED BY <1>1, <4>1, <4>2
    <3> QED BY <1>1, <3>1, <3>2
  <2> QED BY <2>3, <2>4
<1> QED BY <1>1, <1>5, <1>7, <1>8, <1>9 DEF TalkInv

\* writes there, one half after the other,
LEMMA ClientTalks == ASSUME TalkInv, NEW c \in Clients, I!Talk(c) PROVE TalkInv'
<1>1. PICK half \in I!Halves, to \in {"writing", "written"} :
         /\ <<client[c], half, to>> \in {<<"attached", 1, "writing">>, <<"writing", 2, "written">>}
         /\ client' = [client EXCEPT ![c] = to]
         /\ I!Writes(c, half, "talk")
         /\ UNCHANGED <<listener, segment, shmid, heard, told, pid, woke, late>>
  BY DEF I!Talk, I!Steps, I!Halves
<1>2. TalkTypes /\ \A d \in Clients : ClientAt(d) BY DEF TalkInv
<1>3. shmid[c] \in I!Segments BY <1>1, <1>2 DEF ClientAt, Started
<1>4. /\ memory' \in [I!Segments -> [I!Halves -> I!Texts]]
      /\ \A s \in I!Segments, h \in I!Halves :
            memory'[s][h] = IF s = shmid[c] /\ h = half THEN "talk" ELSE memory[s][h]
      /\ since' \in [Clients -> SUBSET (Listeners \cup Clients)]
      /\ \A d \in Clients :
            since'[d] = IF d # c /\ client[d] \notin I!NotYet /\ shmid[d] = shmid[c]
                        THEN since[d] \cup {c} ELSE since[d]
  <2>1. "talk" \in I!Texts BY DEF I!Texts
  <2> QED BY <1>1, <1>2, <1>3, <2>1, WritesHalf
<1>5. TalkTypes' BY <1>1, <1>2, <1>4 DEF TalkTypes, I!ClientPlaces
<1>6. client'[c] = to /\ \A d \in Clients : d # c => client'[d] = client[d]
  BY <1>1, <1>2 DEF TalkTypes
<1>7. \A d \in Clients : client[d] = "over" => client'[d] = "over" /\ shmid'[d] = shmid[d]
  BY <1>1, <1>6
<1>8. ASSUME NEW l \in Listeners PROVE ListenerAt(l)'
  <2>1. ListenerAt(l) BY DEF TalkInv
  <2> QED BY <1>1, <1>7, <2>1 DEF ListenerAt, Gone
<1>9. ASSUME NEW d \in Clients PROVE ClientAt(d)'
  <2>1. ClientAt(d) BY <1>2
  <2>2. shmid'[d] = shmid[d] /\ since[d] \subseteq since'[d] BY <1>1, <1>4
  <2>3. Started(d) => \A h \in I!Halves :
           \/ memory'[shmid[d]][h] = memory[shmid[d]][h]
           \/ memory'[shmid[d]][h] = "talk"
    BY <1>4, <2>1 DEF ClientAt
  <2>4. CASE d # c
    BY <1>6, <2>1, <2>2, <2>3, <2>4 DEF ClientAt, Started, I!NotYet, I!Halves
  <2>5. CASE d = c
    <3>1. memory'[shmid[c]][half] = "talk" BY <1>3, <1>4
    <3> QED BY <1>1, <1>3, <1>6, <2>1, <2>2, <2>3, <2>5, <3>1
            DEF ClientAt, Started, I!NotYet, I!Halves
  <2> QED BY <2>4, <2>5
<1>10. ASSUME NEW d \in Clients, NEW l \in Listeners
       PROVE Joined(d, l)' /\ (<<d, l>> \in woke' => WokenAt(d, l)')
  <2>1. Joined(d, l) /\ (<<d, l>> \in woke => WokenAt(d, l)) /\ ClientAt(d) BY DEF TalkInv
  <2>2. I!Apart(d, l) => I!Apart(d, l)' BY <1>1, <1>7, ApartStays
  <2>3. since[d] \subseteq since'[d] /\ (l \in since'[d] => l \in since[d])
    BY <1>4, ProcessesAssumption
  <2>4. Started(d)' => Started(d) BY <1>1, <1>6 DEF Started
  <2>5. Joined(d, l)' BY <1>1, <2>1, <2>2, <2>3, <2>4 DEF Joined
  <2>6. ASSUME <<d, l>> \in woke PROVE WokenAt(d, l)'
    <3>1. WokenAt(d, l) BY <2>1, <2>6
    <3>2. d # c /\ client'[d] = client[d] /\ client[d] \notin I!NotYet /\ shmid[d] \in I!Segments
      BY <1>1, <1>6, <2>1, <3>1 DEF WokenAt, ClientAt, Started, I!NotYet
    <3>3. Heard(d, l) => Heard(d, l)' BY <1>1, <2>3 DEF Heard
    <3>4. \A h \in I!Halves : AnswerAt(d, l, h) => AnswerAt(d, l, h)'
      <4>1. CASE shmid[d] = shmid[c]
        <5>1. since'[d] \cap Clients # {} BY <1>4, <3>2, <4>1
        <5> QED BY <5>1 DEF AnswerAt
      <4>2. CASE shmid[d] # shmid[c]
        <5>1. \A h \in I!Halves : memory'[shmid[d]][h] = memory[shmid[d]][h] BY <1>4, <3>2, <4>2
        <5> QED BY <1>1, <2>3, <5>1 DEF AnswerAt
      <4> QED BY <4>1, <4>2
    <3>5. 1 \in I!Halves /\ 2 \in I!Halves BY DEF I!Halves
    <3>6. Answered(d, l) => Answered(d, l)' BY <1>1, <2>3, <3>2, <3>4, <3>5 DEF Answered
    <3> QED BY <1>1, <3>1, <3>2, <3>3, <3>6 DEF WokenAt
  <2> QED BY <1>1, <2>5, <2>6
<1> QED BY <1>1, <1>5, <1>8, <1>9, <1>10 DEF TalkInv

\* signals, whether the Listener waits or not,
LEMMA ClientSignals == ASSUME TalkInv, NEW c \in Clients, I!Signal(c) PROVE TalkInv'
<1>1. /\ client[c] = "written" /\ client' = [client EXCEPT ![c] = "sleeping"]
      /\ listener' = [l \in Listeners |->
                       CASE l = pid[c] /\ listener[l] \in {"begun", "answered"} -> "over"
                         [] l = pid[c] /\ listener[l] = "waiting" -> "woken"
                         [] OTHER -> listener[l]]
      /\ woke' = woke \cup {<<c, l>> : l \in {l \in Listeners : l = pid[c] /\ listener[l] = "waiting"}}
      /\ UNCHANGED <<segment, shmid, memory, heard, told, pid, since, late>>
  BY DEF I!Signal, I!Steps
<1>2. TalkTypes /\ \A d \in Clients : ClientAt(d) BY DEF TalkInv
<1>3. \A l \in Listeners :
         \/ listener'[l] = listener[l]
         \/ listener[l] \in {"begun", "answered"} /\ listener'[l] = "over"
         \/ l = pid[c] /\ listener[l] = "waiting" /\ listener'[l] = "woken"
  BY <1>1
<1>4. \A d \in Clients, l \in Listeners :
         <<d, l>> \in woke' => \/ <<d, l>> \in woke
                               \/ d = c /\ l = pid[c] /\ listener[l] = "waiting"
  BY <1>1
<1>5. client'[c] = "sleeping" /\ \A d \in Clients : d # c => client'[d] = client[d]
  BY <1>1, <1>2 DEF TalkTypes
<1>6. TalkTypes'
  <2>1. listener' \in [Listeners -> I!ListenerPlaces]
    <3>1. \A l \in Listeners : listener'[l] \in I!ListenerPlaces
      BY <1>2, <1>3 DEF TalkTypes, I!ListenerPlaces
    <3> QED BY <1>1, <3>1
  <2>2. woke' \subseteq Clients \X Listeners BY <1>1, <1>2 DEF TalkTypes
  <2> QED BY <1>1, <1>2, <2>1, <2>2 DEF TalkTypes, I!ClientPlaces
<1>7. \A d \in Clients : client[d] = "over" => client'[d] = "over" /\ shmid'[d] = shmid[d]
  BY <1>1, <1>5
<1>8. ASSUME NEW l \in Listeners PROVE ListenerAt(l)'
  <2>1. ListenerAt(l) BY DEF TalkInv
  <2>2. listener'[l] # "off" => listener[l] # "off" BY <1>3
  <2> QED BY <1>1, <1>7, <2>1, <2>2 DEF ListenerAt, Gone
<1>9. ASSUME NEW d \in Clients PROVE ClientAt(d)'
  BY <1>1, <1>2, <1>5 DEF ClientAt, Started, I!NotYet
<1>10. ASSUME NEW d \in Clients, NEW l \in Listeners
       PROVE Joined(d, l)' /\ (<<d, l>> \in woke' => WokenAt(d, l)')
  <2>1. Joined(d, l) /\ (<<d, l>> \in woke => WokenAt(d, l)) /\ ClientAt(d) BY DEF TalkInv
  <2>2. I!Apart(d, l) => I!Apart(d, l)' BY <1>1, <1>7, ApartStays
  <2>3. Joined(d, l)' BY <1>1, <1>3, <1>5, <2>1, <2>2 DEF Joined, Started
  <2>4. CASE <<d, l>> \in woke
    <3>1. WokenAt(d, l) /\ d # c /\ client'[d] = client[d]
      BY <1>1, <1>5, <2>1, <2>4 DEF WokenAt
    <3>2. \/ listener'[l] = listener[l]
          \/ listener[l] = "answered" /\ listener'[l] = "over"
      BY <1>3, <3>1 DEF WokenAt
    <3> QED BY <1>1, <2>3, <3>1, <3>2 DEF WokenAt, Heard, Answered, AnswerAt
  <2>5. CASE d = c /\ l = pid[c] /\ listener[l] = "waiting"
    <3>1. listener'[l] = "woken" BY <1>1, <2>5
    <3>2. heard'[l] = I!Nothing BY <1>1, <2>5 DEF TalkInv
    <3> QED BY <1>1, <1>5, <2>3, <2>5, <3>1, <3>2 DEF WokenAt, Heard, Answered
  <2> QED BY <1>4, <2>3, <2>4, <2>5
<1>11. ASSUME NEW l \in Listeners,
              listener'[l] \in {"off", "begun", "deaf", "waiting", "woken"}
       PROVE  heard'[l] = I!Nothing
  <2>1. listener[l] \in {"off", "begun", "deaf", "waiting", "woken"} BY <1>3, <1>11
  <2> QED BY <1>1, <2>1 DEF TalkInv
<1> QED BY <1>6, <1>8, <1>9, <1>10, <1>11 DEF TalkInv

\* and two seconds later reads and removes the segment.
LEMMA ClientEnds ==
    ASSUME TalkInv, NEW c \in Clients, I!Read(c) \/ I!RemoveSegment(c)
    PROVE  TalkInv'
<1>1. UNCHANGED <<listener, shmid, memory, heard, pid, woke, since>>
  BY DEF I!Read, I!RemoveSegment
<1>2. \/ /\ client[c] = "sleeping" /\ client' = [client EXCEPT ![c] = "removing"]
         /\ told' = [told EXCEPT ![c] = memory[shmid[c]]] /\ segment' = segment
         /\ late' \in {late, late \cup {c}}
         /\ \/ c \in late'
            \/ ~(pid[c] \in Listeners /\ listener[pid[c]] \in {"woken", "heard", "writing"})
      \/ /\ client[c] = "removing" /\ client' = [client EXCEPT ![c] = "over"]
         /\ UNCHANGED <<told, late>>
         /\ segment' = IF segment = shmid[c] THEN "none" ELSE segment
  BY DEF I!Read, I!RemoveSegment, I!Steps
<1>3. TalkTypes /\ \A d \in Clients : ClientAt(d) BY DEF TalkInv
<1>4. shmid[c] \in I!Segments BY <1>2, <1>3 DEF ClientAt, Started
<1>5. memory[shmid[c]] \in [I!Halves -> I!Texts] BY <1>3, <1>4 DEF TalkTypes
<1>6. TalkTypes'
  <2>1. client' \in [Clients -> I!ClientPlaces] BY <1>2, <1>3 DEF TalkTypes, I!ClientPlaces
  <2>2. segment' \in I!Segments \cup {"none"} BY <1>2, <1>3 DEF TalkTypes
  <2>3. told' \in [Clients -> [I!Halves -> I!Texts] \cup {I!Nothing}]
    BY <1>2, <1>3, <1>5 DEF TalkTypes
  <2>4. late' \subseteq Clients BY <1>2, <1>3 DEF TalkTypes
  <2> QED BY <1>1, <1>3, <2>1, <2>2, <2>3, <2>4 DEF TalkTypes
<1>7. /\ \A d \in Clients : d # c => client'[d] = client[d] /\ told'[d] = told[d]
      /\ \A d \in late : d \in late'
      /\ client'[c] = IF client[c] = "sleeping" THEN "removing" ELSE "over"
      /\ client[c] = "sleeping" => told'[c] = memory[shmid[c]]
      /\ client[c] # "sleeping" => told' = told
  BY <1>2, <1>3 DEF TalkTypes
<1>8. \A d \in Clients : client[d] = "over" => client'[d] = "over" /\ shmid'[d] = shmid[d]
  BY <1>1, <1>2, <1>7
<1>9. ASSUME NEW l \in Listeners PROVE ListenerAt(l)'
  <2>1. ListenerAt(l) BY DEF TalkInv
  <2>2. Gone(shmid[l]) => Gone(shmid[l])' BY <1>1, <1>8 DEF Gone
  <2>3. segment' = segment \/ (segment = shmid[c] /\ client'[c] = "over") BY <1>2, <1>7
  <2>4. segment = shmid[l] => segment' = shmid[l] \/ Gone(shmid[l])' BY <1>1, <2>3 DEF Gone
  <2> QED BY <1>1, <2>1, <2>2, <2>4 DEF ListenerAt
<1>10. ASSUME NEW d \in Clients PROVE ClientAt(d)'
  <2>1. ClientAt(d) BY <1>3
  <2> QED BY <1>1, <1>2, <1>7, <2>1 DEF ClientAt, Started, I!NotYet
<1>11. ASSUME NEW d \in Clients, NEW l \in Listeners
       PROVE Joined(d, l)' /\ (<<d, l>> \in woke' => WokenAt(d, l)')
  <2>1. Joined(d, l) /\ (<<d, l>> \in woke => WokenAt(d, l)) BY DEF TalkInv
  <2>2. I!Apart(d, l) => I!Apart(d, l)' BY <1>1, <1>8, ApartStays
  <2>3. Joined(d, l)' BY <1>1, <1>2, <1>7, <2>1, <2>2 DEF Joined, Started
  <2>4. ASSUME <<d, l>> \in woke PROVE WokenAt(d, l)'
    <3>1. WokenAt(d, l) BY <2>1, <2>4
    <3>2. CASE d # c BY <1>1, <1>7, <3>1, <3>2 DEF WokenAt, Heard, Answered, AnswerAt
    <3>3. CASE d = c
      <4>1. /\ pid'[c] = l /\ client'[c] \in {"sleeping", "removing", "over"}
            /\ listener'[l] \in {"woken", "heard", "writing", "answered", "over"}
            /\ Heard(c, l) => Heard(c, l)'
        BY <1>1, <1>7, <3>1, <3>3 DEF WokenAt, Heard
      <4>2. ASSUME shmid[c] = shmid[l] PROVE Answered(c, l)'
        <5>1. Answered(c, l) BY <3>1, <3>3, <4>2 DEF WokenAt
        <5>2. CASE client[c] # "sleeping" BY <1>7, <5>2 DEF Answered
        <5>3. CASE client[c] = "sleeping" /\ c \in late' BY <1>7, <5>3 DEF Answered
        <5>4. CASE client[c] = "sleeping" /\ c \notin late'
          <6>1. listener[l] \in {"answered", "over"} BY <1>2, <3>1, <3>3, <5>4 DEF WokenAt
          <6>2. AnswerAt(c, l, 1) /\ AnswerAt(c, l, 2) BY <5>1, <5>4, <6>1 DEF Answered
          <6>3. memory[shmid[c]] = I!Whole("reply") \/ since[c] \cap Clients # {}
            BY <1>5, <6>2, WholeIs DEF AnswerAt
          <6> QED BY <1>1, <1>7, <5>4, <6>3 DEF Answered
        <5> QED BY <5>2, <5>3, <5>4
      <4> QED BY <1>1, <3>1, <3>3, <4>1, <4>2 DEF WokenAt
    <3> QED BY <3>2, <3>3
  <2> QED BY <1>1, <2>3, <2>4
<1> QED BY <1>1, <1>6, <1>9, <1>10, <1>11 DEF TalkInv

\* The mail is no concern of theirs.
LEMMA TalkStep == TalkInv /\ [I!Next]_I!vars => TalkInv'
<1> SUFFICES ASSUME TalkInv, [I!Next]_I!vars PROVE TalkInv'
  OBVIOUS
<1>1. CASE UNCHANGED I!talk
  BY <1>1 DEF I!talk, TalkInv, TalkTypes, ListenerAt, ClientAt, Joined, Started, Gone,
              WokenAt, Heard, Answered, AnswerAt, I!Apart
<1>2. I!PostStep => UNCHANGED I!talk
  BY DEF I!PostStep, I!SendMessage, I!StartReceiver, I!Receive
<1>3. ASSUME NEW l \in Listeners, I!ListenerStep(l) PROVE TalkInv'
  BY <1>3, ListenerStarts, ListenerGoesOn, ListenerAnswers DEF I!ListenerStep
<1>4. ASSUME NEW c \in Clients, I!ClientStep(c) PROVE TalkInv'
  BY <1>4, ClientStarts, ClientTalks, ClientSignals, ClientEnds DEF I!ClientStep
<1> QED BY <1>1, <1>2, <1>3, <1>4 DEF I!Next, I!TalkerStep, I!vars

\* Any number of Clients and of Listeners, in any order and all at the same time:
\* a Listener prints what Clients wrote, and a Client whose signal woke it reads the
\* answer, unless another process has written there in between, the two seconds
\* were over, or a Client has removed the segment before.
THEOREM TalkersUnderstand == I!Spec => []I!TalkIsAnswered
<1>1. ASSUME TalkInv PROVE I!TalkIsAnswered
  <2> SUFFICES ASSUME NEW c \in Clients, NEW l \in Listeners, <<c, l>> \in woke, ~I!Apart(c, l)
               PROVE  /\ \/ heard[l] \in {I!Nothing, I!Whole("talk")}
                         \/ since[c] \cap (Listeners \ {l}) # {}
                      /\ client[c] = "removing" =>
                            \/ told[c] = I!Whole("reply")
                            \/ c \in late \/ since[c] \cap Clients # {}
    BY DEF I!TalkIsAnswered
  <2>1. Joined(c, l) /\ WokenAt(c, l) BY <1>1 DEF TalkInv
  <2>2. shmid[c] = shmid[l] BY <2>1 DEF Joined, WokenAt, Started
  <2> QED BY <2>1, <2>2 DEF WokenAt, Heard, Answered
<1> QED BY TalkInit, TalkStep, <1>1, PTL DEF I!Spec

-----------------------------------------------------------------------------
(* Whichever program the user picks.                                         *)

\* A step of the machine is a step of one program, and none of the others.
LEMMA PickedParts == PickedSpec => Spec /\ I!Spec /\ T!Spec
<1>1. PickedInit => Init /\ I!Init /\ T!Init BY DEF PickedInit
<1>2. /\ UNCHANGED talks => UNCHANGED I!vars
      /\ UNCHANGED visits => UNCHANGED T!vars
  BY DEF talks, visits, I!vars, I!talk, I!post, T!vars
<1>3. [PickedNext]_<<program, vars, talks, visits>> =>
         [Next]_vars /\ [I!Next]_I!vars /\ [T!Next]_T!vars
  BY <1>2 DEF PickedNext, I!Next
<1> QED BY <1>1, <1>3, PTL DEF PickedSpec, Spec, I!Spec, T!Spec

\* TalkInv and MailInv give every variable of IpcTest its type.
LEMMA TalkTypesAll == TalkInv /\ MailInv => I!TypeOK
<1> SUFFICES ASSUME TalkInv, MailInv PROVE I!TypeOK
  OBVIOUS
<1>1. /\ TalkTypes /\ Len(mail.msgs) <= MailCap
      /\ receiver \in [Receivers -> {"off", "waiting", "over", "failed"}]
  BY DEF TalkInv, MailInv, MailTypes
<1> QED BY <1>1 DEF TalkTypes, I!TypeOK

\* The variables of all the programs have their types, whatever runs.
THEOREM ProgramsTypeCorrect == PickedSpec => []TypesOK
<1>1. I!Spec => []I!TypeOK
  BY TalkInit, TalkStep, MailInit, MailStep, TalkTypesAll, PTL DEF I!Spec
<1>2. T!Spec => []T!TypeOK BY TcpInit, TcpStep, TcpInvTypes, PTL DEF T!Spec
<1>3. TypeOK /\ I!TypeOK /\ T!TypeOK => TypesOK BY DEF TypesOK
<1> QED BY PickedParts, TypeCorrect, <1>1, <1>2, <1>3, PTL

\* ipc_test/: a Client whose signal woke a Listener is answered, if no other process
\* comes in between.
THEOREM ClientsAreAnswered == PickedSpec => []TalkIsAnswered
<1>1. I!TalkIsAnswered => TalkIsAnswered BY DEF TalkIsAnswered
<1> QED BY PickedParts, TalkersUnderstand, <1>1, PTL

\* ipc_test/: no message is lost, doubled or out of its turn.
THEOREM MessagesAreKept == PickedSpec => []MailIsKept
<1>1. I!MailIsKept => MailIsKept BY DEF MailIsKept
<1> QED BY PickedParts, MailIsNotLost, <1>1, PTL

\* virtual_container/: nobody who gets through goes without the greeting.
THEOREM VisitorsGreeted == PickedSpec => []VisitorsAreGreeted
<1>1. T!VisitorsAreGreeted => VisitorsAreGreeted BY DEF VisitorsAreGreeted
<1> QED BY PickedParts, EverybodyGreeted, <1>1, PTL

\* IPC/: what a child prints, what is left when all is over, and that nobody waits
\* in vain are the same when the other programs are on the machine.
THEOREM DemonstrationsKept ==
    PickedSpec => []SaysWhatWasWritten /\ []CleanedUp /\ []NobodyWaitsInVain
BY PickedParts, ChildrenSayIt, NothingIsLeft, SomebodyGoesOn, PTL

=============================================================================
