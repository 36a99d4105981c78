------------------------------- MODULE IpcTest -------------------------------
(* The exercises in ipc_test/.  Listener waits for SIGUSR1 and answers in     *)
(* shared memory what Client has written there; send_message and              *)
(* receive_message use a message queue that nobody removes.  Any number of    *)
(* Listeners and Clients may run at the same time, as nothing keeps them from *)
(* it.                                                                        *)
EXTENDS Naturals, Sequences, Functions, MessageQueue

CONSTANTS
    Clients,        \* runs of Client
    Listeners,      \* runs of Listener
    Receivers,      \* runs of receive_message
    MailCap,        \* messages the queue holds
    MaxSent,        \* bound: runs of send_message
    MayBeLate       \* two seconds may be too short for Listener

VARIABLES
    listener,   \* where each Listener is
    client,     \* where each Client is
    segment,    \* the segment the key names
    shmid,      \* what shmget gave to each of them
    memory,     \* the two halves of the text in each segment
    heard,      \* what each Listener has printed
    told,       \* what each Client has printed
    pid,        \* the Listener each Client was told to signal
    woke,       \* ghost: which Client has woken which Listener
    since,      \* ghost: who else has written where a Client has, since it did
    late,       \* ghost: Clients that read before the answer was there
    mail,       \* the queue of send_message and receive_message
    receiver,   \* where each receiver is
    accepted,   \* ghost: number of messages sent with success
    received    \* ghost: identifiers received, in order

talk == <<listener, client, segment, shmid, memory, heard, told, pid, woke, since, late>>
post == <<mail, receiver, accepted, received>>
vars == <<talk, post>>

\* A segment is named after the Listener that made it; one may be left over.
Segments == Listeners \cup {"old"}
Texts == {"blank", "talk", "reply"}
\* The front and the back of a text.
Halves == 1..2
Whole(text) == [half \in Halves |-> text]
Nothing == <<>>

\* A Listener that died is "over", too.
ListenerPlaces == {"off", "begun", "deaf", "waiting", "woken", "heard", "writing", "answered", "over"}
ClientPlaces == {"off", "found", "attached", "writing", "written", "sleeping", "removing", "over", "crashed"}
\* A Client that has written nothing.
NotYet == {"off", "found", "attached", "crashed"}

Init ==
    /\ listener = [l \in Listeners |-> "off"]
    /\ client = [c \in Clients |-> "off"]
    /\ segment \in {"none", "old"}
    /\ shmid = [p \in Listeners \cup Clients |-> "none"]
    /\ \E t \in Texts : memory = [s \in Segments |-> Whole(IF s = segment THEN t ELSE "blank")]
    /\ heard = [l \in Listeners |-> Nothing] /\ told = [c \in Clients |-> Nothing]
    /\ pid = [c \in Clients |-> "nobody"]
    /\ woke = {} /\ since = [c \in Clients |-> {}] /\ late = {}
    /\ mail = NoQueue /\ receiver = [r \in Receivers |-> "off"]
    /\ accepted = 0 /\ received = <<>>

\* A segment whose removal was asked for stays as long as somebody is attached.
Exists(s) ==
    \/ segment = s
    \/ \E l \in Listeners : listener[l] \in {"heard", "writing", "answered"} /\ shmid[l] = s
    \/ \E c \in Clients : client[c] \in {"attached", "writing", "written", "sleeping"} /\ shmid[c] = s

\* strcpy goes from the front to the back, and others may come in between.
Writes(p, half, text) ==
    /\ memory' = [memory EXCEPT ![shmid[p]][half] = text]
    /\ since' = [c \in Clients |->
                    IF c # p /\ client[c] \notin NotYet /\ shmid[c] = shmid[p]
                    THEN since[c] \cup {p} ELSE since[c]]

-----------------------------------------------------------------------------
(* Listener *)

Listens(l, from, to) ==
    listener[l] = from /\ listener' = [listener EXCEPT ![l] = to] /\ UNCHANGED <<client, post>>

\* Mutant: Listener makes a segment of its own.
StartListenerApart(l) ==
    /\ Listens(l, "off", "begun")
    /\ shmid' = [shmid EXCEPT ![l] = l]
    /\ UNCHANGED <<segment, memory, heard, told, pid, woke, since, late>>

\* shmget finds the segment of the key, or makes it.
StartListener(l) ==
    /\ Listens(l, "off", "begun")
    /\ segment' = IF segment = "none" THEN l ELSE segment
    /\ shmid' = [shmid EXCEPT ![l] = segment']
    /\ UNCHANGED <<memory, heard, told, pid, woke, since, late>>

\* signal: from here on SIGUSR1 does not end the process.
SetHandler(l) ==
    /\ Listens(l, "begun", "deaf")
    /\ UNCHANGED <<segment, shmid, memory, heard, told, pid, woke, since, late>>

Suspend(l) ==
    /\ Listens(l, "deaf", "waiting")
    /\ UNCHANGED <<segment, shmid, memory, heard, told, pid, woke, since, late>>

\* shmat and the copy; without a segment it reads from address -1.
Hear(l) ==
    /\ IF Exists(shmid[l])
       THEN Listens(l, "woken", "heard") /\ heard' = [heard EXCEPT ![l] = memory[shmid[l]]]
       ELSE Listens(l, "woken", "over") /\ UNCHANGED heard
    /\ UNCHANGED <<segment, shmid, memory, told, pid, woke, since, late>>

Reply(l) ==
    /\ \/ Listens(l, "heard", "writing") /\ Writes(l, 1, "reply")
       \/ Listens(l, "writing", "answered") /\ Writes(l, 2, "reply")
    /\ UNCHANGED <<segment, shmid, heard, told, pid, woke, late>>

EndListener(l) ==
    /\ Listens(l, "answered", "over")
    /\ UNCHANGED <<segment, shmid, memory, heard, told, pid, woke, since, late>>

-----------------------------------------------------------------------------
(* Client *)

Steps(c, from, to) == client[c] = from /\ client' = [client EXCEPT ![c] = to] /\ UNCHANGED post

\* shmget without IPC_CREAT; without a segment strcpy writes to address -1.  The
\* user has read the number of a Listener that runs, if there is one.
StartClient(c) ==
    /\ Steps(c, "off", IF segment = "none" THEN "crashed" ELSE "found")
    /\ shmid' = [shmid EXCEPT ![c] = segment]
    /\ LET running == {l \in Listeners : listener[l] \notin {"off", "over"}} IN
       \E p \in IF running = {} THEN {"nobody"} ELSE running : pid' = [pid EXCEPT ![c] = p]
    /\ UNCHANGED <<listener, segment, memory, heard, told, woke, since, late>>

\* shmat; the segment may have gone since.
Attach(c) ==
    /\ Steps(c, "found", IF Exists(shmid[c]) THEN "attached" ELSE "crashed")
    /\ UNCHANGED <<listener, segment, shmid, memory, heard, told, pid, woke, since, late>>

Talk(c) ==
    /\ \/ Steps(c, "attached", "writing") /\ Writes(c, 1, "talk")
       \/ Steps(c, "writing", "written") /\ Writes(c, 2, "talk")
    /\ UNCHANGED <<listener, segment, shmid, heard, told, pid, woke, late>>

\* kill(SIGUSR1): ends a Listener without handler, is lost on one that is not
\* waiting, and breaks off the sleep of one that has answered.
Signal(c) ==
    /\ Steps(c, "written", "sleeping")
    /\ listener' = [l \in Listeners |->
                       CASE l = pid[c] /\ listener[l] \in {"begun", "answered"} -> "over"
                         [] l = pid[c] /\ listener[l] = "waiting" -> "woken"
                         [] OTHER -> listener[l]]
    /\ woke' = woke \cup {<<c, l>> : l \in {l \in Listeners : l = pid[c] /\ listener[l] = "waiting"}}
    /\ UNCHANGED <<segment, shmid, memory, heard, told, pid, since, late>>

\* Two seconds later, which is enough for Listener unless MayBeLate.
Read(c) ==
    /\ Steps(c, "sleeping", "removing")
    /\ LET answering == pid[c] \in Listeners /\ listener[pid[c]] \in {"woken", "heard", "writing"} IN
       /\ answering => MayBeLate
       /\ late' = IF answering THEN late \cup {c} ELSE late
    /\ told' = [told EXCEPT ![c] = memory[shmid[c]]]
    /\ UNCHANGED <<listener, segment, shmid, memory, heard, pid, woke, since>>

\* What another Client has removed is not there any more.
RemoveSegment(c) ==
    /\ Steps(c, "removing", "over")
    /\ segment' = IF segment = shmid[c] THEN "none" ELSE segment
    /\ UNCHANGED <<listener, shmid, memory, heard, told, pid, woke, since, late>>

-----------------------------------------------------------------------------
(* send_message and receive_message *)

\* Mutant: a full queue is no reason to give up.
SendAnyway ==
    /\ accepted < MaxSent
    /\ accepted' = accepted + 1
    /\ LET q == Opened(mail, {}) IN
       mail' = IF HasRoom(q, MailCap) THEN Sent(q, [id |-> accepted + 1]) ELSE q
    /\ UNCHANGED <<talk, receiver, received>>

\* IPC_NOWAIT: without room the message is given up, and the user is told.
SendMessage ==
    /\ accepted < MaxSent
    /\ LET q == Opened(mail, {}) IN
       IF HasRoom(q, MailCap)
       THEN mail' = Sent(q, [id |-> accepted + 1]) /\ accepted' = accepted + 1
       ELSE mail' = q /\ UNCHANGED accepted
    /\ UNCHANGED <<talk, receiver, received>>

\* msgget without IPC_CREAT.
StartReceiver(r) ==
    /\ receiver[r] = "off"
    /\ receiver' = [receiver EXCEPT ![r] = IF mail.live THEN "waiting" ELSE "failed"]
    /\ UNCHANGED <<talk, mail, accepted, received>>

Receive(r) ==
    /\ receiver[r] = "waiting"
    /\ mail.msgs # <<>>
    /\ receiver' = [receiver EXCEPT ![r] = "over"]
    /\ received' = Append(received, Head(mail.msgs).id)
    /\ mail' = Received(mail)
    /\ UNCHANGED <<talk, accepted>>

-----------------------------------------------------------------------------
ListenerStep(l) == StartListener(l) \/ SetHandler(l) \/ Suspend(l) \/ Hear(l) \/ Reply(l) \/ EndListener(l)

ClientStep(c) == StartClient(c) \/ Attach(c) \/ Talk(c) \/ Signal(c) \/ Read(c) \/ RemoveSegment(c)

PostStep == SendMessage \/ \E r \in Receivers : StartReceiver(r) \/ Receive(r)

TalkerStep == (\E l \in Listeners : ListenerStep(l)) \/ (\E c \in Clients : ClientStep(c))

Next == TalkerStep \/ PostStep

Spec == Init /\ [][Next]_vars

-----------------------------------------------------------------------------
(* Type invariant *)

\* Every variable has its type.
TypeOK ==
    /\ listener \in [Listeners -> ListenerPlaces]
    /\ client \in [Clients -> ClientPlaces]
    /\ segment \in Segments \cup {"none"}
    /\ shmid \in [Listeners \cup Clients -> Segments \cup {"none"}]
    /\ memory \in [Segments -> [Halves -> Texts]]
    /\ heard \in [Listeners -> [Halves -> Texts] \cup {Nothing}]
    /\ told \in [Clients -> [Halves -> Texts] \cup {Nothing}]
    /\ pid \in [Clients -> Listeners \cup {"nobody"}]
    /\ woke \subseteq Clients \X Listeners
    /\ since \in [Clients -> SUBSET (Listeners \cup Clients)] /\ late \subseteq Clients
    /\ Len(mail.msgs) <= MailCap
    /\ receiver \in [Receivers -> {"off", "waiting", "over", "failed"}]

-----------------------------------------------------------------------------
(* Safety *)

\* The segment of the Listener was removed by another Client, so that this one has
\* got what a later Listener made.
Apart(c, l) ==
    /\ shmid[c] # shmid[l]
    /\ \E d \in Clients \ {c} : client[d] = "over" /\ shmid[d] = shmid[l]

\* A Listener that was woken prints the text of Clients, whatever a session before
\* has left, and its Client reads the answer (Listener.c:29-36, Client.c:20-26).
\* Excepted is what those that run at the same time do to each other: the Listener
\* may find the answer of another one, the Client the text of another one that has
\* written since, its two seconds may be over before the answer is there, or the
\* two have got different segments.
TalkIsAnswered ==
    \A c \in Clients, l \in Listeners :
        <<c, l>> \in woke /\ ~Apart(c, l) =>
            /\ \/ heard[l] \in {Nothing, Whole("talk")}
               \/ since[c] \cap (Listeners \ {l}) # {}
            /\ client[c] = "removing" =>
                  \/ told[c] = Whole("reply")
                  \/ c \in late \/ since[c] \cap Clients # {}

\* What send_message reported as sent is received once and in order, or waits
\* (send_message.c:26, receive_message.c:21).
MailIsKept == [i \in 1..accepted |-> i] = received \o Ids(mail.msgs)

=============================================================================
