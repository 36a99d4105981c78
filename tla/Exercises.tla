------------------------------ MODULE Exercises ------------------------------
(* The small programs of the repository, of which the user picks one at a     *)
(* time: the demonstrations in IPC/ (ParentChild), the exercises in ipc_test/ *)
(* and the containers.  They share nothing but the machine.                   *)
EXTENDS ParentChild

CONSTANTS Clients, Listeners, Receivers, MailCap, MaxSent, MayBeLate, \* IpcTest
          Visitors, Backlog, MaxServers                               \* Tcp

ASSUME BoundsAssumption ==
    /\ MailCap \in Nat /\ MaxSent \in Nat
    /\ Backlog \in Nat /\ MaxServers \in Nat
ASSUME ProcessesAssumption ==
    Clients \cap Listeners = {} /\ {"nobody", "old", "none"} \cap (Clients \cup Listeners) = {}

VARIABLES
    program,    \* what the user has picked
    listener, client, segment, shmid, memory, heard, told, pid, woke, since, late,
    mail, receiver, accepted, received,
    server, servers, serving, backlog, visitor, inbox, greeted, held, cut, killed

I == INSTANCE IpcTest
T == INSTANCE Tcp

talks == <<listener, client, segment, shmid, memory, heard, told, pid, woke, since, late,
           mail, receiver, accepted, received>>
visits == <<server, servers, serving, backlog, visitor, inbox, greeted, held, cut, killed>>

PickedInit ==
    /\ program \in {"IPC", "Listener", "send_message", "virtual_container"}
    /\ Init /\ (program # "IPC" => demo = "pipe")
    /\ I!Init /\ (program # "Listener" => segment = "none")
    /\ T!Init

PickedNext ==
    /\ UNCHANGED program
    /\ \/ program = "IPC" /\ Next /\ UNCHANGED <<talks, visits>>
       \/ program = "Listener" /\ I!TalkerStep /\ UNCHANGED <<vars, visits>>
       \/ program = "send_message" /\ I!PostStep /\ UNCHANGED <<vars, visits>>
       \/ program = "virtual_container" /\ T!Next /\ UNCHANGED <<vars, talks>>

PickedSpec == PickedInit /\ [][PickedNext]_<<program, vars, talks, visits>>

-----------------------------------------------------------------------------
\* The type invariants of the three modules.
TypesOK == TypeOK /\ I!TypeOK /\ T!TypeOK

\* ipc_test/: a Client that wakes a Listener gets its answer, if no other comes in
\* between.
TalkIsAnswered == I!TalkIsAnswered

\* ipc_test/: every message is received once, and in order.
MailIsKept == I!MailIsKept

\* virtual_container/: who gets through to the server gets its greeting.
VisitorsAreGreeted == T!VisitorsAreGreeted

=============================================================================
