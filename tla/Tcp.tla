--------------------------------- MODULE Tcp ---------------------------------
(* virtual_container: a server that greets every visitor and closes, and its  *)
(* clients, each in a container of its own.  The kernel completes connections *)
(* before the server accepts them, and keeps the port for a while after the   *)
(* server has closed one; a second start of the server meets both.            *)
EXTENDS Naturals, Sequences, SequencesExt

CONSTANTS
    Visitors,       \* runs of tcp_client
    Backlog,        \* the second argument of listen, 5 in the code
    MaxServers,     \* bound: starts of tcp_server
    Killable        \* one process may be killed

VARIABLES
    server,     \* where the server is
    servers,    \* number of its starts
    serving,    \* the visitor of c_socket, {} or one
    backlog,    \* visitors that are connected and not accepted
    visitor,    \* where each client is
    inbox,      \* what the next read of each client finds
    greeted,    \* what each client has printed
    held,       \* visitors whose connections keep the port from a new bind
    cut,        \* ghost: visitors under whom the server was killed
    killed      \* a process was killed

vars == <<server, servers, serving, backlog, visitor, inbox, greeted, held, cut, killed>>

Init ==
    /\ server = "off" /\ servers = 0
    /\ serving = {} /\ backlog = <<>>
    /\ visitor = [v \in Visitors |-> "off"]
    /\ inbox = [v \in Visitors |-> "nothing"]
    /\ greeted = [v \in Visitors |-> "nothing"]
    /\ held = {} /\ cut = {} /\ killed = FALSE

Waiting == ToSet(backlog)
Listening == server \in {"listening", "accepted", "written"}

-----------------------------------------------------------------------------
(* tcp_server.c *)

\* socket and bind: without SO_REUSEADDR a port that a connection holds is in use.
StartServer ==
    /\ server = "off" /\ servers < MaxServers
    /\ server' = IF held = {} THEN "bound" ELSE "off"
    /\ servers' = servers + 1
    /\ UNCHANGED <<serving, backlog, visitor, inbox, greeted, held, cut, killed>>

Listen ==
    /\ server = "bound" /\ server' = "listening"
    /\ UNCHANGED <<servers, serving, backlog, visitor, inbox, greeted, held, cut, killed>>

Accept ==
    /\ server = "listening" /\ backlog # <<>>
    /\ server' = "accepted"
    /\ serving' = {Head(backlog)} /\ backlog' = Tail(backlog)
    /\ UNCHANGED <<servers, visitor, inbox, greeted, held, cut, killed>>

\* One write to each connection, so that a visitor that has gone does no harm:
\* the answer to it, a reset, comes when nothing more is written.
Write ==
    /\ server = "accepted" /\ server' = "written"
    /\ inbox' = [v \in Visitors |-> IF v \in serving THEN "greeting" ELSE inbox[v]]
    /\ UNCHANGED <<servers, serving, backlog, visitor, greeted, held, cut, killed>>

\* Mutant: the connection is closed before the greeting.
CloseEarly ==
    /\ server \in {"accepted", "written"} /\ server' = "listening"
    /\ inbox' = [v \in Visitors |-> IF v \in serving /\ inbox[v] = "nothing" THEN "end" ELSE inbox[v]]
    /\ held' = held \cup {v \in serving : visitor[v] = "connected"}
    /\ serving' = {}
    /\ UNCHANGED <<servers, backlog, visitor, greeted, cut, killed>>

\* The side that closes first keeps the connection for a while (TIME_WAIT).
Close ==
    /\ server = "written" /\ server' = "listening"
    /\ held' = held \cup {v \in serving : visitor[v] = "connected"}
    /\ serving' = {}
    /\ UNCHANGED <<servers, backlog, visitor, inbox, greeted, cut, killed>>

\* The kernel ends what was not accepted with a reset, the rest in order.
KillServer ==
    /\ Killable /\ ~killed /\ server # "off"
    /\ server' = "off" /\ serving' = {} /\ backlog' = <<>> /\ killed' = TRUE
    /\ inbox' = [v \in Visitors |-> CASE v \in Waiting -> "reset"
                                      [] v \in serving /\ inbox[v] = "nothing" -> "end"
                                      [] OTHER -> inbox[v]]
    /\ held' = held \cup {v \in serving : visitor[v] = "connected"}
    /\ cut' = Waiting \cup serving
    /\ UNCHANGED <<servers, visitor, greeted>>

Expire(v) ==
    /\ v \in held /\ held' = held \ {v}
    /\ UNCHANGED <<server, servers, serving, backlog, visitor, inbox, greeted, cut, killed>>

-----------------------------------------------------------------------------
(* tcp_client.c *)

\* No host, or nobody who listens.
Refused(v) ==
    /\ visitor[v] \in {"off", "knocking"} /\ ~Listening
    /\ visitor' = [visitor EXCEPT ![v] = "refused"]
    /\ UNCHANGED <<server, servers, serving, backlog, inbox, greeted, held, cut, killed>>

\* connect; without room it waits, and tries again.
Connect(v) ==
    /\ Listening
    /\ \/ /\ visitor[v] \in {"off", "knocking"} /\ Len(backlog) <= Backlog
          /\ visitor' = [visitor EXCEPT ![v] = "connected"]
          /\ backlog' = Append(backlog, v)
       \/ /\ visitor[v] = "off" /\ Len(backlog) > Backlog
          /\ visitor' = [visitor EXCEPT ![v] = "knocking"]
          /\ UNCHANGED backlog
    /\ UNCHANGED <<server, servers, serving, inbox, greeted, held, cut, killed>>

\* One read, whose failure ends the client without a word.
Read(v) ==
    /\ visitor[v] = "connected" /\ inbox[v] # "nothing"
    /\ visitor' = [visitor EXCEPT ![v] = IF inbox[v] = "reset" THEN "failed" ELSE "over"]
    /\ greeted' = [greeted EXCEPT ![v] = IF inbox[v] = "reset" THEN @ ELSE inbox[v]]
    /\ UNCHANGED <<server, servers, serving, backlog, inbox, held, cut, killed>>

KillVisitor(v) ==
    /\ Killable /\ ~killed /\ visitor[v] \in {"knocking", "connected"}
    /\ visitor' = [visitor EXCEPT ![v] = "killed"] /\ killed' = TRUE
    /\ UNCHANGED <<server, servers, serving, backlog, inbox, greeted, held, cut>>

ServerStep == StartServer \/ Listen \/ Accept \/ Write \/ Close \/ KillServer
VisitorStep(v) == Refused(v) \/ Connect(v) \/ Read(v) \/ KillVisitor(v) \/ Expire(v)

Next == ServerStep \/ \E v \in Visitors : VisitorStep(v)

Spec == Init /\ [][Next]_vars

-----------------------------------------------------------------------------
(* Type invariant *)

\* Every variable has its type, and who waits at the port is there once.
TypeOK ==
    /\ server \in {"off", "bound", "listening", "accepted", "written"}
    /\ servers \in 0..MaxServers
    /\ serving \subseteq Visitors /\ held \subseteq Visitors /\ cut \subseteq Visitors
    /\ backlog \in Seq(Visitors) /\ IsInjective(backlog) /\ Len(backlog) <= Backlog + 1
    /\ visitor \in [Visitors -> {"off", "knocking", "connected", "refused", "over", "failed", "killed"}]
    /\ inbox \in [Visitors -> {"nothing", "greeting", "end", "reset"}]
    /\ greeted \in [Visitors -> {"nothing", "greeting", "end"}]
    /\ killed \in BOOLEAN

-----------------------------------------------------------------------------
(* Safety *)

\* Nobody who got through to the server is forgotten or sent away without its
\* greeting, however many come, go or are killed at once, unless the server was
\* killed under it (tcp_server.c:37-49, tcp_client.c:39-52).
VisitorsAreGreeted ==
    \A v \in Visitors :
        /\ visitor[v] = "connected" /\ inbox[v] = "nothing"
              => Listening /\ (v \in Waiting \/ (v \in serving /\ server = "accepted"))
        /\ visitor[v] \in {"over", "failed"} => greeted[v] = "greeting" \/ v \in cut

=============================================================================
