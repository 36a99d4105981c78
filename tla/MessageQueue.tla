---------------------------- MODULE MessageQueue ----------------------------
(* A System V message queue, as dir_manage_gtk uses it.  The kernel is not   *)
(* part of the repository: these operators say what the calls in             *)
(* communication.c, ui_manage.c, ui_link.c and backend.c rely on.            *)
(*                                                                           *)
(* A queue is named by the key that ftok derives from a key file, so at any  *)
(* moment a key names at most one queue.  A process that keeps the msqid     *)
(* msgget gave it (backend.c:247, 267) is a user of that very queue: once    *)
(* IPC_RMID removes the queue the msqid is dead, and it stays dead when      *)
(* somebody creates a new queue under the same key.                          *)
EXTENDS Naturals, Sequences

\* No queue under the key: before the first msgget, or after IPC_RMID, which
\* frees the messages and wakes every process blocked on the queue with EIDRM.
NoQueue == [live |-> FALSE, msgs |-> <<>>, users |-> {}]

\* Mutant: a key that finds its queue empties it.
OpenedAfresh(q, ps) == [live |-> TRUE, msgs |-> <<>>, users |-> q.users \cup ps]

\* msgget(key, IPC_CREAT | 0666): find the queue or create it empty.  ps are
\* the processes that keep the msqid beyond the call.
Opened(q, ps) == [live |-> TRUE, msgs |-> q.msgs, users |-> q.users \cup ps]

\* Mutant: one message too many.
HasRoomForOneMore(q, cap) == Len(q.msgs) <= cap

\* msgsnd may proceed: the queue holds fewer than cap messages.
HasRoom(q, cap) == Len(q.msgs) < cap

\* Mutant: the newest message overtakes the others.
SentFirst(q, m) == [q EXCEPT !.msgs = <<m>> \o q.msgs]

\* A successful msgsnd: to the tail of the queue.
Sent(q, m) == [q EXCEPT !.msgs = Append(q.msgs, m)]

\* Mutant: the message is copied and stays (MSG_COPY).
Copied(q) == q

\* A successful msgrcv: the head of the queue leaves it.
Received(q) == [q EXCEPT !.msgs = Tail(q.msgs)]

\* The identifiers of a sequence of messages, in queue order.
Ids(s) == [i \in DOMAIN s |-> s[i].id]

=============================================================================
