-------------------------- MODULE RequestLifecycle --------------------------
(* What the two message queues of dir_manage_gtk promise to the requests of  *)
(* the user, whatever the processes do: requests are taken in the order they *)
(* were made, each by one backend and at most once; an answer belongs to a   *)
(* request that was taken, and it is shown at most once.  A request may be   *)
(* discarded with its queue and an answer may stay away, but nothing ever    *)
(* goes backwards.                                                           *)
EXTENDS Naturals

CONSTANT Requests     \* the numbers of the requests, a set 1..n

VARIABLE phase        \* what has become of each request

Phases == {"unmade", "queued", "taken", "answered", "shown", "over", "lost"}

Init == phase = [r \in Requests |-> "unmade"]

Moves(r, from, to) == phase[r] = from /\ phase' = [phase EXCEPT ![r] = to]

\* The next request enters the queue.
Make(r) ==
    /\ \A q \in Requests : phase[q] = "unmade" => r <= q
    /\ Moves(r, "unmade", "queued")

\* A backend takes the oldest request of the queue; if that is the order to
\* quit, there is nothing more to do about it.
Oldest(r) == \A q \in Requests : q < r => phase[q] # "queued"

Take(r) == Oldest(r) /\ Moves(r, "queued", "taken")
Obey(r) == Oldest(r) /\ Moves(r, "queued", "over")

\* The backend answers, or ends the request without an answer.
Answer(r) == Moves(r, "taken", "answered")
Conclude(r) == Moves(r, "taken", "over")

\* The frontend shows the answer.
Show(r) == Moves(r, "answered", "shown")

\* A queue is removed with all that is in it.
LoseRequests ==
    phase' = [r \in Requests |-> IF phase[r] = "queued" THEN "lost" ELSE phase[r]]
LoseAnswers ==
    phase' = [r \in Requests |-> IF phase[r] = "answered" THEN "over" ELSE phase[r]]

Next ==
    \/ \E r \in Requests :
          Make(r) \/ Take(r) \/ Obey(r) \/ Answer(r) \/ Conclude(r) \/ Show(r)
    \/ LoseRequests
    \/ LoseAnswers

Spec == Init /\ [][Next]_phase

=============================================================================
