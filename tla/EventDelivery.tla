---------------------------- MODULE EventDelivery ----------------------------
(***************************************************************************)
(* What the outbox promises for each event, without relays, retries or a   *)
(* broker: once its transaction commits an event is owed to a queue, and   *)
(* then gets one final outcome.  An event nobody consumes is never         *)
(* enqueued, and a final outcome is never taken back.                      *)
(***************************************************************************)
CONSTANT Events

VARIABLES
  deliverable,  \* the events some queue consumes
  outcome       \* outcome[e]

Outcomes == {"none", "owed", "enqueued", "dead", "lost"}

Init ==
  /\ deliverable \in SUBSET Events
  /\ outcome = [e \in Events |-> "none"]

\* e moves from owed to its final outcome.
Settle(e, end) ==
  /\ outcome[e] = "owed"
  /\ outcome' = [outcome EXCEPT ![e] = end]

Commit(e) ==
  /\ outcome[e] = "none"
  /\ outcome' = [outcome EXCEPT ![e] = "owed"]

Enqueue(e) == e \in deliverable /\ Settle(e, "enqueued")

GiveUp(e) == Settle(e, "dead")

\* A crash of the carrier loses what it was carrying, several events at once.
Lose(S) ==
  /\ \A e \in S : outcome[e] = "owed"
  /\ outcome' = [e \in Events |-> IF e \in S THEN "lost" ELSE outcome[e]]

Next ==
  /\ \/ \E e \in Events : Commit(e) \/ Enqueue(e) \/ GiveUp(e)
     \/ \E S \in SUBSET Events : Lose(S)
  /\ UNCHANGED deliverable

Spec == Init /\ [][Next]_<<deliverable, outcome>>
=============================================================================
