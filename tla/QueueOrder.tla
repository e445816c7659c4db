----------------------------- MODULE QueueOrder -----------------------------
(***************************************************************************)
(* The order of an aggregate's actions on their way from local_action_log  *)
(* to the feed: DriverSync with a history variable that no guard reads,    *)
(* which remembers behind which actions the queue was read                 *)
(* (apps/driver-app/src/storage/action-queue-policy.ts).                   *)
(***************************************************************************)
EXTENDS DriverSync

VARIABLE skipped  \* history: <<a, b>>, a read took b while the earlier a was held back

orderVars == <<vars, skipped>>

\* b follows a in the queue of their aggregate.
Earlier(a, b) == AggregateOf[a] = AggregateOf[b] /\ Rank[a] < Rank[b]

\* What dispatchableActions drops before it looks for the first of an aggregate, although
\* it may not be in the feed: claimed, refused, or behind a blocker that is not synced.
HeldBack ==
  {a \in Actions :
    \/ status[a] \in {"syncing", "rejected"}
    \/ status[a] = "pending" /\ a \notin Eligible}

\* What a read of the queue takes in this step.
Taken == UNION {batch'[l] \ batch[l] : l \in Loops}

OrderInit == Init /\ skipped = {}

OrderNext ==
  /\ Next
  /\ skipped' = skipped \cup {p \in HeldBack \X Taken : Earlier(p[1], p[2])}

OrderSpec == OrderInit /\ [][OrderNext]_orderVars

-----------------------------------------------------------------------------
\* Actions of one aggregate reach the feed in the order they were queued: the FIFO
\* guarantee of action-queue-policy.ts:32-34.  The code does not keep it.
AggregateOrder ==
  \A a, b \in Actions : Earlier(a, b) /\ Applied(a) /\ Applied(b) => position[a] < position[b]

\* What is left of it: an action is in the feed without an earlier one of its aggregate
\* before it only if that one was held back when a read took the later.  Lost answers,
\* rollbacks, resets, repeated claims and late requests overtake nothing by themselves.
OvertakenIsHeldBack ==
  \A a, b \in Actions :
    Earlier(a, b) /\ Applied(b) =>
      \/ Applied(a) /\ position[a] < position[b]
      \/ <<a, b>> \in skipped
=============================================================================
