----------------------------- MODULE DriverSync -----------------------------
(***************************************************************************)
(* The offline queue of the driver app and POST /sync: actions wait in     *)
(* local_action_log; a sync loop reads the dispatchable ones, claims them, *)
(* posts them with the cursor and commits the answer (apps/driver-app      *)
(* src/sync and src/storage, apps/api/src/sync).                           *)
(*                                                                         *)
(* A loop belongs to a mounted layout: the next one may start while the    *)
(* last run of the previous one is under way, or while the previous one    *)
(* still opens the database, in which case it is never stopped.  A request *)
(* may reach the api after the app has given it up.                        *)
(***************************************************************************)
EXTENDS Integers, FiniteSets

CONSTANTS
  Actions,
  AggregateOf,  \* aggregateId of each action
  Rank,         \* sequence of each action within its aggregate
  Blocker,      \* blockedByActionId, or NoAction
  NoAction,
  Loops,        \* sync loops that may run in one app
  Answers,      \* statuses of the wire contract the server answers with
  PullLimit,    \* DELTA_PULL_LIMIT
  MaxFailures,  \* SYNC_CIRCUIT_BREAKER_THRESHOLD
  Budget,       \* bound on the faults of each kind
  MaxKinds      \* bound on the kinds of fault in one behaviour

FaultKinds == {"loss", "late", "storage", "stop", "crash", "row"}
AnswerKinds == {"ok", "cursor_expired", "lock_contended", "short"}

ASSUME SyncAssumption ==
  /\ Rank \in [Actions -> Nat]
  /\ Blocker \in [Actions -> Actions \cup {NoAction}]
  /\ NoAction \notin Actions
  /\ Answers \subseteq AnswerKinds
  /\ PullLimit \in Nat \ {0} /\ MaxFailures \in Nat \ {0}
  /\ Budget \in [FaultKinds -> Nat] /\ MaxKinds \in Nat

VARIABLES
  status,    \* local_action_log.status, "absent" before the action is queued
  cursor,    \* sync_cursor.cursor
  lastSeen,  \* sync_cursor.last_seen_seq
  pc,        \* pc[l]: where the loop's run is
  batch,     \* batch[l]: dispatchedActionIds
  from,      \* from[l]: cursor of the request
  done,      \* done[l]: actions of the request the server has handled
  refused,   \* refused[l]: those of them it answers "rejected" for
  answer,    \* answer[l]: the response, once the server has sent it
  failures,  \* failures[l]: consecutiveTransportFailures
  late,      \* what is left to handle of requests the app has given up
  rows,      \* rows of the change feed
  position,  \* position[a]: feed row of the action, 0 when it is not applied
  faults     \* faults of each kind so far

vars == <<status, cursor, lastSeen, pc, batch, from, done, refused, answer, failures, late,
          rows, position, faults>>

Local == <<status, cursor, lastSeen>>
Request == <<batch, from, done, refused, answer>>
Server == <<rows, position>>

Statuses == {"absent", "pending", "syncing", "synced", "rejected"}
Stages == {"off", "idle", "claim", "wait", "answered", "failed"}
Answer == [status : AnswerKinds, cursor : Nat]
NoAnswer == [status |-> "ok", cursor |-> 0]

\* The locals of a run of loop l: what it read, and nothing answered yet.
Locals(l, actions, c) ==
  /\ batch' = [batch EXCEPT ![l] = actions]
  /\ from' = [from EXCEPT ![l] = c]
  /\ done' = [done EXCEPT ![l] = {}]
  /\ refused' = [refused EXCEPT ![l] = {}]
  /\ answer' = [answer EXCEPT ![l] = NoAnswer]

TypeOK ==
  /\ status \in [Actions -> Statuses]
  /\ cursor \in Nat /\ lastSeen \in Nat
  /\ pc \in [Loops -> Stages]
  /\ batch \in [Loops -> SUBSET Actions]
  /\ from \in [Loops -> Nat]
  /\ done \in [Loops -> SUBSET Actions]
  /\ refused \in [Loops -> SUBSET Actions]
  /\ answer \in [Loops -> Answer]
  /\ failures \in [Loops -> 0 .. MaxFailures]
  /\ late \subseteq SUBSET Actions
  /\ rows \in Nat
  /\ position \in [Actions -> Nat]
  /\ faults \in [FaultKinds -> Nat]

Init ==
  /\ status = [a \in Actions |-> "absent"]
  /\ cursor = 0 /\ lastSeen = 0
  /\ pc = [l \in Loops |-> "off"]
  /\ batch = [l \in Loops |-> {}]
  /\ from = [l \in Loops |-> 0]
  /\ done = [l \in Loops |-> {}]
  /\ refused = [l \in Loops |-> {}]
  /\ answer = [l \in Loops |-> NoAnswer]
  /\ failures = [l \in Loops |-> 0]
  /\ late = {}
  /\ rows = 0 /\ position = [a \in Actions |-> 0]
  /\ faults = [k \in FaultKinds |-> 0]

\* One more fault of kind k.
Fault(k) ==
  /\ faults[k] < Budget[k]
  /\ Cardinality({j \in FaultKinds : faults[j] > 0} \cup {k}) <= MaxKinds
  /\ faults' = [faults EXCEPT ![k] = @ + 1]

-----------------------------------------------------------------------------
(* Queue *)

\* nextSequence: the actions of an aggregate are queued in the order of their ranks.
Enqueue(a) ==
  /\ status[a] = "absent"
  /\ \A b \in Actions :
       AggregateOf[b] = AggregateOf[a] /\ Rank[b] < Rank[a] => status[b] # "absent"
  /\ status' = [status EXCEPT ![a] = "pending"]
  /\ UNCHANGED <<cursor, lastSeen, pc, Request, failures, late, Server, faults>>

\* Mutant of Eligible: the blocker is not looked at.
EligibleUnblocked == {a \in Actions : status[a] = "pending"}

Eligible ==
  {a \in Actions : status[a] = "pending" /\ (Blocker[a] = NoAction \/ status[Blocker[a]] = "synced")}

\* Mutant of Dispatchable: the last action of an aggregate goes first.
DispatchableLast ==
  {a \in Eligible : \A b \in Eligible : AggregateOf[b] = AggregateOf[a] => Rank[b] <= Rank[a]}

\* dispatchableActions: the first eligible action of each aggregate.
Dispatchable ==
  {a \in Eligible : \A b \in Eligible : AggregateOf[b] = AggregateOf[a] => Rank[a] <= Rank[b]}

-----------------------------------------------------------------------------
(* Sync loop *)

\* startNativeSyncLoop: the layout of a signed-in driver is mounted.  Other loops may run:
\* a layout unmounted before its loop has started has nothing to stop it with.
Start(l) ==
  /\ pc[l] = "off"
  /\ pc' = [pc EXCEPT ![l] = "idle"]
  /\ failures' = [failures EXCEPT ![l] = 0]
  /\ UNCHANGED <<Local, Request, late, Server, faults>>

\* The layout is unmounted; a run under way is finished first.
Stop(l) ==
  /\ pc[l] = "idle" /\ Fault("stop")
  /\ pc' = [pc EXCEPT ![l] = "off"]
  /\ UNCHANGED <<Local, Request, failures, late, Server>>

\* A timer tick that the schedule lets run reads the queue and the cursor.
Read(l) ==
  /\ pc[l] = "idle" /\ failures[l] < MaxFailures
  /\ pc' = [pc EXCEPT ![l] = "claim"]
  /\ Locals(l, Dispatchable, cursor)
  /\ UNCHANGED <<Local, failures, late, Server, faults>>

\* A read that fails rejects the tick, and nothing arms its timer again.
ReadFails(l) ==
  /\ pc[l] = "idle" /\ failures[l] < MaxFailures /\ Fault("storage")
  /\ pc' = [pc EXCEPT ![l] = "off"]
  /\ UNCHANGED <<Local, Request, failures, late, Server>>

\* claimDispatched does not ask what the status is.
Claim(l) ==
  /\ pc[l] = "claim"
  /\ status' = [a \in Actions |-> IF a \in batch[l] THEN "syncing" ELSE status[a]]
  /\ pc' = [pc EXCEPT ![l] = "wait"]
  /\ UNCHANGED <<cursor, lastSeen, Request, failures, late, Server, faults>>

\* The transport throws: nothing more, or the rest of the request, gets to the server.
TransportFails(l) ==
  /\ pc[l] = "wait" /\ Fault("loss")
  /\ pc' = [pc EXCEPT ![l] = "failed"]
  /\ UNCHANGED <<Local, Request, failures, late, Server>>

TransportGivesUp(l) ==
  /\ pc[l] = "wait" /\ Fault("late")
  /\ pc' = [pc EXCEPT ![l] = "failed"]
  /\ late' = late \cup ({batch[l] \ done[l]} \ {{}})
  /\ UNCHANGED <<Local, Request, failures, Server>>

-----------------------------------------------------------------------------
(* Server *)

\* A row for the action, in a transaction of its own; its id is unique in the feed.
Apply(a) ==
  IF position[a] > 0 THEN UNCHANGED Server
  ELSE rows' = rows + 1 /\ position' = [position EXCEPT ![a] = rows + 1]

ApplyAction(l, a) ==
  /\ pc[l] = "wait" /\ a \in batch[l] \ done[l]
  /\ done' = [done EXCEPT ![l] = @ \cup {a}]
  /\ Apply(a)
  /\ UNCHANGED <<Local, pc, batch, from, refused, answer, failures, late, faults>>

\* Any error but a unique violation answers "rejected".
RejectAction(l, a) ==
  /\ pc[l] = "wait" /\ a \in batch[l] \ done[l]
  /\ done' = [done EXCEPT ![l] = @ \cup {a}]
  /\ refused' = [refused EXCEPT ![l] = @ \cup {a}]
  /\ UNCHANGED <<Local, pc, batch, from, answer, failures, late, Server, faults>>

\* Rows beyond the request's cursor, at most PullLimit of them.
Pulled(c) == IF rows - c > PullLimit THEN c + PullLimit ELSE rows

Respond(l) ==
  /\ pc[l] = "wait" /\ done[l] = batch[l]
  /\ \E s \in Answers :
       answer' = [answer EXCEPT ![l] = [status |-> s, cursor |-> Pulled(from[l])]]
  /\ pc' = [pc EXCEPT ![l] = "answered"]
  /\ UNCHANGED <<Local, batch, from, done, refused, failures, late, Server, faults>>

LateAction(rest, a) ==
  /\ rest \in late /\ a \in rest
  /\ late' = (late \ {rest}) \cup ({rest \ {a}} \ {{}})
  /\ Apply(a)
  /\ UNCHANGED <<Local, pc, Request, failures, faults>>

\* Another user of the company writes to the feed.
OtherRow ==
  /\ Fault("row")
  /\ rows' = rows + 1
  /\ UNCHANGED <<Local, pc, Request, failures, late, position>>

-----------------------------------------------------------------------------
(* The answer *)

\* mapResultToStatus
ResultStatus(l, a) == IF a \in refused[l] THEN "rejected" ELSE "synced"

\* MAX(last_seen_seq, eventSeq)
Advance(seen, c) == IF c > seen THEN c ELSE seen

\* The run is over; n is the number of transport failures in a row.
EndRun(l, n) ==
  /\ pc' = [pc EXCEPT ![l] = "idle"]
  /\ failures' = [failures EXCEPT ![l] = n]
  /\ Locals(l, {}, 0)

\* applySyncCommit: one transaction; an answer other than "ok" has no transitions.
Commit(l) ==
  /\ pc[l] = "answered" /\ answer[l].status \in {"ok", "lock_contended"}
  /\ status' = [a \in Actions |->
                  IF answer[l].status = "ok" /\ a \in batch[l] THEN ResultStatus(l, a)
                  ELSE status[a]]
  /\ cursor' = answer[l].cursor
  /\ lastSeen' = Advance(lastSeen, answer[l].cursor)
  /\ EndRun(l, 0)
  /\ UNCHANGED <<late, Server, faults>>

\* resetForCursorExpired: everything that is syncing, whoever claimed it.
Reset(l) ==
  /\ pc[l] = "answered" /\ answer[l].status = "cursor_expired"
  /\ status' = [a \in Actions |-> IF status[a] = "syncing" THEN "pending" ELSE status[a]]
  /\ cursor' = 0 /\ lastSeen' = 0
  /\ EndRun(l, 0)
  /\ UNCHANGED <<late, Server, faults>>

\* Mutant of RolledBack: a batch that was not answered stays claimed.
RolledBackNot(l) == status

RolledBack(l) == [a \in Actions |-> IF a \in batch[l] THEN "pending" ELSE status[a]]

\* The number of results does not fit: a protocol violation.
RollbackViolation(l) ==
  /\ pc[l] = "answered" /\ answer[l].status = "short"
  /\ status' = RolledBack(l)
  /\ EndRun(l, 0)
  /\ UNCHANGED <<cursor, lastSeen, late, Server, faults>>

RollbackTransport(l) ==
  /\ pc[l] = "failed"
  /\ status' = RolledBack(l)
  /\ EndRun(l, failures[l] + 1)
  /\ UNCHANGED <<cursor, lastSeen, late, Server, faults>>

\* The claim, the commit, the reset or the rollback throws: the run ends as it is.
StorageFails(l) ==
  /\ pc[l] \in {"claim", "answered", "failed"} /\ Fault("storage")
  /\ EndRun(l, 0)
  /\ UNCHANGED <<Local, late, Server>>

\* The app is killed.
Crash ==
  /\ Fault("crash")
  /\ pc' = [l \in Loops |-> "off"]
  /\ batch' = [l \in Loops |-> {}]
  /\ from' = [l \in Loops |-> 0]
  /\ done' = [l \in Loops |-> {}]
  /\ refused' = [l \in Loops |-> {}]
  /\ answer' = [l \in Loops |-> NoAnswer]
  /\ failures' = [l \in Loops |-> 0]
  /\ UNCHANGED <<Local, late, Server>>

Run(l) ==
  \/ Read(l) \/ Claim(l) \/ Respond(l) \/ Commit(l) \/ Reset(l)
  \/ RollbackViolation(l) \/ RollbackTransport(l)
  \/ \E a \in Actions : ApplyAction(l, a)

Next ==
  \/ \E a \in Actions : Enqueue(a)
  \/ \E l \in Loops :
       \/ Run(l) \/ Start(l) \/ Stop(l) \/ ReadFails(l) \/ StorageFails(l)
       \/ TransportFails(l) \/ TransportGivesUp(l)
       \/ \E a \in Actions : RejectAction(l, a)
  \/ \E rest \in late : \E a \in rest : LateAction(rest, a)
  \/ OtherRow \/ Crash

Spec == Init /\ [][Next]_vars

\* The app is opened, the timer of a loop fires again after every run, and a request
\* is answered or fails.
Fairness == \A l \in Loops : WF_vars(Start(l)) /\ WF_vars(Run(l))

FairSpec == Spec /\ Fairness

-----------------------------------------------------------------------------
(* Properties *)

Applied(a) == position[a] > 0

\* What the queue calls synced is in the server's feed, whatever was lost, repeated,
\* late or claimed twice.
SyncedIsApplied == \A a \in Actions : status[a] = "synced" => Applied(a)

\* A blocked action is in the feed only behind its blocker.
BlockerFirst ==
  \A a \in Actions :
    Applied(a) /\ Blocker[a] # NoAction =>
      Applied(Blocker[a]) /\ position[Blocker[a]] < position[a]

\* What the feed holds of the queue: all that is called synced, each behind its blocker.
FeedIsTrue == SyncedIsApplied /\ BlockerFirst

\* The queue never claims to have seen more of the feed than there is, and
\* last_seen_seq never lags behind the cursor.
CursorIsKnown == cursor <= lastSeen /\ lastSeen <= rows

\* A queued action is synced or rejected, unless what it waits for was rejected or is not
\* in the queue, or the circuit breaker has opened: its only trigger is the timer it defers.
EventuallySettled ==
  \A a \in Actions :
    status[a] = "pending" ~>
      (\/ status[a] \in {"synced", "rejected"}
       \/ Blocker[a] # NoAction /\ status[Blocker[a]] \in {"absent", "rejected"}
       \/ \E l \in Loops : failures[l] = MaxFailures)
=============================================================================
