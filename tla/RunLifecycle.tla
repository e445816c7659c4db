---------------------------- MODULE RunLifecycle ----------------------------
(***************************************************************************)
(* One transport order, the road run that carries it and the photos of its *)
(* stops, as every transaction that writes them sees them: the driver's    *)
(* accept/start/complete (apps/api/src/dispatch/driver-delivery.service),  *)
(* the dispatcher's cancel (transport-orders.cancel.service), the soft     *)
(* delete of the driver or vehicle, the intake callback with its           *)
(* edge-triggered completion, the completion reconciler and the ghost-run  *)
(* repair.                                                                 *)
(*                                                                         *)
(* Postgres runs them at READ COMMITTED, so each is two steps: what it     *)
(* reads and decides, then its writes and commit.  A write that repeats    *)
(* its condition in the WHERE clause is guarded again in the second step;  *)
(* one that names only the row is not.                                     *)
(***************************************************************************)
EXTENDS Naturals, FiniteSets

CONSTANTS
  Txns,     \* concurrent transactions
  Stops,    \* stops of the order
  Photos,   \* manifests, by correlation id
  Reasons   \* cancellation reasons a dispatcher gives

ASSUME LifecycleAssumption ==
  /\ IsFiniteSet(Stops) /\ Stops # {}
  /\ IsFiniteSet(Photos)
  /\ "soft_deleted" \notin Reasons /\ "none" \notin Reasons

VARIABLES
  order,   \* transport_order.state
  reason,  \* transport_order.cancellation_reason
  byWhom,  \* transport_order.cancelled_by: "none", or the "dispatcher"
  run,     \* road_run.state
  photo,   \* photo[m]: manifest.state, "none" before it is negotiated
  txn      \* txn[t]: what transaction t has read and will write

vars == <<order, reason, byWhom, run, photo, txn>>

RunStates == {"planned", "dispatched", "started", "completed", "cancelled"}
Terminal == {"completed", "cancelled"}
PhotoStates == {"none", "pending", "verifying", "committed", "rejected"}
Idle == [op |-> "idle"]

TxnStates ==
  {Idle}
  \cup [op : {"drive"}, from : RunStates, to : RunStates]
  \cup [op : {"cancel", "recancel"}, why : Reasons]
  \cup [op : {"softDelete", "reconcile", "ghost"}]
  \cup [op : {"finalize"}, photo : Photos, delivered : BOOLEAN]

TypeOK ==
  /\ order \in {"draft", "cancelled"}
  /\ reason \in Reasons \cup {"none", "soft_deleted"}
  /\ byWhom \in {"none", "dispatcher"}
  /\ run \in RunStates
  /\ photo \in [Photos -> PhotoStates]
  /\ txn \in [Txns -> TxnStates]

\* What create commits: a draft order, its stops and a planned run.
Init ==
  /\ order = "draft" /\ reason = "none" /\ byWhom = "none" /\ run = "planned"
  /\ photo = [m \in Photos |-> "none"]
  /\ txn = [t \in Txns |-> Idle]

-----------------------------------------------------------------------------
\* roadRunFsm.
RunTransitions ==
  {<<"planned", "dispatched">>, <<"planned", "cancelled">>,
   <<"dispatched", "started">>, <<"dispatched", "cancelled">>,
   <<"started", "completed">>, <<"started", "cancelled">>}

Committed == {m \in Photos : photo[m] = "committed"}
Received == {m \in Photos : photo[m] \in {"verifying", "committed"}}

\* Mutant of AssertAllManifestsCommitted: one photo short is enough.
AssertAlmostAllCommitted(committed) == Cardinality(committed) + 1 >= Cardinality(Stops)

\* The driver's completion gate counts photos; it does not look at their stops.
AssertAllManifestsCommitted(committed) == Cardinality(committed) >= Cardinality(Stops)

\* The same count, made by the edge-triggered completion and the reconciler.
RunIsDelivered(committed) ==
  /\ Stops # {}
  /\ Cardinality(committed) >= Cardinality(Stops)

\* Mutant of NonTerminal: the WHERE clause of a flip forgets the state.
NonTerminalOrNot(s) == s \in RunStates

NonTerminal(s) == s \notin Terminal

\* Transaction t has read, and decided.
Begin(t, intent) == txn[t] = Idle /\ txn' = [txn EXCEPT ![t] = intent]
End(t) == txn' = [txn EXCEPT ![t] = Idle]

-----------------------------------------------------------------------------
(* Driver *)

\* transition: the state machine's check, and the photo gate for complete.
DriveReads(t) ==
  \E to \in {"dispatched", "started", "completed"} :
    /\ <<run, to>> \in RunTransitions
    /\ to = "completed" => AssertAllManifestsCommitted(Committed)
    /\ Begin(t, [op |-> "drive", from |-> run, to |-> to])
    /\ UNCHANGED <<order, reason, byWhom, run, photo>>

\* UPDATE road_run ... WHERE road_run_id = id: whatever the row now holds.
DriveWrites(t) ==
  /\ txn[t].op = "drive"
  /\ run' = txn[t].to
  /\ End(t)
  /\ UNCHANGED <<order, reason, byWhom, photo>>

-----------------------------------------------------------------------------
(* Dispatcher *)

\* cancel of a draft order is refused once a photo was received; a repeated
\* cancel must give the same reason, and goes on whatever was received.
CancelReads(t) ==
  \E why \in Reasons :
    /\ \/ /\ order = "draft" /\ Received = {}
          /\ Begin(t, [op |-> "cancel", why |-> why])
       \/ /\ order = "cancelled" /\ reason = why /\ byWhom # "none"
          /\ Begin(t, [op |-> "recancel", why |-> why])
    /\ UNCHANGED <<order, reason, byWhom, run, photo>>

\* The cascade flips the run unless it is cancelled; a first cancel also
\* writes the order, again by its id alone.
CancelWrites(t) ==
  /\ txn[t].op \in {"cancel", "recancel"}
  /\ \/ /\ txn[t].op = "cancel"
        /\ order' = "cancelled" /\ reason' = txn[t].why /\ byWhom' = "dispatcher"
     \/ txn[t].op = "recancel" /\ UNCHANGED <<order, reason, byWhom>>
  /\ run' = "cancelled"
  /\ End(t)
  /\ UNCHANGED photo

\* Soft delete of the driver (softDelete) or the vehicle (deleteVehicle, the same
\* statements) cancels the open order, and not the run; it does not say by whom.
SoftDeleteReads(t) ==
  /\ order = "draft"
  /\ Begin(t, [op |-> "softDelete"])
  /\ UNCHANGED <<order, reason, byWhom, run, photo>>

SoftDeleteWrites(t) ==
  /\ txn[t].op = "softDelete"
  /\ order' = "cancelled" /\ reason' = "soft_deleted"
  /\ End(t)
  /\ UNCHANGED <<byWhom, run, photo>>

-----------------------------------------------------------------------------
(* Photos *)

\* negotiateUpload creates the manifest, of one stop or of none: nobody counts by stop.
Negotiate(m) ==
  /\ photo[m] = "none"
  /\ photo' = [photo EXCEPT ![m] = "pending"]
  /\ UNCHANGED <<order, reason, byWhom, run, txn>>

\* commitUpload.
Upload(m) ==
  /\ photo[m] = "pending"
  /\ photo' = [photo EXCEPT ![m] = "verifying"]
  /\ UNCHANGED <<order, reason, byWhom, run, txn>>

\* finalizeIntake has locked the manifest and counted: its own photo, and those
\* other transactions have committed.
FinalizeReads(t, m) ==
  /\ photo[m] = "verifying"
  /\ \A u \in Txns : txn[u].op = "finalize" => txn[u].photo # m
  /\ Begin(t, [op |-> "finalize", photo |-> m, delivered |-> RunIsDelivered(Committed \cup {m})])
  /\ UNCHANGED <<order, reason, byWhom, run, photo>>

AcceptedState == "committed"

\* completeRunIfDelivered flips the run in the same transaction if it is not terminal.
FinalizeWrites(t) ==
  /\ txn[t].op = "finalize"
  /\ photo' = [photo EXCEPT ![txn[t].photo] = AcceptedState]
  /\ run' = IF txn[t].delivered /\ NonTerminal(run) THEN "completed" ELSE run
  /\ End(t)
  /\ UNCHANGED <<order, reason, byWhom>>

Reject(m) ==
  /\ photo[m] = "verifying"
  /\ \A u \in Txns : txn[u].op = "finalize" => txn[u].photo # m
  /\ photo' = [photo EXCEPT ![m] = "rejected"]
  /\ UNCHANGED <<order, reason, byWhom, run, txn>>

-----------------------------------------------------------------------------
(* Repairs *)

\* Mutant of Stranded: only started runs are looked for.
StrandedOnlyStarted == run = "started" /\ RunIsDelivered(Committed)

\* findDeliveredIncompleteRuns.
Stranded == NonTerminal(run) /\ RunIsDelivered(Committed)

\* repairTenant.
ReconcileReads(t) ==
  /\ Stranded
  /\ Begin(t, [op |-> "reconcile"])
  /\ UNCHANGED <<order, reason, byWhom, run, photo>>

ReconcileWrites(t) ==
  /\ txn[t].op = "reconcile"
  /\ run' = IF NonTerminal(run) THEN "completed" ELSE run
  /\ End(t)
  /\ UNCHANGED <<order, reason, byWhom, photo>>

\* repairGhostRuns: a live run whose order is terminal.
GhostReads(t) ==
  /\ NonTerminal(run) /\ order = "cancelled"
  /\ Begin(t, [op |-> "ghost"])
  /\ UNCHANGED <<order, reason, byWhom, run, photo>>

GhostWrites(t) ==
  /\ txn[t].op = "ghost"
  /\ run' = IF NonTerminal(run) THEN "cancelled" ELSE run
  /\ End(t)
  /\ UNCHANGED <<order, reason, byWhom, photo>>

Reads(t) ==
  \/ DriveReads(t) \/ CancelReads(t) \/ SoftDeleteReads(t)
  \/ \E m \in Photos : FinalizeReads(t, m)
  \/ ReconcileReads(t) \/ GhostReads(t)

Writes(t) ==
  \/ DriveWrites(t) \/ CancelWrites(t) \/ SoftDeleteWrites(t)
  \/ FinalizeWrites(t) \/ ReconcileWrites(t) \/ GhostWrites(t)

Next ==
  \/ \E t \in Txns : Reads(t) \/ Writes(t)
  \/ \E m \in Photos : Negotiate(m) \/ Upload(m) \/ Reject(m)

Spec == Init /\ [][Next]_vars

\* Transactions end, and the scheduler runs the completion reconciler.  The
\* pool always has another connection for it, hence strong fairness on a slot.
Fairness ==
  /\ \A t \in Txns : WF_vars(Writes(t))
  /\ SF_vars(\E t \in Txns : ReconcileReads(t))

FairSpec == Spec /\ Fairness

-----------------------------------------------------------------------------
CountsMatch == Cardinality(Committed) >= Cardinality(Stops)

\* A completed run has as many committed photos as stops, whichever of the
\* four paths completed it and whatever happened since it counted.
CompletedIsDelivered == run = "completed" => CountsMatch

MayRevive(t) ==
  \/ txn[t].op = "drive"
  \/ run = "completed" /\ txn[t].op \in {"cancel", "recancel"}

\* A repair or a late photo never takes a run out of a terminal state: only a
\* driver's write that read the run before can, or a cancel of a completed run.
OnlyStaleDrivesRevive ==
  [][(run \in Terminal) /\ run' # run => \E t \in Txns : MayRevive(t) /\ txn'[t] = Idle]_vars

\* A run whose last photos were committed by transactions that did not see one
\* another is completed, or cancelled, in the end: no run stays open with all
\* its photos, even one that a stale driver's write reopened.
EventuallyClosed == run \notin Terminal /\ CountsMatch ~> run \in Terminal
=============================================================================
