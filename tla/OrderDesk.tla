------------------------------ MODULE OrderDesk ------------------------------
(***************************************************************************)
(* The desk of one company: drivers and vehicles, who drives what, the     *)
(* orders given to the pairs and their numbers (apps/api/src/reference,    *)
(* admin and transport-orders).                                            *)
(*                                                                         *)
(* Transactions run at READ COMMITTED: each statement sees what others     *)
(* have committed, and nothing of a transaction is seen before its commit. *)
(* A form shows the pairs that were free when it was opened, and is sent   *)
(* when its dispatcher likes.                                              *)
(***************************************************************************)
EXTENDS Integers, Sequences, FiniteSets, FiniteSetsExt

CONSTANTS
  Drivers, Vehicles,
  Forms,      \* dispatch forms and assignment plans open at once
  Txns,       \* concurrent transactions
  Unbound,    \* drivers whose operator_id is NULL at first
  Months,     \* months of the year, 12
  MaxOrders,  \* bound on the orders
  MaxEdits    \* bound on assignments, revocations, deletes and reactivations

ASSUME DeskAssumption ==
  /\ Drivers \cap Vehicles = {} /\ Unbound \subseteq Drivers
  /\ Months \in Nat \ {0} /\ MaxOrders \in Nat /\ MaxEdits \in Nat

VARIABLES
  deleted,   \* drivers and vehicles with active = FALSE
  bound,     \* drivers that have an operator_id
  pairs,     \* rows of driver_vehicle_assignment with no revoked_at
  orders,    \* transport_order and its road_run, in the order of their commits
  form,      \* form[f]: what a form proposes, or Closed
  month,     \* getUTCMonth() + 1
  lock,      \* transactions that hold the row of order_sequence
  txn,       \* txn[t]: what transaction t has read
  late,      \* history: pairs assigned behind the back of a soft delete
  edits

Desk == <<deleted, bound, pairs, orders>>
vars == <<Desk, form, month, lock, txn, late, edits>>

Pairs == Drivers \X Vehicles
Of(p) == {p[1], p[2]}
Closed == [for |-> "nothing"]
Proposal == [for : {"order", "assignment"}, pair : Pairs]
Idle == [op |-> "idle"]

Order == [pair : Pairs, state : {"draft", "cancelled"}, run : {"open", "completed", "cancelled"},
          month : 1 .. Months, number : Nat, raced : BOOLEAN]

TxnStates ==
  {Idle}
  \cup [op : {"create"}, at : {"lock", "number", "insert"}, pair : Pairs, month : 1 .. Months,
        number : Nat, raced : BOOLEAN]
  \cup [op : {"delete"}, at : {"pairs", "orders", "commit"}, who : Drivers \cup Vehicles,
        pairs : SUBSET Pairs, orders : SUBSET Nat, cancels : BOOLEAN]

TypeOK ==
  /\ deleted \subseteq Drivers \cup Vehicles
  /\ bound \subseteq Drivers
  /\ pairs \subseteq Pairs
  /\ orders \in Seq(Order)
  /\ form \in [Forms -> Proposal \cup {Closed}]
  /\ month \in 1 .. Months
  /\ lock \subseteq Txns
  /\ txn \in [Txns -> TxnStates]
  /\ late \subseteq Pairs
  /\ edits \in Nat

Init ==
  /\ deleted = {} /\ bound = Drivers \ Unbound
  /\ pairs = {} /\ orders = <<>>
  /\ form = [f \in Forms |-> Closed]
  /\ month = 1
  /\ lock = {}
  /\ txn = [t \in Txns |-> Idle]
  /\ late = {} /\ edits = 0

Edit == edits < MaxEdits /\ edits' = edits + 1

-----------------------------------------------------------------------------
(* Forms *)

\* A run pins its driver and its vehicle while it is open and has a live order.
Busy == UNION {Of(orders[i].pair) : i \in {j \in DOMAIN orders :
          orders[j].run = "open" /\ orders[j].state = "draft"}}

\* driverVehicleAssignments: the pairs the dispatch form offers.
Offered ==
  {p \in pairs : p[1] \in bound /\ Of(p) \cap (deleted \cup Busy) = {}}

\* The order form; the roster page and the copilot's plan, which list what is active.
OpenForm(f) ==
  /\ form[f] = Closed
  /\ \/ \E p \in Offered : form' = [form EXCEPT ![f] = [for |-> "order", pair |-> p]]
     \/ \E p \in Pairs :
          /\ Of(p) \cap deleted = {}
          /\ form' = [form EXCEPT ![f] = [for |-> "assignment", pair |-> p]]
  /\ UNCHANGED <<Desk, month, lock, txn, late, edits>>

-----------------------------------------------------------------------------
(* Assignments *)

\* Soft deletes under way of p's driver or vehicle.
Deleting(p) == {t \in Txns : txn[t].op = "delete" /\ txn[t].who \in Of(p)}

\* Pairs whose revocation is not committed yet.
Revoking == UNION {txn[t].pairs : t \in {u \in Txns : txn[u].op = "delete"}}

Clash(p, q) == Of(p) \cap Of(q) # {}

\* assign: a missing operator_id is filled in, then the row is inserted, unless one of the
\* two partial unique indexes refuses it; the insert waits for a revocation under way.
\* Whether the driver and the vehicle are active is not looked at.
Assign(f) ==
  LET p == form[f].pair IN
  /\ form[f].for = "assignment"
  /\ \A q \in Revoking : ~Clash(p, q)
  /\ Edit
  /\ bound' = bound \cup {p[1]}
  /\ IF \A q \in pairs : ~Clash(p, q)
       THEN /\ pairs' = pairs \cup {p}
            /\ late' = IF Of(p) \cap deleted # {} \/ \E t \in Deleting(p) : txn[t].at # "pairs"
                       THEN late \cup {p} ELSE late \ {p}
       ELSE UNCHANGED <<pairs, late>>
  /\ form' = [form EXCEPT ![f] = Closed]
  /\ UNCHANGED <<deleted, orders, month, lock, txn>>

\* revoke waits for a soft delete that has the row.
Revoke(p) ==
  /\ p \in pairs /\ p \notin Revoking
  /\ Edit
  /\ pairs' = pairs \ {p}
  /\ UNCHANGED <<deleted, bound, orders, form, month, lock, txn, late>>

\* create of a name, phone or plate whose row is soft-deleted.
Reactivate(x) ==
  /\ x \in deleted
  /\ Edit
  /\ deleted' = deleted \ {x}
  /\ UNCHANGED <<bound, pairs, orders, form, month, lock, txn, late>>

-----------------------------------------------------------------------------
(* Orders *)

\* create asks for a live pair; it asks neither for active rows nor for a free pair.
CreateReads(t, f) ==
  LET p == form[f].pair IN
  /\ txn[t] = Idle /\ form[f].for = "order"
  /\ Len(orders) + Cardinality({u \in Txns : txn[u].op = "create"}) < MaxOrders
  /\ form' = [form EXCEPT ![f] = Closed]
  /\ IF p \in pairs /\ p[1] \in bound
       THEN txn' = [txn EXCEPT ![t] = [op |-> "create", at |-> "lock", pair |-> p, month |-> month,
                                       number |-> 0, raced |-> Of(p) \cap deleted # {}]]
       ELSE UNCHANGED txn
  /\ UNCHANGED <<Desk, month, lock, late, edits>>

\* Mutant of LockFree: the row of the sequence is read without FOR UPDATE.
LockIgnored(t) == t \in Txns

\* SELECT ... FOR UPDATE on the row of order_sequence.
LockFree(t) == lock = {} /\ t \in Txns

Lock(t) ==
  /\ txn[t].op = "create" /\ txn[t].at = "lock"
  /\ LockFree(t)
  /\ lock' = lock \cup {t}
  /\ txn' = [txn EXCEPT ![t].at = "number"]
  /\ UNCHANGED <<Desk, form, month, late, edits>>

\* The numbers of month m that are committed.
Taken(m) == {orders[i].number : i \in {j \in DOMAIN orders : orders[j].month = m}}

\* allocate: one more than the highest number of this month, of any year.
Number(t) ==
  /\ txn[t].op = "create" /\ txn[t].at = "number"
  /\ txn' = [txn EXCEPT ![t].at = "insert", ![t].number = Max({0} \cup Taken(txn[t].month)) + 1]
  /\ UNCHANGED <<Desk, form, month, lock, late, edits>>

\* Soft delete u will not cancel an order committed now.
Missed(u) == txn[u].at = "commit" \/ ~txn[u].cancels

CreateCommits(t) ==
  /\ txn[t].op = "create" /\ txn[t].at = "insert"
  /\ orders' = Append(orders, [pair |-> txn[t].pair, state |-> "draft", run |-> "open",
                               month |-> txn[t].month, number |-> txn[t].number,
                               raced |-> txn[t].raced \/ \E u \in Deleting(txn[t].pair) : Missed(u)])
  /\ lock' = lock \ {t}
  /\ txn' = [txn EXCEPT ![t] = Idle]
  /\ UNCHANGED <<deleted, bound, pairs, form, month, late, edits>>

\* An insert fails or the process ends: all of it is rolled back.
CreateFails(t) ==
  /\ txn[t].op = "create"
  /\ lock' = lock \ {t}
  /\ txn' = [txn EXCEPT ![t] = Idle]
  /\ UNCHANGED <<Desk, form, month, late, edits>>

\* The driver, an intake callback or a repair completes the run; no code moves the order on.
Complete(i) ==
  /\ orders[i].run = "open"
  /\ orders' = [orders EXCEPT ![i].run = "completed"]
  /\ UNCHANGED <<deleted, bound, pairs, form, month, lock, txn, late, edits>>

\* The dispatcher's cancel, with its cascade to the run, whatever the run's state.
Cancel(i) ==
  /\ orders[i].state = "draft"
  /\ orders' = [orders EXCEPT ![i].state = "cancelled", ![i].run = "cancelled"]
  /\ UNCHANGED <<deleted, bound, pairs, form, month, lock, txn, late, edits>>

MonthAfter(m) == (m % Months) + 1

NextMonth ==
  /\ Months > 1
  /\ month' = MonthAfter(month)
  /\ UNCHANGED <<Desk, form, lock, txn, late, edits>>

-----------------------------------------------------------------------------
(* Soft delete of a driver or a vehicle *)

\* The driver's operator_id is read first; the row of x is locked until the end.  A row that
\* is deleted already is deleted again.
DeleteStarts(t, x) ==
  /\ txn[t] = Idle
  /\ \A u \in Txns : txn[u].op = "delete" => txn[u].who # x
  /\ Edit
  /\ txn' = [txn EXCEPT ![t] = [op |-> "delete", at |-> "pairs", who |-> x, pairs |-> {},
                                 orders |-> {}, cancels |-> x \in Vehicles \cup bound]]
  /\ UNCHANGED <<Desk, form, month, lock, late>>

DeletePairs(t) ==
  /\ txn[t].op = "delete" /\ txn[t].at = "pairs"
  /\ txn' = [txn EXCEPT ![t].at = "orders", ![t].pairs = {p \in pairs : txn[t].who \in Of(p)}]
  /\ UNCHANGED <<Desk, form, month, lock, late, edits>>

\* Mutant of Cancellable: only orders under way are looked for.
CancellableRunning(o) == o.state = "in_transit"

\* state IN ('draft', 'assigned', 'in_transit')
Cancellable(o) == o.state = "draft"

DeleteOrders(t) ==
  /\ txn[t].op = "delete" /\ txn[t].at = "orders"
  /\ LET mine == {i \in DOMAIN orders : txn[t].who \in Of(orders[i].pair) /\ Cancellable(orders[i])}
     IN  txn' = [txn EXCEPT ![t].at = "commit", ![t].orders = IF txn[t].cancels THEN mine ELSE {}]
  /\ UNCHANGED <<Desk, form, month, lock, late, edits>>

\* The run keeps its state.  A create that has read the pair goes on.
DeleteCommits(t) ==
  /\ txn[t].op = "delete" /\ txn[t].at = "commit"
  /\ deleted' = deleted \cup {txn[t].who}
  /\ pairs' = pairs \ txn[t].pairs
  /\ orders' = [i \in DOMAIN orders |->
       IF i \in txn[t].orders THEN [orders[i] EXCEPT !.state = "cancelled"] ELSE orders[i]]
  /\ txn' = [u \in Txns |->
       IF u = t THEN Idle
       ELSE IF txn[u].op = "create" /\ txn[t].who \in Of(txn[u].pair)
         THEN [txn[u] EXCEPT !.raced = TRUE] ELSE txn[u]]
  /\ UNCHANGED <<bound, form, month, lock, late, edits>>

DeleteFails(t) ==
  /\ txn[t].op = "delete"
  /\ txn' = [txn EXCEPT ![t] = Idle]
  /\ UNCHANGED <<Desk, form, month, lock, late, edits>>

-----------------------------------------------------------------------------
Create(t) ==
  \/ \E f \in Forms : CreateReads(t, f)
  \/ Lock(t) \/ Number(t) \/ CreateCommits(t) \/ CreateFails(t)

Delete(t) ==
  \/ \E x \in Drivers \cup Vehicles : DeleteStarts(t, x)
  \/ DeletePairs(t) \/ DeleteOrders(t) \/ DeleteCommits(t) \/ DeleteFails(t)

Next ==
  \/ \E f \in Forms : OpenForm(f) \/ Assign(f)
  \/ \E t \in Txns : Create(t) \/ Delete(t)
  \/ \E p \in Pairs : Revoke(p)
  \/ \E x \in Drivers \cup Vehicles : Reactivate(x)
  \/ \E i \in DOMAIN orders : Complete(i) \/ Cancel(i)
  \/ NextMonth

Spec == Init /\ [][Next]_vars

-----------------------------------------------------------------------------
(* Properties *)

\* No two orders have the same number, whichever transactions allocated at once and
\* whichever were rolled back: no index of transport_order says so (allocate).
RefsAreDistinct ==
  \A i, j \in DOMAIN orders :
    orders[i].month = orders[j].month /\ orders[i].number = orders[j].number => i = j

\* A soft delete leaves its driver or vehicle neither a pair nor a live order, except those
\* that were committed behind its back (softDelete, deleteVehicle).
DeletedHoldsNothing ==
  \A x \in deleted :
    /\ \A p \in pairs : x \in Of(p) => p \in late
    /\ \A i \in DOMAIN orders :
         x \in Of(orders[i].pair) /\ orders[i].state = "draft" => orders[i].raced
=============================================================================
