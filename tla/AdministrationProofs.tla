-------------------------- MODULE AdministrationProofs --------------------------
(***************************************************************************)
(* Proofs about the three modules of the administration: OrderDesk, for    *)
(* any number of drivers, vehicles, forms, transactions, months, orders    *)
(* and edits; DriverRoster, for any number of records, names, handlers and *)
(* plans; AdminLists, for any number of loads and edits.                   *)
(*                                                                         *)
(* OrderDesk. The number of an order is new because whoever has read the   *)
(* highest one holds the row of order_sequence until its order is          *)
(* committed. A soft delete leaves nothing because what it has not seen is *)
(* known to have come behind its back.                                     *)
(*                                                                         *)
(* DriverRoster. A plan is "started" exactly while one handler executes    *)
(* it, so what it has done is what that handler has; and a create that has *)
(* found no twin has none later, unless it is marked as raced.             *)
(*                                                                         *)
(* AdminLists. Among the loads of one tab that were not overtaken the last *)
(* one sent is the newest.                                                 *)
(***************************************************************************)
EXTENDS OrderDesk, DriverRoster, AdminLists, FiniteSetTheorems, SequenceTheorems, TLAPS

-----------------------------------------------------------------------------
(* What the operators of the model do *)

\* A nonempty set of which every nonempty part of the form {y : y beyond x} shrinks has a last
\* element: Max of a finite set of numbers is in it and bounds it.
LEMMA MaxOfFinite ==
  ASSUME NEW S, S \subseteq Int, IsFiniteSet(S), S # {}
  PROVE  Max(S) \in S /\ \A y \in S : y <= Max(S)
  <1> DEFINE Above(x) == {y \in S : y > x}
             T == {Above(x) : x \in S}
             R == StrictSubsetOrdering(S)
  <1>1. IsWellFoundedOn(R, SUBSET S)
    BY FS_StrictSubsetOrderingWellFounded, FS_FiniteSubsetsOfFinite
  <1>2. T \subseteq SUBSET S /\ T # {}
    OBVIOUS
  <1>3. PICK U \in T : \A V \in T : <<V, U>> \notin R
    <2> HIDE DEF T, R
    <2> QED BY <1>1, <1>2, WFMin
  <1>4. PICK x \in S : U = Above(x)
    OBVIOUS
  <1>5. \A y \in S : y <= x
    <2> SUFFICES ASSUME NEW y \in S, y > x PROVE FALSE
      OBVIOUS
    <2>1. x \in Int /\ y \in Int /\ \A z \in S : z \in Int
      OBVIOUS
    <2>2. Above(y) \subseteq U
      <3>1. \A z \in S : z > y => z > x
        BY <2>1
      <3> QED BY <1>4, <3>1
    <2>3. y \in U /\ y \notin Above(y)
      BY <1>4, <2>1
    <2>4. <<Above(y), U>> \in R
      BY <2>2, <2>3, <1>2, <1>3 DEF StrictSubsetOrdering
    <2> QED BY <2>4, <1>3
  <1> QED BY <1>5 DEF Max

\* allocate: the next number of a month is above every one that is committed.
LEMMA NextNumberIsNew ==
  ASSUME TypeOK, NEW m
  PROVE  /\ Max({0} \cup Taken(m)) + 1 \in Nat
         /\ \A i \in DOMAIN orders :
              orders[i].month = m => orders[i].number < Max({0} \cup Taken(m)) + 1
  <1> DEFINE I == {j \in DOMAIN orders : orders[j].month = m}
             S == {0} \cup Taken(m)
             g == [i \in I |-> orders[i].number]
  <1>1. Len(orders) \in Nat /\ DOMAIN orders = 1 .. Len(orders)
    BY DEF TypeOK
  <1>2. \A i \in DOMAIN orders : orders[i].number \in Nat
    <2>1. \A i \in DOMAIN orders : orders[i] \in Order
      BY <1>1, ElementOfSeq DEF TypeOK
    <2> QED BY <2>1 DEF Order
  <1>3. IsFiniteSet(I)
    <2>1. IsFiniteSet(1 .. Len(orders))
      BY <1>1, FS_Interval
    <2> QED BY <1>1, <2>1, FS_Subset
  <1>4. g \in Surjection(I, Taken(m))
    BY DEF Surjection, Taken
  <1>5. IsFiniteSet(S)
    BY <1>3, <1>4, FS_Surjection, FS_AddElement, FS_Union, FS_Singleton
  <1>6. S \subseteq Nat /\ S \subseteq Int /\ S # {}
    BY <1>2 DEF Taken
  <1>7. Max(S) \in S /\ \A y \in S : y <= Max(S)
    <2> HIDE DEF S
    <2> QED BY <1>5, <1>6, MaxOfFinite
  <1>8. \A i \in I : orders[i].number \in S
    BY DEF Taken
  <1> HIDE DEF S
  <1>9. Max(S) \in Nat
    BY <1>6, <1>7
  <1>10. \A i \in I : orders[i].number < Max(S) + 1
    BY <1>2, <1>7, <1>8, <1>9
  <1> QED BY <1>9, <1>10 DEF S

\* A transaction that is not idle is a create or a soft delete, with the fields of one.
Creates(t) == txn[t].op = "create"
Deletes(t) == txn[t].op = "delete"

CreateTxn == [op : {"create"}, at : {"lock", "number", "insert"}, pair : Pairs,
              month : 1 .. Months, number : Nat, raced : BOOLEAN]
DeleteTxn == [op : {"delete"}, at : {"pairs", "orders", "commit"}, who : Drivers \cup Vehicles,
              pairs : SUBSET Pairs, orders : SUBSET Nat, cancels : BOOLEAN]

LEMMA TxnShapes ==
  ASSUME TypeOK, NEW t \in Txns
  PROVE  /\ TxnStates = {Idle} \cup CreateTxn \cup DeleteTxn
         /\ txn[t] = Idle \/ Creates(t) \/ Deletes(t)
         /\ txn[t] = Idle => ~Creates(t) /\ ~Deletes(t)
         /\ Creates(t) => txn[t] \in CreateTxn
         /\ Deletes(t) => txn[t] \in DeleteTxn
  BY DEF TypeOK, TxnStates, CreateTxn, DeleteTxn, Idle, Creates, Deletes

-----------------------------------------------------------------------------
(* The inductive invariant *)

\* The row of order_sequence is held from the lock to the end of the create, by one at a time.
OneHolder ==
  /\ \A t \in Txns : t \in lock <=> Creates(t) /\ txn[t].at \in {"number", "insert"}
  /\ \A t, u \in lock : t = u

\* The number that a create has read is still above every one of its month.
NumberIsNew ==
  \A t \in Txns : Creates(t) /\ txn[t].at = "insert" =>
    \A i \in DOMAIN orders : orders[i].month = txn[t].month => orders[i].number < txn[t].number

\* Orders are given to drivers that have an operator_id, and no driver loses it.
DriversAreBound ==
  /\ \A i \in DOMAIN orders : orders[i].pair[1] \in bound
  /\ \A t \in Txns : Creates(t) => txn[t].pair[1] \in bound

\* A create knows when its driver or its vehicle is deleted ...
CreateKnows == \A t \in Txns : Creates(t) /\ Of(txn[t].pair) \cap deleted # {} => txn[t].raced

\* ... and a soft delete has seen the pairs and the live orders it leaves, or they came later.
DeleteSeesPairs ==
  \A t \in Txns : Deletes(t) /\ txn[t].at # "pairs" =>
    \A p \in pairs : txn[t].who \in Of(p) => p \in txn[t].pairs \cup late
DeleteSeesOrders ==
  \A t \in Txns : Deletes(t) /\ Missed(t) =>
    \A i \in DOMAIN orders : txn[t].who \in Of(orders[i].pair) /\ orders[i].state = "draft" =>
      i \in txn[t].orders \/ orders[i].raced

OrdersAreListedLast ==
  \A t \in Txns : Deletes(t) /\ txn[t].at # "commit" => txn[t].orders = {}

DeskInv ==
  /\ TypeOK /\ OrdersAreListedLast
  /\ OneHolder /\ NumberIsNew /\ RefsAreDistinct
  /\ DriversAreBound /\ CreateKnows
  /\ DeleteSeesPairs /\ DeleteSeesOrders /\ DeletedHoldsNothing

LEMMA OpenFormKeeps ==
  ASSUME DeskInv, NEW f \in Forms, OpenForm(f)
  PROVE  DeskInv'
  <1> USE DEF DeskInv, Creates, Deletes
  <1>1. form' \in [Forms -> Proposal \cup {Closed}]
    <2>1. Offered \subseteq Pairs
      BY DEF Offered, TypeOK
    <2>2. \A p \in Pairs, x \in {"order", "assignment"} : [for |-> x, pair |-> p] \in Proposal
      BY DEF Proposal
    <2>3. PICK r \in Proposal : form' = [form EXCEPT ![f] = r]
      BY <2>1, <2>2 DEF OpenForm
    <2> QED BY <2>3 DEF TypeOK
  <1>2. UNCHANGED <<deleted, bound, pairs, orders, month, lock, txn, late, edits>>
    BY DEF OpenForm, Desk
  <1>3. TypeOK'
    BY <1>1, <1>2 DEF TypeOK
  <1>4. OrdersAreListedLast'
    BY <1>1, <1>2 DEF OrdersAreListedLast
  <1>5. OneHolder'
    BY <1>1, <1>2 DEF OneHolder
  <1>6. NumberIsNew'
    BY <1>1, <1>2 DEF NumberIsNew, TypeOK
  <1>7. RefsAreDistinct'
    BY <1>1, <1>2 DEF RefsAreDistinct
  <1>8. DriversAreBound'
    BY <1>1, <1>2 DEF DriversAreBound
  <1>9. CreateKnows'
    BY <1>1, <1>2 DEF CreateKnows
  <1>10. DeleteSeesPairs'
    BY <1>1, <1>2 DEF DeleteSeesPairs, TypeOK
  <1>11. DeleteSeesOrders'
    BY <1>1, <1>2 DEF DeleteSeesOrders, OrdersAreListedLast, Missed, TypeOK
  <1>12. DeletedHoldsNothing'
    BY <1>1, <1>2 DEF DeletedHoldsNothing
  <1> QED BY <1>3, <1>4, <1>5, <1>6, <1>7, <1>8, <1>9, <1>10, <1>11, <1>12

LEMMA NextMonthKeeps ==
  ASSUME DeskInv, NextMonth
  PROVE  DeskInv'
  <1> USE DEF DeskInv, Creates, Deletes
  <1>1. month' \in 1 .. Months
    BY DeskAssumption DEF NextMonth, MonthAfter, TypeOK
  <1>2. UNCHANGED <<deleted, bound, pairs, orders, form, lock, txn, late, edits>>
    BY DEF NextMonth, Desk
  <1>3. TypeOK'
    BY <1>1, <1>2 DEF TypeOK
  <1>4. OrdersAreListedLast'
    BY <1>1, <1>2 DEF OrdersAreListedLast
  <1>5. OneHolder'
    BY <1>1, <1>2 DEF OneHolder
  <1>6. NumberIsNew'
    BY <1>1, <1>2 DEF NumberIsNew, TypeOK
  <1>7. RefsAreDistinct'
    BY <1>1, <1>2 DEF RefsAreDistinct
  <1>8. DriversAreBound'
    BY <1>1, <1>2 DEF DriversAreBound
  <1>9. CreateKnows'
    BY <1>1, <1>2 DEF CreateKnows
  <1>10. DeleteSeesPairs'
    BY <1>1, <1>2 DEF DeleteSeesPairs, TypeOK
  <1>11. DeleteSeesOrders'
    BY <1>1, <1>2 DEF DeleteSeesOrders, OrdersAreListedLast, Missed, TypeOK
  <1>12. DeletedHoldsNothing'
    BY <1>1, <1>2 DEF DeletedHoldsNothing
  <1> QED BY <1>3, <1>4, <1>5, <1>6, <1>7, <1>8, <1>9, <1>10, <1>11, <1>12

LEMMA RevokeKeeps ==
  ASSUME DeskInv, NEW p \in Pairs, Revoke(p)
  PROVE  DeskInv'
  <1> USE DEF DeskInv, Creates, Deletes
  <1>1. pairs' \subseteq pairs /\ edits' \in Nat
    BY DEF Revoke, Edit, TypeOK
  <1>2. UNCHANGED <<deleted, bound, orders, form, month, lock, txn, late>>
    BY DEF Revoke, Desk
  <1>3. TypeOK'
    BY <1>1, <1>2 DEF TypeOK
  <1>4. OrdersAreListedLast'
    BY <1>1, <1>2 DEF OrdersAreListedLast
  <1>5. OneHolder'
    BY <1>1, <1>2 DEF OneHolder
  <1>6. NumberIsNew'
    BY <1>1, <1>2 DEF NumberIsNew, TypeOK
  <1>7. RefsAreDistinct'
    BY <1>1, <1>2 DEF RefsAreDistinct
  <1>8. DriversAreBound'
    BY <1>1, <1>2 DEF DriversAreBound
  <1>9. CreateKnows'
    BY <1>1, <1>2 DEF CreateKnows
  <1>10. DeleteSeesPairs'
    BY <1>1, <1>2 DEF DeleteSeesPairs, TypeOK
  <1>11. DeleteSeesOrders'
    BY <1>1, <1>2 DEF DeleteSeesOrders, OrdersAreListedLast, Missed, TypeOK
  <1>12. DeletedHoldsNothing'
    BY <1>1, <1>2 DEF DeletedHoldsNothing
  <1> QED BY <1>3, <1>4, <1>5, <1>6, <1>7, <1>8, <1>9, <1>10, <1>11, <1>12

LEMMA ReactivateKeeps ==
  ASSUME DeskInv, NEW x \in Drivers \cup Vehicles, Reactivate(x)
  PROVE  DeskInv'
  <1> USE DEF DeskInv, Creates, Deletes
  <1>1. deleted' \subseteq deleted /\ edits' \in Nat
    BY DEF Reactivate, Edit, TypeOK
  <1>2. UNCHANGED <<bound, pairs, orders, form, month, lock, txn, late>>
    BY DEF Reactivate, Desk
  <1>3. TypeOK'
    BY <1>1, <1>2 DEF TypeOK
  <1>4. OrdersAreListedLast'
    BY <1>1, <1>2 DEF OrdersAreListedLast
  <1>5. OneHolder'
    BY <1>1, <1>2 DEF OneHolder
  <1>6. NumberIsNew'
    BY <1>1, <1>2 DEF NumberIsNew, TypeOK
  <1>7. RefsAreDistinct'
    BY <1>1, <1>2 DEF RefsAreDistinct
  <1>8. DriversAreBound'
    BY <1>1, <1>2 DEF DriversAreBound
  <1>9. CreateKnows'
    BY <1>1, <1>2 DEF CreateKnows
  <1>10. DeleteSeesPairs'
    BY <1>1, <1>2 DEF DeleteSeesPairs, TypeOK
  <1>11. DeleteSeesOrders'
    BY <1>1, <1>2 DEF DeleteSeesOrders, OrdersAreListedLast, Missed, TypeOK
  <1>12. DeletedHoldsNothing'
    BY <1>1, <1>2 DEF DeletedHoldsNothing
  <1> QED BY <1>3, <1>4, <1>5, <1>6, <1>7, <1>8, <1>9, <1>10, <1>11, <1>12

LEMMA AssignKeeps ==
  ASSUME DeskInv, NEW f \in Forms, Assign(f)
  PROVE  DeskInv'
  <1> USE DEF DeskInv, Creates, Deletes
  <1>1. /\ form[f] \in Proposal /\ form[f].pair \in Pairs
        /\ form' \in [Forms -> Proposal \cup {Closed}]
        /\ edits' \in Nat
    BY DEF Assign, Edit, TypeOK, Closed, Proposal
  <1>2. bound \subseteq bound' /\ bound' \subseteq Drivers
    BY <1>1 DEF Assign, Pairs, TypeOK
  <1>3. \/ pairs' = pairs /\ late' = late
        \/ /\ pairs' = pairs \cup {form[f].pair} /\ form[f].pair \notin pairs
           /\ late' = late \cup {form[f].pair}
        \/ /\ pairs' = pairs \cup {form[f].pair} /\ form[f].pair \notin pairs
           /\ late' = late \ {form[f].pair}
           /\ Of(form[f].pair) \cap deleted = {}
           /\ \A t \in Txns : Deletes(t) /\ txn[t].who \in Of(form[f].pair) => txn[t].at = "pairs"
    BY <1>1 DEF Assign, Clash, Of, Deleting
  <1>4. UNCHANGED <<deleted, orders, month, lock, txn>>
    BY DEF Assign, Desk
  <1>5. TypeOK'
    BY <1>1, <1>2, <1>3, <1>4 DEF TypeOK
  <1>6. OrdersAreListedLast'
    BY <1>1, <1>2, <1>3, <1>4 DEF OrdersAreListedLast
  <1>7. OneHolder'
    BY <1>1, <1>2, <1>3, <1>4 DEF OneHolder
  <1>8. NumberIsNew'
    BY <1>1, <1>2, <1>3, <1>4 DEF NumberIsNew, TypeOK
  <1>9. RefsAreDistinct'
    BY <1>1, <1>2, <1>3, <1>4 DEF RefsAreDistinct
  <1>10. DriversAreBound'
    BY <1>1, <1>2, <1>3, <1>4 DEF DriversAreBound
  <1>11. CreateKnows'
    BY <1>1, <1>2, <1>3, <1>4 DEF CreateKnows
  <1>12. DeleteSeesPairs'
    BY <1>1, <1>2, <1>3, <1>4 DEF DeleteSeesPairs, TypeOK
  <1>13. DeleteSeesOrders'
    BY <1>1, <1>2, <1>3, <1>4 DEF DeleteSeesOrders, OrdersAreListedLast, Missed, TypeOK
  <1>14. DeletedHoldsNothing'
    BY <1>1, <1>2, <1>3, <1>4 DEF DeletedHoldsNothing
  <1> QED BY <1>5, <1>6, <1>7, <1>8, <1>9, <1>10, <1>11, <1>12, <1>13, <1>14

LEMMA CompleteKeeps ==
  ASSUME DeskInv, NEW i \in DOMAIN orders, Complete(i)
  PROVE  DeskInv'
  <1> USE DEF DeskInv, Creates, Deletes
  <1>1. /\ orders' \in Seq(Order) /\ DOMAIN orders' = DOMAIN orders
        /\ \A j \in DOMAIN orders :
             /\ orders'[j].pair = orders[j].pair /\ orders'[j].month = orders[j].month
             /\ orders'[j].number = orders[j].number /\ orders'[j].raced = orders[j].raced
             /\ orders'[j].state = "draft" => orders[j].state = "draft"
    <2>1. orders[i] \in Order /\ [orders[i] EXCEPT !.run = "completed"] \in Order
      <3>1. orders[i] \in Order
        BY ElementOfSeq DEF TypeOK
      <3> QED BY <3>1 DEF Order
    <2>2. orders' = [orders EXCEPT ![i] = [orders[i] EXCEPT !.run = "completed"]]
      BY DEF Complete
    <2>3. orders' \in Seq(Order) /\ DOMAIN orders' = DOMAIN orders
      BY <2>1, <2>2, ExceptSeq DEF TypeOK
    <2> QED BY <2>1, <2>2, <2>3
  <1>2. UNCHANGED <<deleted, bound, pairs, form, month, lock, txn, late, edits>>
    BY DEF Complete, Desk
  <1>3. TypeOK'
    BY <1>1, <1>2 DEF TypeOK
  <1>4. OrdersAreListedLast'
    BY <1>1, <1>2 DEF OrdersAreListedLast
  <1>5. OneHolder'
    BY <1>1, <1>2 DEF OneHolder
  <1>6. NumberIsNew'
    BY <1>1, <1>2 DEF NumberIsNew, TypeOK
  <1>7. RefsAreDistinct'
    BY <1>1, <1>2 DEF RefsAreDistinct
  <1>8. DriversAreBound'
    BY <1>1, <1>2 DEF DriversAreBound
  <1>9. CreateKnows'
    BY <1>1, <1>2 DEF CreateKnows
  <1>10. DeleteSeesPairs'
    BY <1>1, <1>2 DEF DeleteSeesPairs, TypeOK
  <1>11. DeleteSeesOrders'
    BY <1>1, <1>2 DEF DeleteSeesOrders, OrdersAreListedLast, Missed, TypeOK
  <1>12. DeletedHoldsNothing'
    BY <1>1, <1>2 DEF DeletedHoldsNothing
  <1> QED BY <1>3, <1>4, <1>5, <1>6, <1>7, <1>8, <1>9, <1>10, <1>11, <1>12

LEMMA CancelKeeps ==
  ASSUME DeskInv, NEW i \in DOMAIN orders, Cancel(i)
  PROVE  DeskInv'
  <1> USE DEF DeskInv, Creates, Deletes
  <1>1. /\ orders' \in Seq(Order) /\ DOMAIN orders' = DOMAIN orders
        /\ \A j \in DOMAIN orders :
             /\ orders'[j].pair = orders[j].pair /\ orders'[j].month = orders[j].month
             /\ orders'[j].number = orders[j].number /\ orders'[j].raced = orders[j].raced
             /\ orders'[j].state = "draft" => orders[j].state = "draft"
    <2>1. orders[i] \in Order /\ [orders[i] EXCEPT !.state = "cancelled", !.run = "cancelled"] \in Order
      <3>1. orders[i] \in Order
        BY ElementOfSeq DEF TypeOK
      <3> QED BY <3>1 DEF Order
    <2>2. orders' = [orders EXCEPT ![i] = [orders[i] EXCEPT !.state = "cancelled", !.run = "cancelled"]]
      BY DEF Cancel
    <2>3. orders' \in Seq(Order) /\ DOMAIN orders' = DOMAIN orders
      BY <2>1, <2>2, ExceptSeq DEF TypeOK
    <2> QED BY <2>1, <2>2, <2>3
  <1>2. UNCHANGED <<deleted, bound, pairs, form, month, lock, txn, late, edits>>
    BY DEF Cancel, Desk
  <1>3. TypeOK'
    BY <1>1, <1>2 DEF TypeOK
  <1>4. OrdersAreListedLast'
    BY <1>1, <1>2 DEF OrdersAreListedLast
  <1>5. OneHolder'
    BY <1>1, <1>2 DEF OneHolder
  <1>6. NumberIsNew'
    BY <1>1, <1>2 DEF NumberIsNew, TypeOK
  <1>7. RefsAreDistinct'
    BY <1>1, <1>2 DEF RefsAreDistinct
  <1>8. DriversAreBound'
    BY <1>1, <1>2 DEF DriversAreBound
  <1>9. CreateKnows'
    BY <1>1, <1>2 DEF CreateKnows
  <1>10. DeleteSeesPairs'
    BY <1>1, <1>2 DEF DeleteSeesPairs, TypeOK
  <1>11. DeleteSeesOrders'
    BY <1>1, <1>2 DEF DeleteSeesOrders, OrdersAreListedLast, Missed, TypeOK
  <1>12. DeletedHoldsNothing'
    BY <1>1, <1>2 DEF DeletedHoldsNothing
  <1> QED BY <1>3, <1>4, <1>5, <1>6, <1>7, <1>8, <1>9, <1>10, <1>11, <1>12

LEMMA CreateReadsKeeps ==
  ASSUME DeskInv, NEW t \in Txns, NEW f \in Forms, CreateReads(t, f)
  PROVE  DeskInv'
  <1> USE DEF DeskInv, Creates, Deletes
  <1>1. ~Creates(t) /\ ~Deletes(t) /\ form[f] \in Proposal /\ form[f].pair \in Pairs
    BY TxnShapes DEF CreateReads, TypeOK, Closed, Proposal
  <1>2. form' \in [Forms -> Proposal \cup {Closed}]
    BY DEF CreateReads, TypeOK
  <1>3. \/ txn' = txn
        \/ /\ txn' \in [Txns -> TxnStates] /\ \A u \in Txns \ {t} : txn'[u] = txn[u]
           /\ Creates(t)' /\ txn'[t].at = "lock" /\ txn'[t].pair = form[f].pair
           /\ form[f].pair[1] \in bound
           /\ Of(form[f].pair) \cap deleted # {} => txn'[t].raced
    <2> DEFINE v == [op |-> "create", at |-> "lock", pair |-> form[f].pair, month |-> month,
                    number |-> 0, raced |-> Of(form[f].pair) \cap deleted # {}]
    <2>1. v \in TxnStates
      <3>1. month \in 1 .. Months /\ 0 \in Nat
        BY DEF TypeOK
      <3> QED BY <1>1, <3>1 DEF TxnStates
    <2>2. \/ txn' = txn
          \/ txn' = [txn EXCEPT ![t] = v] /\ form[f].pair[1] \in bound
      BY DEF CreateReads
    <2>3. v.op = "create" /\ v.at = "lock" /\ v.pair = form[f].pair /\ v.raced = (Of(form[f].pair) \cap deleted # {})
      OBVIOUS
    <2> HIDE DEF v
    <2> QED BY <2>1, <2>2, <2>3 DEF TypeOK
  <1>4. UNCHANGED <<deleted, bound, pairs, orders, month, lock, late, edits>>
    BY DEF CreateReads, Desk
  <1>5. TypeOK'
    BY <1>1, <1>2, <1>3, <1>4 DEF TypeOK
  <1>6. OrdersAreListedLast'
    BY <1>1, <1>2, <1>3, <1>4 DEF OrdersAreListedLast
  <1>7. OneHolder'
    BY <1>1, <1>2, <1>3, <1>4 DEF OneHolder
  <1>8. NumberIsNew'
    BY <1>1, <1>2, <1>3, <1>4 DEF NumberIsNew, TypeOK
  <1>9. RefsAreDistinct'
    BY <1>1, <1>2, <1>3, <1>4 DEF RefsAreDistinct
  <1>10. DriversAreBound'
    BY <1>1, <1>2, <1>3, <1>4 DEF DriversAreBound
  <1>11. CreateKnows'
    BY <1>1, <1>2, <1>3, <1>4 DEF CreateKnows
  <1>12. DeleteSeesPairs'
    BY <1>1, <1>2, <1>3, <1>4 DEF DeleteSeesPairs, TypeOK
  <1>13. DeleteSeesOrders'
    BY <1>1, <1>2, <1>3, <1>4 DEF DeleteSeesOrders, OrdersAreListedLast, Missed, TypeOK
  <1>14. DeletedHoldsNothing'
    BY <1>1, <1>2, <1>3, <1>4 DEF DeletedHoldsNothing
  <1> QED BY <1>5, <1>6, <1>7, <1>8, <1>9, <1>10, <1>11, <1>12, <1>13, <1>14

LEMMA LockKeeps ==
  ASSUME DeskInv, NEW t \in Txns, Lock(t)
  PROVE  DeskInv'
  <1> USE DEF DeskInv, Creates, Deletes
  <1>1. Creates(t) /\ txn[t].at = "lock" /\ lock = {} /\ lock' = {t}
    BY DEF Lock, LockFree
  <1>2. /\ txn' \in [Txns -> TxnStates] /\ \A u \in Txns \ {t} : txn'[u] = txn[u]
        /\ Creates(t)' /\ txn'[t].pair = txn[t].pair /\ txn'[t].month = txn[t].month
        /\ txn'[t].raced = txn[t].raced /\ txn'[t].at = "number"
    <2> DEFINE v == [txn[t] EXCEPT !.at = "number"]
    <2>1. v \in TxnStates
      BY <1>1, TxnShapes DEF CreateTxn, DeleteTxn
    <2>2. txn' = [txn EXCEPT ![t] = v]
      BY DEF Lock
    <2>3. /\ v.op = "create" /\ v.pair = txn[t].pair /\ v.month = txn[t].month
          /\ v.raced = txn[t].raced /\ v.at = "number"
      BY <1>1
    <2> HIDE DEF v
    <2> QED BY <2>1, <2>2, <2>3 DEF TypeOK
  <1>3. UNCHANGED <<deleted, bound, pairs, orders, form, month, late, edits>>
    BY DEF Lock, Desk
  <1>4. TypeOK'
    BY <1>1, <1>2, <1>3 DEF TypeOK
  <1>5. OrdersAreListedLast'
    BY <1>1, <1>2, <1>3 DEF OrdersAreListedLast
  <1>6. OneHolder'
    BY <1>1, <1>2, <1>3 DEF OneHolder
  <1>7. NumberIsNew'
    BY <1>1, <1>2, <1>3 DEF NumberIsNew, TypeOK
  <1>8. RefsAreDistinct'
    BY <1>1, <1>2, <1>3 DEF RefsAreDistinct
  <1>9. DriversAreBound'
    BY <1>1, <1>2, <1>3 DEF DriversAreBound
  <1>10. CreateKnows'
    BY <1>1, <1>2, <1>3 DEF CreateKnows
  <1>11. DeleteSeesPairs'
    BY <1>1, <1>2, <1>3 DEF DeleteSeesPairs, TypeOK
  <1>12. DeleteSeesOrders'
    BY <1>1, <1>2, <1>3 DEF DeleteSeesOrders, OrdersAreListedLast, Missed, TypeOK
  <1>13. DeletedHoldsNothing'
    BY <1>1, <1>2, <1>3 DEF DeletedHoldsNothing
  <1> QED BY <1>4, <1>5, <1>6, <1>7, <1>8, <1>9, <1>10, <1>11, <1>12, <1>13

LEMMA NumberKeeps ==
  ASSUME DeskInv, NEW t \in Txns, Number(t)
  PROVE  DeskInv'
  <1> USE DEF DeskInv, Creates, Deletes
  <1>1. Creates(t) /\ txn[t].at = "number"
    BY DEF Number
  <1>2. PICK n \in Nat :
               /\ txn' = [txn EXCEPT ![t].at = "insert", ![t].number = n]
               /\ \A i \in DOMAIN orders : orders[i].month = txn[t].month => orders[i].number < n
    BY NextNumberIsNew DEF Number
  <1>3. /\ txn' \in [Txns -> TxnStates] /\ \A u \in Txns \ {t} : txn'[u] = txn[u]
        /\ Creates(t)' /\ txn'[t].pair = txn[t].pair /\ txn'[t].month = txn[t].month
        /\ txn'[t].raced = txn[t].raced /\ txn'[t].at = "insert" /\ txn'[t].number = n
    <2> DEFINE v == [[txn[t] EXCEPT !.at = "insert"] EXCEPT !.number = n]
    <2>1. v \in TxnStates
      <3> DEFINE w == [txn[t] EXCEPT !.at = "insert"]
      <3>1. n \in Nat /\ w \in CreateTxn
        BY <1>1, <1>2, TxnShapes DEF CreateTxn
      <3> HIDE DEF w
      <3>2. [w EXCEPT !.number = n] \in CreateTxn
        BY <3>1 DEF CreateTxn
      <3> QED BY <3>2, TxnShapes DEF w
    <2>2. txn' = [txn EXCEPT ![t] = v]
      BY <1>2 DEF TypeOK
    <2>3. /\ v.op = "create" /\ v.pair = txn[t].pair /\ v.month = txn[t].month
          /\ v.raced = txn[t].raced /\ v.at = "insert" /\ v.number = n
      BY <1>1
    <2> HIDE DEF v
    <2> QED BY <2>1, <2>2, <2>3 DEF TypeOK
  <1>4. UNCHANGED <<deleted, bound, pairs, orders, form, month, lock, late, edits>>
    BY DEF Number, Desk
  <1>5. TypeOK'
    BY <1>1, <1>2, <1>3, <1>4 DEF TypeOK
  <1>6. OrdersAreListedLast'
    BY <1>1, <1>2, <1>3, <1>4 DEF OrdersAreListedLast
  <1>7. OneHolder'
    BY <1>1, <1>2, <1>3, <1>4 DEF OneHolder
  <1>8. NumberIsNew'
    BY <1>1, <1>2, <1>3, <1>4 DEF NumberIsNew, TypeOK
  <1>9. RefsAreDistinct'
    BY <1>1, <1>2, <1>3, <1>4 DEF RefsAreDistinct
  <1>10. DriversAreBound'
    BY <1>1, <1>2, <1>3, <1>4 DEF DriversAreBound
  <1>11. CreateKnows'
    BY <1>1, <1>2, <1>3, <1>4 DEF CreateKnows
  <1>12. DeleteSeesPairs'
    BY <1>1, <1>2, <1>3, <1>4 DEF DeleteSeesPairs, TypeOK
  <1>13. DeleteSeesOrders'
    BY <1>1, <1>2, <1>3, <1>4 DEF DeleteSeesOrders, OrdersAreListedLast, Missed, TypeOK
  <1>14. DeletedHoldsNothing'
    BY <1>1, <1>2, <1>3, <1>4 DEF DeletedHoldsNothing
  <1> QED BY <1>5, <1>6, <1>7, <1>8, <1>9, <1>10, <1>11, <1>12, <1>13, <1>14

LEMMA CreateFailsKeeps ==
  ASSUME DeskInv, NEW t \in Txns, CreateFails(t)
  PROVE  DeskInv'
  <1> USE DEF DeskInv, Creates, Deletes
  <1>1. Creates(t) /\ lock' = lock \ {t}
    BY DEF CreateFails
  <1>2. /\ txn' \in [Txns -> TxnStates] /\ \A u \in Txns \ {t} : txn'[u] = txn[u]
        /\ txn'[t].op = "idle"
    <2> DEFINE v == Idle
    <2>1. v \in TxnStates
      BY DEF TxnStates
    <2>2. txn' = [txn EXCEPT ![t] = v]
      BY DEF CreateFails
    <2>3. /\ v.op = "idle"
      BY DEF Idle
    <2> HIDE DEF v
    <2> QED BY <2>1, <2>2, <2>3 DEF TypeOK
  <1>3. UNCHANGED <<deleted, bound, pairs, orders, form, month, late, edits>>
    BY DEF CreateFails, Desk
  <1>4. TypeOK'
    BY <1>1, <1>2, <1>3 DEF TypeOK
  <1>5. OrdersAreListedLast'
    BY <1>1, <1>2, <1>3 DEF OrdersAreListedLast
  <1>6. OneHolder'
    BY <1>1, <1>2, <1>3 DEF OneHolder
  <1>7. NumberIsNew'
    BY <1>1, <1>2, <1>3 DEF NumberIsNew, TypeOK
  <1>8. RefsAreDistinct'
    BY <1>1, <1>2, <1>3 DEF RefsAreDistinct
  <1>9. DriversAreBound'
    BY <1>1, <1>2, <1>3 DEF DriversAreBound
  <1>10. CreateKnows'
    BY <1>1, <1>2, <1>3 DEF CreateKnows
  <1>11. DeleteSeesPairs'
    BY <1>1, <1>2, <1>3 DEF DeleteSeesPairs, TypeOK
  <1>12. DeleteSeesOrders'
    BY <1>1, <1>2, <1>3 DEF DeleteSeesOrders, OrdersAreListedLast, Missed, TypeOK
  <1>13. DeletedHoldsNothing'
    BY <1>1, <1>2, <1>3 DEF DeletedHoldsNothing
  <1> QED BY <1>4, <1>5, <1>6, <1>7, <1>8, <1>9, <1>10, <1>11, <1>12, <1>13

LEMMA DeleteFailsKeeps ==
  ASSUME DeskInv, NEW t \in Txns, DeleteFails(t)
  PROVE  DeskInv'
  <1> USE DEF DeskInv, Creates, Deletes
  <1>1. Deletes(t)
    BY DEF DeleteFails
  <1>2. /\ txn' \in [Txns -> TxnStates] /\ \A u \in Txns \ {t} : txn'[u] = txn[u]
        /\ txn'[t].op = "idle"
    <2> DEFINE v == Idle
    <2>1. v \in TxnStates
      BY DEF TxnStates
    <2>2. txn' = [txn EXCEPT ![t] = v]
      BY DEF DeleteFails
    <2>3. /\ v.op = "idle"
      BY DEF Idle
    <2> HIDE DEF v
    <2> QED BY <2>1, <2>2, <2>3 DEF TypeOK
  <1>3. UNCHANGED <<deleted, bound, pairs, orders, form, month, lock, late, edits>>
    BY DEF DeleteFails, Desk
  <1>4. TypeOK'
    BY <1>1, <1>2, <1>3 DEF TypeOK
  <1>5. OrdersAreListedLast'
    BY <1>1, <1>2, <1>3 DEF OrdersAreListedLast
  <1>6. OneHolder'
    BY <1>1, <1>2, <1>3 DEF OneHolder
  <1>7. NumberIsNew'
    BY <1>1, <1>2, <1>3 DEF NumberIsNew, TypeOK
  <1>8. RefsAreDistinct'
    BY <1>1, <1>2, <1>3 DEF RefsAreDistinct
  <1>9. DriversAreBound'
    BY <1>1, <1>2, <1>3 DEF DriversAreBound
  <1>10. CreateKnows'
    BY <1>1, <1>2, <1>3 DEF CreateKnows
  <1>11. DeleteSeesPairs'
    BY <1>1, <1>2, <1>3 DEF DeleteSeesPairs, TypeOK
  <1>12. DeleteSeesOrders'
    BY <1>1, <1>2, <1>3 DEF DeleteSeesOrders, OrdersAreListedLast, Missed, TypeOK
  <1>13. DeletedHoldsNothing'
    BY <1>1, <1>2, <1>3 DEF DeletedHoldsNothing
  <1> QED BY <1>4, <1>5, <1>6, <1>7, <1>8, <1>9, <1>10, <1>11, <1>12, <1>13

LEMMA DeleteStartsKeeps ==
  ASSUME DeskInv, NEW t \in Txns, NEW x \in Drivers \cup Vehicles, DeleteStarts(t, x)
  PROVE  DeskInv'
  <1> USE DEF DeskInv, Creates, Deletes
  <1>1. ~Creates(t) /\ ~Deletes(t) /\ edits' \in Nat
    BY TxnShapes DEF DeleteStarts, Edit, TypeOK
  <1>2. /\ txn' \in [Txns -> TxnStates] /\ \A u \in Txns \ {t} : txn'[u] = txn[u]
        /\ Deletes(t)' /\ txn'[t].at = "pairs" /\ txn'[t].who = x /\ txn'[t].orders = {}
        /\ txn'[t].cancels = (x \in Vehicles \cup bound)
    <2> DEFINE v == [op |-> "delete", at |-> "pairs", who |-> x, pairs |-> {}, orders |-> {},
                    cancels |-> x \in Vehicles \cup bound]
    <2>1. v \in TxnStates
      BY DEF TxnStates
    <2>2. txn' = [txn EXCEPT ![t] = v]
      BY DEF DeleteStarts
    <2>3. /\ v.op = "delete" /\ v.at = "pairs" /\ v.who = x /\ v.orders = {}
        /\ v.cancels = (x \in Vehicles \cup bound)
      BY <1>1
    <2> HIDE DEF v
    <2> QED BY <2>1, <2>2, <2>3 DEF TypeOK
  <1>3. UNCHANGED <<deleted, bound, pairs, orders, form, month, lock, late>>
    BY DEF DeleteStarts, Desk
  <1>4. x \notin Vehicles \cup bound => \A i \in DOMAIN orders : x \notin Of(orders[i].pair)
    <2>1. \A i \in DOMAIN orders : orders[i].pair \in Drivers \X Vehicles
      <3>1. \A i \in DOMAIN orders : orders[i] \in Order
        BY ElementOfSeq DEF TypeOK
      <3> QED BY <3>1 DEF Order, Pairs
    <2> QED BY <2>1 DEF DriversAreBound, Of
  <1>5. TypeOK'
    BY <1>1, <1>2, <1>3, <1>4 DEF TypeOK
  <1>6. OrdersAreListedLast'
    BY <1>1, <1>2, <1>3, <1>4 DEF OrdersAreListedLast
  <1>7. OneHolder'
    BY <1>1, <1>2, <1>3, <1>4 DEF OneHolder
  <1>8. NumberIsNew'
    BY <1>1, <1>2, <1>3, <1>4 DEF NumberIsNew, TypeOK
  <1>9. RefsAreDistinct'
    BY <1>1, <1>2, <1>3, <1>4 DEF RefsAreDistinct
  <1>10. DriversAreBound'
    BY <1>1, <1>2, <1>3, <1>4 DEF DriversAreBound
  <1>11. CreateKnows'
    BY <1>1, <1>2, <1>3, <1>4 DEF CreateKnows
  <1>12. DeleteSeesPairs'
    BY <1>1, <1>2, <1>3, <1>4 DEF DeleteSeesPairs, TypeOK
  <1>13. DeleteSeesOrders'
    BY <1>1, <1>2, <1>3, <1>4 DEF DeleteSeesOrders, OrdersAreListedLast, Missed, TypeOK
  <1>14. DeletedHoldsNothing'
    BY <1>1, <1>2, <1>3, <1>4 DEF DeletedHoldsNothing
  <1> QED BY <1>5, <1>6, <1>7, <1>8, <1>9, <1>10, <1>11, <1>12, <1>13, <1>14

LEMMA DeletePairsKeeps ==
  ASSUME DeskInv, NEW t \in Txns, DeletePairs(t)
  PROVE  DeskInv'
  <1> USE DEF DeskInv, Creates, Deletes
  <1>1. Deletes(t) /\ txn[t].at = "pairs"
    BY DEF DeletePairs
  <1>2. /\ txn' \in [Txns -> TxnStates] /\ \A u \in Txns \ {t} : txn'[u] = txn[u]
        /\ Deletes(t)' /\ txn'[t].who = txn[t].who /\ txn'[t].cancels = txn[t].cancels
        /\ txn'[t].at = "orders" /\ txn'[t].orders = txn[t].orders
        /\ txn'[t].pairs = {p \in pairs : txn[t].who \in Of(p)}
    <2> DEFINE v == [[txn[t] EXCEPT !.at = "orders"] EXCEPT !.pairs = {p \in pairs : txn[t].who \in Of(p)}]
    <2>1. v \in TxnStates
      BY <1>1, TxnShapes DEF CreateTxn, DeleteTxn, TypeOK
    <2>2. txn' = [txn EXCEPT ![t] = v]
      BY DEF DeletePairs
    <2>3. /\ v.op = "delete" /\ v.who = txn[t].who /\ v.cancels = txn[t].cancels
          /\ v.at = "orders" /\ v.orders = txn[t].orders
        /\ v.pairs = {p \in pairs : txn[t].who \in Of(p)}
      BY <1>1
    <2> HIDE DEF v
    <2> QED BY <2>1, <2>2, <2>3 DEF TypeOK
  <1>3. UNCHANGED <<deleted, bound, pairs, orders, form, month, lock, late, edits>>
    BY DEF DeletePairs, Desk
  <1>4. TypeOK'
    BY <1>1, <1>2, <1>3 DEF TypeOK
  <1>5. OrdersAreListedLast'
    BY <1>1, <1>2, <1>3 DEF OrdersAreListedLast
  <1>6. OneHolder'
    BY <1>1, <1>2, <1>3 DEF OneHolder
  <1>7. NumberIsNew'
    BY <1>1, <1>2, <1>3 DEF NumberIsNew, TypeOK
  <1>8. RefsAreDistinct'
    BY <1>1, <1>2, <1>3 DEF RefsAreDistinct
  <1>9. DriversAreBound'
    BY <1>1, <1>2, <1>3 DEF DriversAreBound
  <1>10. CreateKnows'
    BY <1>1, <1>2, <1>3 DEF CreateKnows
  <1>11. DeleteSeesPairs'
    BY <1>1, <1>2, <1>3 DEF DeleteSeesPairs, TypeOK
  <1>12. DeleteSeesOrders'
    BY <1>1, <1>2, <1>3 DEF DeleteSeesOrders, OrdersAreListedLast, Missed, TypeOK
  <1>13. DeletedHoldsNothing'
    BY <1>1, <1>2, <1>3 DEF DeletedHoldsNothing
  <1> QED BY <1>4, <1>5, <1>6, <1>7, <1>8, <1>9, <1>10, <1>11, <1>12, <1>13

LEMMA DeleteOrdersKeeps ==
  ASSUME DeskInv, NEW t \in Txns, DeleteOrders(t)
  PROVE  DeskInv'
  <1> USE DEF DeskInv, Creates, Deletes
  <1>1. Deletes(t) /\ txn[t].at = "orders"
    BY DEF DeleteOrders
  <1>2. PICK mine :
               /\ mine \subseteq DOMAIN orders
               /\ txn' = [txn EXCEPT ![t].at = "commit", ![t].orders = mine]
               /\ txn[t].cancels => \A i \in DOMAIN orders :
                    txn[t].who \in Of(orders[i].pair) /\ orders[i].state = "draft" => i \in mine
    BY DEF DeleteOrders, Cancellable
  <1>3. mine \subseteq Nat
    BY <1>2 DEF TypeOK
  <1>4. /\ txn' \in [Txns -> TxnStates] /\ \A u \in Txns \ {t} : txn'[u] = txn[u]
        /\ Deletes(t)' /\ txn'[t].who = txn[t].who /\ txn'[t].cancels = txn[t].cancels
        /\ txn'[t].at = "commit" /\ txn'[t].pairs = txn[t].pairs /\ txn'[t].orders = mine
    <2> DEFINE v == [[txn[t] EXCEPT !.at = "commit"] EXCEPT !.orders = mine]
    <2>1. v \in TxnStates
      BY <1>1, <1>3, TxnShapes DEF CreateTxn, DeleteTxn, TypeOK
    <2>2. txn' = [txn EXCEPT ![t] = v]
      BY <1>2 DEF TypeOK
    <2>3. /\ v.op = "delete" /\ v.who = txn[t].who /\ v.cancels = txn[t].cancels
          /\ v.at = "commit" /\ v.pairs = txn[t].pairs /\ v.orders = mine
      BY <1>1
    <2> HIDE DEF v
    <2> QED BY <2>1, <2>2, <2>3 DEF TypeOK
  <1>5. UNCHANGED <<deleted, bound, pairs, orders, form, month, lock, late, edits>>
    BY DEF DeleteOrders, Desk
  <1>6. TypeOK'
    BY <1>1, <1>2, <1>3, <1>4, <1>5 DEF TypeOK
  <1>7. OrdersAreListedLast'
    BY <1>1, <1>2, <1>3, <1>4, <1>5 DEF OrdersAreListedLast
  <1>8. OneHolder'
    BY <1>1, <1>2, <1>3, <1>4, <1>5 DEF OneHolder
  <1>9. NumberIsNew'
    BY <1>1, <1>2, <1>3, <1>4, <1>5 DEF NumberIsNew, TypeOK
  <1>10. RefsAreDistinct'
    BY <1>1, <1>2, <1>3, <1>4, <1>5 DEF RefsAreDistinct
  <1>11. DriversAreBound'
    BY <1>1, <1>2, <1>3, <1>4, <1>5 DEF DriversAreBound
  <1>12. CreateKnows'
    BY <1>1, <1>2, <1>3, <1>4, <1>5 DEF CreateKnows
  <1>13. DeleteSeesPairs'
    BY <1>1, <1>2, <1>3, <1>4, <1>5 DEF DeleteSeesPairs, TypeOK
  <1>14. DeleteSeesOrders'
    BY <1>1, <1>2, <1>3, <1>4, <1>5 DEF DeleteSeesOrders, OrdersAreListedLast, Missed, TypeOK
  <1>15. DeletedHoldsNothing'
    BY <1>1, <1>2, <1>3, <1>4, <1>5 DEF DeletedHoldsNothing
  <1> QED BY <1>6, <1>7, <1>8, <1>9, <1>10, <1>11, <1>12, <1>13, <1>14, <1>15

LEMMA CreateCommitsKeeps ==
  ASSUME DeskInv, NEW t \in Txns, CreateCommits(t)
  PROVE  DeskInv'
  <1> USE DEF DeskInv, Creates, Deletes
  <1>1. Creates(t) /\ txn[t].at = "insert" /\ lock' = lock \ {t} /\ txn[t] \in CreateTxn
    BY TxnShapes DEF CreateCommits
  <1>2. PICK o \in Order, n \in Nat :
               /\ n \notin DOMAIN orders /\ DOMAIN orders' = DOMAIN orders \cup {n}
               /\ orders' \in Seq(Order) /\ orders'[n] = o
               /\ \A i \in DOMAIN orders : orders'[i] = orders[i]
               /\ o.pair = txn[t].pair /\ o.month = txn[t].month /\ o.number = txn[t].number
               /\ o.raced = (txn[t].raced \/ \E u \in Deleting(txn[t].pair) : Missed(u))
    <2> DEFINE o == [pair |-> txn[t].pair, state |-> "draft", run |-> "open",
                    month |-> txn[t].month, number |-> txn[t].number,
                    raced |-> txn[t].raced \/ \E u \in Deleting(txn[t].pair) : Missed(u)]
               n == Len(orders) + 1
    <2>1. o \in Order
      BY <1>1 DEF CreateTxn, Order
    <2>2. orders \in Seq(Order) /\ orders' = Append(orders, o)
      BY DEF CreateCommits, TypeOK
    <2>3. /\ o.pair = txn[t].pair /\ o.month = txn[t].month /\ o.number = txn[t].number
          /\ o.raced = (txn[t].raced \/ \E u \in Deleting(txn[t].pair) : Missed(u))
      OBVIOUS
    <2> HIDE DEF o
    <2>4. /\ orders' \in Seq(Order) /\ Len(orders') = n /\ orders'[n] = o
          /\ \A i \in 1 .. Len(orders) : orders'[i] = orders[i]
      BY <2>1, <2>2, AppendProperties
    <2>5. /\ Len(orders) \in Nat /\ DOMAIN orders = 1 .. Len(orders)
          /\ DOMAIN orders' = 1 .. Len(orders')
      BY <2>2, <2>4, LenProperties
    <2>6. n \in Nat /\ n \notin DOMAIN orders /\ DOMAIN orders' = DOMAIN orders \cup {n}
      BY <2>4, <2>5
    <2> QED BY <2>1, <2>3, <2>4, <2>5, <2>6
  <1>3. /\ txn' \in [Txns -> TxnStates] /\ \A u \in Txns \ {t} : txn'[u] = txn[u]
        /\ txn'[t].op = "idle"
    <2> DEFINE v == Idle
    <2>1. v \in TxnStates
      BY DEF TxnStates
    <2>2. txn' = [txn EXCEPT ![t] = v]
      BY DEF CreateCommits
    <2>3. /\ v.op = "idle"
      BY DEF Idle
    <2> HIDE DEF v
    <2> QED BY <2>1, <2>2, <2>3 DEF TypeOK
  <1>4. \A i \in DOMAIN orders : orders[i].month = txn[t].month => orders[i].number # txn[t].number
    <2>1. \A i \in DOMAIN orders : orders[i].number \in Nat
      <3>1. \A i \in DOMAIN orders : orders[i] \in Order
        BY ElementOfSeq DEF TypeOK
      <3> QED BY <3>1 DEF Order
    <2> QED BY <1>1, <2>1 DEF NumberIsNew, CreateTxn
  <1>5. \A u \in Txns \ {t} : ~(Creates(u) /\ txn[u].at = "insert")
    BY <1>1 DEF OneHolder
  <1>6. UNCHANGED <<deleted, bound, pairs, form, month, late, edits>>
    BY DEF CreateCommits, Desk
  <1>7. TypeOK'
    BY <1>1, <1>2, <1>3, <1>4, <1>5, <1>6 DEF TypeOK
  <1>8. OrdersAreListedLast'
    BY <1>1, <1>2, <1>3, <1>4, <1>5, <1>6 DEF OrdersAreListedLast
  <1>9. OneHolder'
    BY <1>1, <1>2, <1>3, <1>4, <1>5, <1>6 DEF OneHolder
  <1>10. NumberIsNew'
    BY <1>1, <1>2, <1>3, <1>4, <1>5, <1>6 DEF NumberIsNew, TypeOK
  <1>11. RefsAreDistinct'
    BY <1>1, <1>2, <1>3, <1>4, <1>5, <1>6 DEF RefsAreDistinct
  <1>12. DriversAreBound'
    BY <1>1, <1>2, <1>3, <1>4, <1>5, <1>6 DEF DriversAreBound
  <1>13. CreateKnows'
    BY <1>1, <1>2, <1>3, <1>4, <1>5, <1>6 DEF CreateKnows
  <1>14. DeleteSeesPairs'
    BY <1>1, <1>2, <1>3, <1>4, <1>5, <1>6 DEF DeleteSeesPairs, TypeOK
  <1>15. DeleteSeesOrders'
    <2> SUFFICES ASSUME NEW u \in Txns, Deletes(u)', Missed(u)', NEW i \in DOMAIN orders',
                        txn'[u].who \in Of(orders'[i].pair), orders'[i].state = "draft"
                 PROVE  i \in txn'[u].orders \/ orders'[i].raced
      BY DEF DeleteSeesOrders
    <2>1. u # t /\ txn'[u] = txn[u] /\ Deletes(u) /\ Missed(u)
      BY <1>3 DEF Missed
    <2>2. CASE i = n
      BY <1>2, <2>1, <2>2 DEF Deleting
    <2>3. CASE i \in DOMAIN orders
      BY <1>2, <2>1, <2>3 DEF DeleteSeesOrders
    <2> QED BY <1>2, <2>2, <2>3
  <1>16. DeletedHoldsNothing'
    BY <1>1, <1>2, <1>6 DEF DeletedHoldsNothing, CreateKnows, Of
  <1> QED BY <1>7, <1>8, <1>9, <1>10, <1>11, <1>12, <1>13, <1>14, <1>15, <1>16

LEMMA DeleteCommitsKeeps ==
  ASSUME DeskInv, NEW t \in Txns, DeleteCommits(t)
  PROVE  DeskInv'
  <1> USE DEF DeskInv, Creates, Deletes
  <1>1. Deletes(t) /\ txn[t].at = "commit" /\ txn[t] \in DeleteTxn
    BY TxnShapes DEF DeleteCommits
  <1>2. /\ deleted' = deleted \cup {txn[t].who} /\ txn[t].who \in Drivers \cup Vehicles
        /\ pairs' = pairs \ txn[t].pairs
    BY <1>1 DEF DeleteCommits, DeleteTxn
  <1>3. /\ orders' \in Seq(Order) /\ DOMAIN orders' = DOMAIN orders
        /\ \A j \in DOMAIN orders :
             /\ orders'[j].pair = orders[j].pair /\ orders'[j].month = orders[j].month
             /\ orders'[j].number = orders[j].number /\ orders'[j].raced = orders[j].raced
             /\ orders'[j].state = "draft" => orders[j].state = "draft"
             /\ j \in txn[t].orders => orders'[j].state # "draft"
    <2>1. \A j \in DOMAIN orders : orders[j] \in Order
      BY ElementOfSeq DEF TypeOK
    <2>2. \A j \in DOMAIN orders : [orders[j] EXCEPT !.state = "cancelled"] \in Order
      BY <2>1 DEF Order
    <2>3. /\ DOMAIN orders' = DOMAIN orders
          /\ \A j \in DOMAIN orders : orders'[j] =
               IF j \in txn[t].orders THEN [orders[j] EXCEPT !.state = "cancelled"] ELSE orders[j]
      BY DEF DeleteCommits
    <2>4. orders' \in Seq(Order)
      <3>1. orders' \in [1 .. Len(orders) -> Order] /\ Len(orders) \in Nat
        BY <2>1, <2>2, LenProperties DEF DeleteCommits, TypeOK
      <3> QED BY <3>1, SeqDef
    <2> QED BY <2>1, <2>3, <2>4 DEF Order
  <1>4. /\ txn' \in [Txns -> TxnStates] /\ txn'[t].op = "idle"
        /\ \A u \in Txns \ {t} :
             /\ txn'[u].op = txn[u].op
             /\ Deletes(u) => txn'[u] = txn[u]
             /\ Creates(u) =>
                  /\ txn'[u].at = txn[u].at /\ txn'[u].pair = txn[u].pair
                  /\ txn'[u].month = txn[u].month /\ txn'[u].number = txn[u].number
                  /\ txn[u].raced \/ txn[t].who \in Of(txn[u].pair) => txn'[u].raced
    <2>1. \A u \in Txns : Creates(u) => [txn[u] EXCEPT !.raced = TRUE] \in CreateTxn
      BY TxnShapes DEF CreateTxn
    <2>2. \A u \in Txns : Creates(u) => txn[u] \in CreateTxn
      BY TxnShapes
    <2>3. \A u \in Txns : txn'[u] =
            IF u = t THEN Idle
            ELSE IF Creates(u) /\ txn[t].who \in Of(txn[u].pair)
              THEN [txn[u] EXCEPT !.raced = TRUE] ELSE txn[u]
      BY DEF DeleteCommits
    <2>4. txn' \in [Txns -> TxnStates]
      <3>1. \A u \in Txns : txn'[u] \in TxnStates
        BY <2>1, <2>3, TxnShapes DEF TypeOK
      <3>2. txn' = [u \in Txns |-> txn'[u]]
        BY DEF DeleteCommits
      <3> QED BY <3>1, <3>2
    <2> QED BY <2>2, <2>3, <2>4 DEF Idle, CreateTxn
  <1>5. UNCHANGED <<bound, form, month, lock, late, edits>>
    BY DEF DeleteCommits, Desk
  <1>6. TypeOK'
    BY <1>1, <1>2, <1>3, <1>4, <1>5 DEF TypeOK
  <1>7. OrdersAreListedLast'
    BY <1>1, <1>2, <1>3, <1>4, <1>5 DEF OrdersAreListedLast
  <1>8. OneHolder'
    BY <1>1, <1>2, <1>3, <1>4, <1>5 DEF OneHolder
  <1>9. NumberIsNew'
    <2> SUFFICES ASSUME NEW u \in Txns, Creates(u)', txn'[u].at = "insert",
                        NEW i \in DOMAIN orders, orders'[i].month = txn'[u].month
                 PROVE  orders'[i].number < txn'[u].number
      BY <1>3 DEF NumberIsNew
    <2>1. /\ Creates(u) /\ txn[u].at = "insert"
          /\ txn'[u].month = txn[u].month /\ txn'[u].number = txn[u].number
      BY <1>4
    <2> QED BY <2>1, <1>3 DEF NumberIsNew
  <1>10. RefsAreDistinct'
    BY <1>1, <1>2, <1>3, <1>4, <1>5 DEF RefsAreDistinct
  <1>11. DriversAreBound'
    BY <1>1, <1>2, <1>3, <1>4, <1>5 DEF DriversAreBound
  <1>12. CreateKnows'
    BY <1>1, <1>2, <1>3, <1>4, <1>5 DEF CreateKnows
  <1>13. DeleteSeesPairs'
    BY <1>1, <1>2, <1>3, <1>4, <1>5 DEF DeleteSeesPairs, TypeOK
  <1>14. DeleteSeesOrders'
    BY <1>1, <1>2, <1>3, <1>4, <1>5 DEF DeleteSeesOrders, OrdersAreListedLast, Missed, TypeOK
  <1>15. DeletedHoldsNothing'
    BY <1>1, <1>2, <1>3, <1>5 DEF DeletedHoldsNothing, DeleteSeesPairs, DeleteSeesOrders, Missed
  <1> QED BY <1>6, <1>7, <1>8, <1>9, <1>10, <1>11, <1>12, <1>13, <1>14, <1>15

-----------------------------------------------------------------------------
(* What follows from the invariant *)

LEMMA InitDeskInv == Init => DeskInv
  <1> SUFFICES ASSUME Init PROVE DeskInv
    OBVIOUS
  <1>1. TypeOK
    BY DeskAssumption, EmptySeq DEF Init, TypeOK, TxnStates
  <1>2. \A t \in Txns : ~Creates(t) /\ ~Deletes(t)
    BY DEF Init, Idle, Creates, Deletes
  <1>3. orders = <<>> /\ DOMAIN orders = {} /\ deleted = {} /\ lock = {}
    BY DEF Init
  <1>4. OrdersAreListedLast /\ OneHolder /\ NumberIsNew /\ RefsAreDistinct
    BY <1>2, <1>3 DEF OrdersAreListedLast, OneHolder, NumberIsNew, RefsAreDistinct
  <1>5. DriversAreBound /\ CreateKnows /\ DeleteSeesPairs /\ DeleteSeesOrders /\ DeletedHoldsNothing
    BY <1>2, <1>3 DEF DriversAreBound, CreateKnows, DeleteSeesPairs, DeleteSeesOrders,
       DeletedHoldsNothing
  <1> QED BY <1>1, <1>4, <1>5 DEF DeskInv

LEMMA StepDeskInv == DeskInv /\ [Next]_vars => DeskInv'
  <1> SUFFICES ASSUME DeskInv, [Next]_vars PROVE DeskInv'
    OBVIOUS
  <1>1. ASSUME NEW f \in Forms, OpenForm(f) \/ Assign(f) PROVE DeskInv'
    BY <1>1, OpenFormKeeps, AssignKeeps
  <1>2. ASSUME NEW t \in Txns, Create(t) PROVE DeskInv'
    BY <1>2, CreateReadsKeeps, LockKeeps, NumberKeeps, CreateCommitsKeeps, CreateFailsKeeps
       DEF Create
  <1>3. ASSUME NEW t \in Txns, Delete(t) PROVE DeskInv'
    BY <1>3, DeleteStartsKeeps, DeletePairsKeeps, DeleteOrdersKeeps, DeleteCommitsKeeps,
       DeleteFailsKeeps DEF Delete
  <1>4. ASSUME NEW p \in Pairs, Revoke(p) PROVE DeskInv'
    BY <1>4, RevokeKeeps
  <1>5. ASSUME NEW x \in Drivers \cup Vehicles, Reactivate(x) PROVE DeskInv'
    BY <1>5, ReactivateKeeps
  <1>6. ASSUME NEW i \in DOMAIN orders, Complete(i) \/ Cancel(i) PROVE DeskInv'
    BY <1>6, CompleteKeeps, CancelKeeps
  <1>7. CASE NextMonth
    BY <1>7, NextMonthKeeps
  <1>8. CASE UNCHANGED vars
    BY <1>8 DEF vars, Desk, DeskInv, TypeOK, OrdersAreListedLast, OneHolder, NumberIsNew,
       RefsAreDistinct, DriversAreBound, CreateKnows, DeleteSeesPairs, DeleteSeesOrders, Missed,
       DeletedHoldsNothing, Creates, Deletes
  <1> QED BY <1>1, <1>2, <1>3, <1>4, <1>5, <1>6, <1>7, <1>8 DEF Next

\* Every reachable state of the desk satisfies the invariant: the sequence has one holder, and
\* a create and a soft delete know of each other what they missed.
THEOREM DeskInvariance == Spec => []DeskInv
  <1>1. Init => DeskInv
    BY InitDeskInv
  <1>2. DeskInv /\ [Next]_vars => DeskInv'
    BY StepDeskInv
  <1> QED BY <1>1, <1>2, PTL DEF Spec

\* No two orders of a company get the same number of a month, however many dispatchers create
\* at once and whichever transactions are rolled back: the lock is held up to the commit.
THEOREM OrdersHaveTheirOwnNumber == Spec => []RefsAreDistinct
  <1>1. DeskInv => RefsAreDistinct
    BY DEF DeskInv
  <1> QED BY <1>1, DeskInvariance, PTL

\* A soft delete leaves neither a pair nor a live order of its driver or vehicle, except what
\* was committed behind its back, whatever assignments, creates and deletes run beside it.
THEOREM DeletesLeaveNothing == Spec => []DeletedHoldsNothing
  <1>1. DeskInv => DeletedHoldsNothing
    BY DEF DeskInv
  <1> QED BY <1>1, DeskInvariance, PTL

-----------------------------------------------------------------------------
(* The drivers and the plans of DriverRoster, beside the desk *)

\* A handler at work on plan p, and one that is creating a driver.
Works(h, p) == job[h] # NoJob /\ job[h].plan = p
Enters(h) == job[h].at \in {"name", "phone", "revive", "insert"}

\* A job is idle, a create or the rest of a plan.
LEMMA JobShapes ==
  ASSUME RosterTypeOK, NEW h \in Handlers
  PROVE  /\ job[h] = NoJob \/ job[h] \in Creating \/ job[h] \in Executing
         /\ job[h] = NoJob => job[h].at = "idle"
         /\ Enters(h) <=> job[h] \in Creating
         /\ job[h].at \in {"assign", "done", "failed"} <=> job[h] \in Executing
  BY DEF RosterTypeOK, NoJob, Creating, Executing, Enters

\* A plan that is being carried out was claimed, by one handler ...
OneExecutor ==
  \A p \in Plans : \A h, k \in Handlers :
    Works(h, p) => ledger[p] = "started" /\ (Works(k, p) => h = k)

\* ... and its effects are those of the commands that are behind it.
EffectsAreSteps ==
  \A p \in Plans, h \in Handlers : Works(h, p) =>
    /\ effects[p].created = 0 => effects[p].assigned = 0
    /\ Enters(h) => effects[p].created = 0
    /\ job[h].at = "assign" => effects[p].created = 1 /\ effects[p].assigned = 0
    /\ job[h].at = "done" => effects[p].created = 1 /\ effects[p].assigned = 1
    /\ job[h].at = "failed" => effects[p].assigned = 0

\* A create that was not raced has seen that no soft-deleted row has its name, or its phone.
LooksAreTrue ==
  \A h \in Handlers : Enters(h) /\ ~job[h].raced =>
    \A d \in Deleted :
      /\ job[h].at \in {"phone", "insert"} => driver[d].name # job[h].name
      /\ job[h].at = "insert" => driver[d].phone # job[h].phone

\* The row to revive, or to give a vehicle to, is there.
RowsAreThere == \A h \in Handlers : job[h].at \in {"revive", "assign"} => job[h].row \in Records

RosterInv ==
  /\ RosterTypeOK /\ RowsAreThere
  /\ OneExecutor /\ EffectsAreSteps /\ PlanTakesEffectOnce
  /\ LooksAreTrue

\* Only the job of handler h changes.
JobStates == {NoJob} \cup Creating \cup Executing
OnlyJob(h) == job' \in [Handlers -> JobStates] /\ \A k \in Handlers \ {h} : job'[k] = job[k]

LEMMA JobMoves ==
  ASSUME RosterTypeOK, NEW h \in Handlers, NEW v \in JobStates, job' = [job EXCEPT ![h] = v]
  PROVE  OnlyJob(h) /\ job'[h] = v
  BY DEF RosterTypeOK, OnlyJob, JobStates

\* A create under way that may have missed a row is marked, and goes on as it was.
LEMMA RaceMarks ==
  ASSUME RosterTypeOK, NEW r, job' = Race(r)
  PROVE  /\ job' \in [Handlers -> JobStates]
         /\ \A k \in Handlers :
              \/ job'[k] = job[k] /\ (Enters(k) => job[k].name # r.name /\ job[k].phone # r.phone)
              \/ /\ Enters(k) /\ Enters(k)' /\ job'[k] # NoJob /\ job[k] # NoJob /\ job'[k].raced
                 /\ job'[k].at = job[k].at /\ job'[k].plan = job[k].plan /\ job'[k].row = job[k].row
  <1>1. \A k \in Handlers : job[k] \in Creating =>
          /\ [job[k] EXCEPT !.raced = TRUE] \in Creating
          /\ [job[k] EXCEPT !.raced = TRUE].raced
          /\ [job[k] EXCEPT !.raced = TRUE].at = job[k].at
          /\ [job[k] EXCEPT !.raced = TRUE].plan = job[k].plan
          /\ [job[k] EXCEPT !.raced = TRUE].row = job[k].row
    BY DEF Creating
  <1>2. NoJob \notin Creating
    BY DEF NoJob, Creating
  <1>3. \A k \in Handlers : job'[k] =
          IF job[k] \in Creating /\ (job[k].name = r.name \/ job[k].phone = r.phone)
            THEN [job[k] EXCEPT !.raced = TRUE] ELSE job[k]
    BY DEF Race
  <1>4. job' \in [Handlers -> JobStates]
    BY <1>1, <1>3 DEF RosterTypeOK, Race, JobStates
  <1> SUFFICES ASSUME NEW k \in Handlers
               PROVE  \/ job'[k] = job[k] /\ (Enters(k) => job[k].name # r.name /\ job[k].phone # r.phone)
                      \/ /\ Enters(k) /\ Enters(k)' /\ job'[k] # NoJob /\ job[k] # NoJob /\ job'[k].raced
                         /\ job'[k].at = job[k].at /\ job'[k].plan = job[k].plan
                         /\ job'[k].row = job[k].row
    BY <1>4
  <1>5. Enters(k) <=> job[k] \in Creating
    BY JobShapes
  <1>6. CASE Enters(k) /\ (job[k].name = r.name \/ job[k].phone = r.phone)
    BY <1>1, <1>2, <1>3, <1>5, <1>6 DEF Enters
  <1>7. CASE ~(Enters(k) /\ (job[k].name = r.name \/ job[k].phone = r.phone))
    BY <1>3, <1>5, <1>7
  <1> QED BY <1>6, <1>7

LEMMA RosterCrashKeeps ==
  ASSUME RosterInv, NEW h \in Handlers, Crash(h)
  PROVE  RosterInv'
  <1> USE DEF RosterInv, OnlyJob
  <1>1. OnlyJob(h) /\ job'[h] = NoJob /\ job'[h].at = "idle"
    <2>1. NoJob \in JobStates /\ NoJob.at = "idle"
      BY DEF JobStates, NoJob
    <2> QED BY <2>1, JobMoves DEF Crash
  <1>2. UNCHANGED <<driver, assignments, ledger, effects, deletes>>
    BY DEF Crash
  <1>3. RosterTypeOK'
    BY <1>1, <1>2 DEF RosterTypeOK, JobStates
  <1>4. RowsAreThere'
    BY <1>1, <1>2 DEF RowsAreThere
  <1>5. OneExecutor'
    BY <1>1, <1>2 DEF OneExecutor, Works, RosterTypeOK
  <1>6. EffectsAreSteps'
    BY <1>1, <1>2 DEF EffectsAreSteps, Works, Enters, RosterTypeOK
  <1>7. PlanTakesEffectOnce'
    BY <1>1, <1>2 DEF PlanTakesEffectOnce, RosterTypeOK
  <1>8. LooksAreTrue'
    BY <1>1, <1>2 DEF LooksAreTrue, Enters, Deleted, Active, Known
  <1> QED BY <1>3, <1>4, <1>5, <1>6, <1>7, <1>8

LEMMA RosterCreateFromFormKeeps ==
  ASSUME RosterInv, NEW h \in Handlers, CreateFromForm(h)
  PROVE  RosterInv'
  <1> USE DEF RosterInv, OnlyJob
  <1>1. OnlyJob(h) /\ job'[h].at = "name" /\ job'[h].plan \notin Plans
    <2>1. PICK n \in Names, ph \in Phones : job' = [job EXCEPT ![h] = Begin(n, ph, None)]
      BY DEF CreateFromForm
    <2>2. Begin(n, ph, None) \in JobStates
      BY DEF Begin, Creating, JobStates
    <2>3. Begin(n, ph, None).at = "name" /\ Begin(n, ph, None).plan \notin Plans
      BY RosterAssumption DEF Begin
    <2> QED BY <2>1, <2>2, <2>3, JobMoves
  <1>2. UNCHANGED <<driver, assignments, ledger, effects, deletes>>
    BY DEF CreateFromForm
  <1>3. RosterTypeOK'
    BY <1>1, <1>2 DEF RosterTypeOK, JobStates
  <1>4. RowsAreThere'
    BY <1>1, <1>2 DEF RowsAreThere
  <1>5. OneExecutor'
    BY <1>1, <1>2 DEF OneExecutor, Works, RosterTypeOK
  <1>6. EffectsAreSteps'
    BY <1>1, <1>2 DEF EffectsAreSteps, Works, Enters, RosterTypeOK
  <1>7. PlanTakesEffectOnce'
    BY <1>1, <1>2 DEF PlanTakesEffectOnce, RosterTypeOK
  <1>8. LooksAreTrue'
    BY <1>1, <1>2 DEF LooksAreTrue, Enters, Deleted, Active, Known
  <1> QED BY <1>3, <1>4, <1>5, <1>6, <1>7, <1>8

LEMMA RosterLookByNameKeeps ==
  ASSUME RosterInv, NEW h \in Handlers, LookByName(h)
  PROVE  RosterInv'
  <1> USE DEF RosterInv, OnlyJob
  <1>1. job[h].at = "name" /\ Enters(h) /\ job[h] \in Creating
    BY JobShapes DEF LookByName, Enters
  <1>2. /\ OnlyJob(h) /\ Enters(h)' /\ job[h] # NoJob
        /\ job'[h].name = job[h].name /\ job'[h].phone = job[h].phone
        /\ job'[h].plan = job[h].plan /\ job'[h].raced = job[h].raced
        /\ \/ job'[h].at = "phone" /\ {d \in Deleted : driver[d].name = job[h].name} = {}
           \/ job'[h].at = "revive" /\ job'[h].row \in Records
    <2> DEFINE found == {d \in Deleted : driver[d].name = job[h].name}
    <2>1. \/ job' = [job EXCEPT ![h].at = "phone"] /\ found = {}
          \/ \E d \in found : job' = [job EXCEPT ![h].at = "revive", ![h].row = d]
      BY DEF LookByName, Look
    <2>2. found \subseteq Records
      BY DEF Deleted, Known
    <2> HIDE DEF found
    <2>3. CASE job' = [job EXCEPT ![h].at = "phone"] /\ found = {}
      <3>1. job' = [job EXCEPT ![h] = [job[h] EXCEPT !.at = "phone"]]
        BY <2>3 DEF RosterTypeOK
      <3>2. [job[h] EXCEPT !.at = "phone"] \in JobStates
        BY <1>1 DEF JobStates, Creating
      <3>3. OnlyJob(h) /\ job'[h] = [job[h] EXCEPT !.at = "phone"]
        BY <3>1, <3>2, JobMoves
      <3> QED BY <1>1, <2>3, <3>3 DEF Creating, NoJob, Enters, found
    <2>4. ASSUME NEW d \in found, job' = [job EXCEPT ![h].at = "revive", ![h].row = d]
          PROVE  /\ OnlyJob(h) /\ Enters(h)' /\ job[h] # NoJob
                 /\ job'[h].name = job[h].name /\ job'[h].phone = job[h].phone
                 /\ job'[h].plan = job[h].plan /\ job'[h].raced = job[h].raced
                 /\ job'[h].at = "revive" /\ job'[h].row \in Records
      <3> DEFINE w == [job[h] EXCEPT !.at = "revive"]
      <3>1. w \in Creating
        BY <1>1 DEF Creating
      <3>2. [w EXCEPT !.row = d] \in Creating
        <4> HIDE DEF w
        <4> QED BY <2>2, <3>1 DEF Creating
      <3>3. job' = [job EXCEPT ![h] = [w EXCEPT !.row = d]]
        BY <2>4 DEF RosterTypeOK
      <3>4. OnlyJob(h) /\ job'[h] = [w EXCEPT !.row = d]
        BY <3>2, <3>3, JobMoves DEF JobStates
      <3> QED BY <1>1, <2>2, <3>4 DEF Creating, NoJob, Enters
    <2> QED BY <2>1, <2>3, <2>4 DEF found
  <1>3. UNCHANGED <<driver, assignments, ledger, effects, deletes>>
    BY DEF LookByName, Look
  <1>4. RosterTypeOK'
    BY <1>1, <1>2, <1>3 DEF RosterTypeOK, JobStates
  <1>5. RowsAreThere'
    BY <1>1, <1>2, <1>3 DEF RowsAreThere
  <1>6. OneExecutor'
    BY <1>1, <1>2, <1>3 DEF OneExecutor, Works, RosterTypeOK
  <1>7. EffectsAreSteps'
    BY <1>1, <1>2, <1>3 DEF EffectsAreSteps, Works, Enters, RosterTypeOK
  <1>8. PlanTakesEffectOnce'
    BY <1>1, <1>2, <1>3 DEF PlanTakesEffectOnce, RosterTypeOK
  <1>9. LooksAreTrue'
    BY <1>1, <1>2, <1>3 DEF LooksAreTrue, Enters, Deleted, Active, Known
  <1> QED BY <1>4, <1>5, <1>6, <1>7, <1>8, <1>9

LEMMA RosterLookByPhoneKeeps ==
  ASSUME RosterInv, NEW h \in Handlers, LookByPhone(h)
  PROVE  RosterInv'
  <1> USE DEF RosterInv, OnlyJob
  <1>1. job[h].at = "phone" /\ Enters(h) /\ job[h] \in Creating
    BY JobShapes DEF LookByPhone, Enters
  <1>2. /\ OnlyJob(h) /\ Enters(h)' /\ job[h] # NoJob
        /\ job'[h].name = job[h].name /\ job'[h].phone = job[h].phone
        /\ job'[h].plan = job[h].plan /\ job'[h].raced = job[h].raced
        /\ \/ job'[h].at = "insert" /\ {d \in Deleted : driver[d].phone = job[h].phone} = {}
           \/ job'[h].at = "revive" /\ job'[h].row \in Records
    <2> DEFINE found == {d \in Deleted : driver[d].phone = job[h].phone}
    <2>1. \/ job' = [job EXCEPT ![h].at = "insert"] /\ found = {}
          \/ \E d \in found : job' = [job EXCEPT ![h].at = "revive", ![h].row = d]
      BY DEF LookByPhone, Look, DeletedTwins
    <2>2. found \subseteq Records
      BY DEF Deleted, Known
    <2> HIDE DEF found
    <2>3. CASE job' = [job EXCEPT ![h].at = "insert"] /\ found = {}
      <3>1. job' = [job EXCEPT ![h] = [job[h] EXCEPT !.at = "insert"]]
        BY <2>3 DEF RosterTypeOK
      <3>2. [job[h] EXCEPT !.at = "insert"] \in JobStates
        BY <1>1 DEF JobStates, Creating
      <3>3. OnlyJob(h) /\ job'[h] = [job[h] EXCEPT !.at = "insert"]
        BY <3>1, <3>2, JobMoves
      <3> QED BY <1>1, <2>3, <3>3 DEF Creating, NoJob, Enters, found
    <2>4. ASSUME NEW d \in found, job' = [job EXCEPT ![h].at = "revive", ![h].row = d]
          PROVE  /\ OnlyJob(h) /\ Enters(h)' /\ job[h] # NoJob
                 /\ job'[h].name = job[h].name /\ job'[h].phone = job[h].phone
                 /\ job'[h].plan = job[h].plan /\ job'[h].raced = job[h].raced
                 /\ job'[h].at = "revive" /\ job'[h].row \in Records
      <3> DEFINE w == [job[h] EXCEPT !.at = "revive"]
      <3>1. w \in Creating
        BY <1>1 DEF Creating
      <3>2. [w EXCEPT !.row = d] \in Creating
        <4> HIDE DEF w
        <4> QED BY <2>2, <3>1 DEF Creating
      <3>3. job' = [job EXCEPT ![h] = [w EXCEPT !.row = d]]
        BY <2>4 DEF RosterTypeOK
      <3>4. OnlyJob(h) /\ job'[h] = [w EXCEPT !.row = d]
        BY <3>2, <3>3, JobMoves DEF JobStates
      <3> QED BY <1>1, <2>2, <3>4 DEF Creating, NoJob, Enters
    <2> QED BY <2>1, <2>3, <2>4 DEF found
  <1>3. UNCHANGED <<driver, assignments, ledger, effects, deletes>>
    BY DEF LookByPhone, Look
  <1>4. RosterTypeOK'
    BY <1>1, <1>2, <1>3 DEF RosterTypeOK, JobStates
  <1>5. RowsAreThere'
    BY <1>1, <1>2, <1>3 DEF RowsAreThere
  <1>6. OneExecutor'
    BY <1>1, <1>2, <1>3 DEF OneExecutor, Works, RosterTypeOK
  <1>7. EffectsAreSteps'
    BY <1>1, <1>2, <1>3 DEF EffectsAreSteps, Works, Enters, RosterTypeOK
  <1>8. PlanTakesEffectOnce'
    BY <1>1, <1>2, <1>3 DEF PlanTakesEffectOnce, RosterTypeOK
  <1>9. LooksAreTrue'
    BY <1>1, <1>2, <1>3 DEF LooksAreTrue, Enters, Deleted, Active, Known
  <1> QED BY <1>4, <1>5, <1>6, <1>7, <1>8, <1>9

LEMMA RosterCreateFailsKeeps ==
  ASSUME RosterInv, NEW h \in Handlers, CreateDriverFails(h)
  PROVE  RosterInv'
  <1> USE DEF RosterInv, OnlyJob
  <1>1. job[h] # NoJob /\ Enters(h) /\ job[h] \in Creating
    BY JobShapes DEF CreateDriverFails, Creating, NoJob, Enters
  <1>2. /\ OnlyJob(h) /\ ~Enters(h)'
        /\ \/ job'[h] = NoJob /\ job'[h].at = "idle"
           \/ job'[h].plan = job[h].plan /\ job'[h].at = "failed"
    <2> DEFINE failed == [at |-> "failed", plan |-> job[h].plan, row |-> None]
    <2>1. failed.at = "failed" /\ failed.plan = job[h].plan /\ (job[h].plan # None => failed \in JobStates)
      BY <1>1 DEF JobStates, Creating, Executing
    <2>2. NoJob \in JobStates /\ NoJob.at = "idle"
      BY DEF JobStates, NoJob
    <2>3. job' = [job EXCEPT ![h] = IF job[h].plan = None THEN NoJob ELSE failed]
      BY DEF CreateDriverFails
    <2> HIDE DEF failed
    <2>4. CASE job[h].plan = None
      BY <2>2, <2>3, <2>4, JobMoves DEF Enters
    <2>5. CASE job[h].plan # None
      BY <2>1, <2>3, <2>5, JobMoves DEF Enters
    <2> QED BY <2>4, <2>5
  <1>3. UNCHANGED <<driver, assignments, ledger, effects, deletes>>
    BY DEF CreateDriverFails
  <1>4. RosterTypeOK'
    BY <1>1, <1>2, <1>3 DEF RosterTypeOK, JobStates
  <1>5. RowsAreThere'
    BY <1>1, <1>2, <1>3 DEF RowsAreThere
  <1>6. OneExecutor'
    BY <1>1, <1>2, <1>3 DEF OneExecutor, Works, RosterTypeOK
  <1>7. EffectsAreSteps'
    BY <1>1, <1>2, <1>3 DEF EffectsAreSteps, Works, Enters, RosterTypeOK
  <1>8. PlanTakesEffectOnce'
    BY <1>1, <1>2, <1>3 DEF PlanTakesEffectOnce, RosterTypeOK
  <1>9. LooksAreTrue'
    BY <1>1, <1>2, <1>3 DEF LooksAreTrue, Enters, Deleted, Active, Known
  <1> QED BY <1>4, <1>5, <1>6, <1>7, <1>8, <1>9

LEMMA RosterExecuteKeeps ==
  ASSUME RosterInv, NEW h \in Handlers, NEW p \in Plans, Execute(h, p)
  PROVE  RosterInv'
  <1> USE DEF RosterInv, OnlyJob
  <1>1. job[h] = NoJob /\ ledger[p] = "absent" /\ ledger' = [ledger EXCEPT ![p] = "started"]
    BY DEF Execute, Claims
  <1>2. OnlyJob(h) /\ job'[h].at = "name" /\ job'[h].plan = p
    <2> DEFINE b == Begin(PlanOf[p][1], PlanOf[p][2], p)
    <2>1. PlanOf[p][1] \in Names /\ PlanOf[p][2] \in Phones
      BY RosterAssumption
    <2>2. b \in JobStates /\ b.at = "name" /\ b.plan = p
      BY <2>1 DEF Begin, Creating, JobStates
    <2>3. job' = [job EXCEPT ![h] = b]
      BY DEF Execute
    <2> HIDE DEF b
    <2> QED BY <2>2, <2>3, JobMoves
  <1>3. effects[p].created = 0 /\ effects[p].assigned = 0
    BY <1>1 DEF PlanTakesEffectOnce, RosterTypeOK
  <1>4. UNCHANGED <<driver, assignments, effects, deletes>>
    BY DEF Execute
  <1>5. \A k \in Handlers : ~Works(k, p)
    BY <1>1 DEF OneExecutor
  <1>6. RosterTypeOK'
    BY <1>1, <1>2, <1>3, <1>4, <1>5 DEF RosterTypeOK, JobStates
  <1>7. RowsAreThere'
    BY <1>1, <1>2, <1>3, <1>4, <1>5 DEF RowsAreThere
  <1>8. OneExecutor'
    BY <1>1, <1>2, <1>3, <1>4, <1>5 DEF OneExecutor, Works, RosterTypeOK
  <1>9. EffectsAreSteps'
    BY <1>1, <1>2, <1>3, <1>4, <1>5 DEF EffectsAreSteps, Works, Enters, RosterTypeOK
  <1>10. PlanTakesEffectOnce'
    BY <1>1, <1>2, <1>3, <1>4, <1>5 DEF PlanTakesEffectOnce, RosterTypeOK
  <1>11. LooksAreTrue'
    BY <1>1, <1>2, <1>3, <1>4, <1>5 DEF LooksAreTrue, Enters, Deleted, Active,
       Known
  <1> QED BY <1>6, <1>7, <1>8, <1>9, <1>10, <1>11

LEMMA RosterReviveKeeps ==
  ASSUME RosterInv, NEW h \in Handlers, Revive(h)
  PROVE  RosterInv'
  <1> USE DEF RosterInv, OnlyJob
  <1>1. job[h].at = "revive" /\ Enters(h) /\ job[h] \in Creating /\ job[h] # NoJob
    BY JobShapes DEF Revive, Enters, Creating, NoJob
  <1>2. PICK d : d \in Records /\ Write(h, d)
    BY <1>1 DEF Revive, RowsAreThere
  <1>3. /\ driver' \in [Records -> Row \cup {None}]
        /\ \A e \in Records \ {d} : driver'[e] = driver[e]
        /\ d \in Records => driver'[d].active
    <2>1. [name |-> job[h].name, phone |-> job[h].phone, active |-> TRUE] \in Row
      BY <1>1 DEF Row, Creating
    <2> QED BY <1>2, <2>1 DEF Write, RosterTypeOK
  <1>4. OnlyJob(h) /\ ~Enters(h)' /\ effects' \in [Plans -> [created : Nat, assigned : Nat]]
        /\ \/ job'[h] = NoJob /\ job'[h].at = "idle" /\ effects' = effects
           \/ /\ job[h].plan \in Plans /\ job'[h].plan = job[h].plan
              /\ job'[h].at = "assign" /\ job'[h].row = d
              /\ effects'[job[h].plan].created = effects[job[h].plan].created + 1
              /\ effects'[job[h].plan].assigned = effects[job[h].plan].assigned
              /\ \A q \in Plans \ {job[h].plan} : effects'[q] = effects[q]
    <2> DEFINE next == [at |-> "assign", plan |-> job[h].plan, row |-> d]
    <2>1. Created(h, d)
      BY <1>2 DEF Write
    <2>2. CASE job[h].plan = None
      <3>1. job' = [job EXCEPT ![h] = NoJob] /\ effects' = effects
        BY <2>1, <2>2 DEF Created
      <3>2. NoJob \in JobStates /\ NoJob.at = "idle"
        BY DEF JobStates, NoJob
      <3> QED BY <3>1, <3>2, JobMoves DEF Enters, RosterTypeOK
    <2>3. CASE job[h].plan # None
      <3>1. job[h].plan \in Plans
        BY <1>1, <2>3 DEF Creating
      <3>2. job' = [job EXCEPT ![h] = next]
        BY <2>1, <2>3 DEF Created
      <3>3. effects' = [effects EXCEPT ![job[h].plan].created = @ + 1]
        BY <2>1, <2>3 DEF Created
      <3>4. next \in JobStates /\ next.at = "assign" /\ next.plan = job[h].plan /\ next.row = d
        BY <1>2, <3>1 DEF JobStates, Executing
      <3> HIDE DEF next
      <3>5. OnlyJob(h) /\ job'[h] = next
        BY <3>2, <3>4, JobMoves
      <3>6. effects' \in [Plans -> [created : Nat, assigned : Nat]]
        BY <3>1, <3>3 DEF RosterTypeOK
      <3>7. /\ effects'[job[h].plan].created = effects[job[h].plan].created + 1
            /\ effects'[job[h].plan].assigned = effects[job[h].plan].assigned
            /\ \A q \in Plans \ {job[h].plan} : effects'[q] = effects[q]
        BY <3>1, <3>3 DEF RosterTypeOK
      <3> QED BY <3>1, <3>4, <3>5, <3>6, <3>7 DEF Enters
    <2> QED BY <2>2, <2>3
  <1>5. UNCHANGED <<assignments, ledger, deletes>>
    BY <1>2 DEF Write
  <1>6. RosterTypeOK'
    BY <1>1, <1>2, <1>3, <1>4, <1>5 DEF RosterTypeOK, JobStates
  <1>7. RowsAreThere'
    BY <1>1, <1>2, <1>3, <1>4, <1>5 DEF RowsAreThere
  <1>8. OneExecutor'
    BY <1>1, <1>2, <1>3, <1>4, <1>5 DEF OneExecutor, Works, RosterTypeOK
  <1>9. EffectsAreSteps'
    <2> SUFFICES ASSUME NEW p \in Plans, NEW k \in Handlers, Works(k, p)'
                 PROVE  /\ (effects'[p].created = 0 => effects'[p].assigned = 0)
                        /\ (Enters(k)' => effects'[p].created = 0)
                        /\ (job'[k].at = "assign" => effects'[p].created = 1 /\ effects'[p].assigned = 0)
                        /\ (job'[k].at = "done" => effects'[p].created = 1 /\ effects'[p].assigned = 1)
                        /\ (job'[k].at = "failed" => effects'[p].assigned = 0)
      BY DEF EffectsAreSteps
    <2>1. Works(k, p) /\ (k # h => p # job[h].plan) /\ Works(h, job[h].plan)
      BY <1>1, <1>4 DEF OneExecutor, Works
    <2>2. CASE k = h
      <3>1. effects[p].created = 0 /\ effects[p].assigned = 0
        BY <1>1, <2>1, <2>2 DEF EffectsAreSteps
      <3> QED BY <1>4, <2>2, <3>1 DEF Works, Enters
    <2>3. CASE k # h
      BY <1>4, <2>1, <2>3 DEF EffectsAreSteps, Enters
    <2> QED BY <2>2, <2>3
  <1>10. PlanTakesEffectOnce'
    <2>1. CASE effects' = effects
      BY <2>1, <1>5 DEF PlanTakesEffectOnce
    <2>2. CASE job[h].plan \in Plans /\ effects' # effects
      <3>1. /\ ledger[job[h].plan] = "started"
            /\ effects[job[h].plan].created = 0 /\ effects[job[h].plan].assigned = 0
        BY <1>1, <2>2 DEF OneExecutor, EffectsAreSteps, Works
      <3> QED BY <1>4, <1>5, <2>2, <3>1 DEF PlanTakesEffectOnce
    <2> QED BY <1>4, <2>1, <2>2
  <1>11. LooksAreTrue'
    BY <1>1, <1>2, <1>3, <1>4, <1>5 DEF LooksAreTrue, Enters, Deleted, Active,
       Known
  <1> QED BY <1>6, <1>7, <1>8, <1>9, <1>10, <1>11

LEMMA RosterInsertKeeps ==
  ASSUME RosterInv, NEW h \in Handlers, Insert(h)
  PROVE  RosterInv'
  <1> USE DEF RosterInv, OnlyJob
  <1>1. job[h].at = "insert" /\ Enters(h) /\ job[h] \in Creating /\ job[h] # NoJob
    BY JobShapes DEF Insert, Enters, Creating, NoJob
  <1>2. PICK d : d \in Records /\ Write(h, d)
    <2>1. \E x \in Records : x \notin Known
      BY DEF Insert, Known
    <2>2. (CHOOSE x \in Records : x \notin Known) \in Records
      BY <2>1
    <2> QED BY <2>2 DEF Insert
  <1>3. /\ driver' \in [Records -> Row \cup {None}]
        /\ \A e \in Records \ {d} : driver'[e] = driver[e]
        /\ d \in Records => driver'[d].active
    <2>1. [name |-> job[h].name, phone |-> job[h].phone, active |-> TRUE] \in Row
      BY <1>1 DEF Row, Creating
    <2> QED BY <1>2, <2>1 DEF Write, RosterTypeOK
  <1>4. OnlyJob(h) /\ ~Enters(h)' /\ effects' \in [Plans -> [created : Nat, assigned : Nat]]
        /\ \/ job'[h] = NoJob /\ job'[h].at = "idle" /\ effects' = effects
           \/ /\ job[h].plan \in Plans /\ job'[h].plan = job[h].plan
              /\ job'[h].at = "assign" /\ job'[h].row = d
              /\ effects'[job[h].plan].created = effects[job[h].plan].created + 1
              /\ effects'[job[h].plan].assigned = effects[job[h].plan].assigned
              /\ \A q \in Plans \ {job[h].plan} : effects'[q] = effects[q]
    <2> DEFINE next == [at |-> "assign", plan |-> job[h].plan, row |-> d]
    <2>1. Created(h, d)
      BY <1>2 DEF Write
    <2>2. CASE job[h].plan = None
      <3>1. job' = [job EXCEPT ![h] = NoJob] /\ effects' = effects
        BY <2>1, <2>2 DEF Created
      <3>2. NoJob \in JobStates /\ NoJob.at = "idle"
        BY DEF JobStates, NoJob
      <3> QED BY <3>1, <3>2, JobMoves DEF Enters, RosterTypeOK
    <2>3. CASE job[h].plan # None
      <3>1. job[h].plan \in Plans
        BY <1>1, <2>3 DEF Creating
      <3>2. job' = [job EXCEPT ![h] = next]
        BY <2>1, <2>3 DEF Created
      <3>3. effects' = [effects EXCEPT ![job[h].plan].created = @ + 1]
        BY <2>1, <2>3 DEF Created
      <3>4. next \in JobStates /\ next.at = "assign" /\ next.plan = job[h].plan /\ next.row = d
        BY <1>2, <3>1 DEF JobStates, Executing
      <3> HIDE DEF next
      <3>5. OnlyJob(h) /\ job'[h] = next
        BY <3>2, <3>4, JobMoves
      <3>6. effects' \in [Plans -> [created : Nat, assigned : Nat]]
        BY <3>1, <3>3 DEF RosterTypeOK
      <3>7. /\ effects'[job[h].plan].created = effects[job[h].plan].created + 1
            /\ effects'[job[h].plan].assigned = effects[job[h].plan].assigned
            /\ \A q \in Plans \ {job[h].plan} : effects'[q] = effects[q]
        BY <3>1, <3>3 DEF RosterTypeOK
      <3> QED BY <3>1, <3>4, <3>5, <3>6, <3>7 DEF Enters
    <2> QED BY <2>2, <2>3
  <1>5. UNCHANGED <<assignments, ledger, deletes>>
    BY <1>2 DEF Write
  <1>6. RosterTypeOK'
    BY <1>1, <1>2, <1>3, <1>4, <1>5 DEF RosterTypeOK, JobStates
  <1>7. RowsAreThere'
    BY <1>1, <1>2, <1>3, <1>4, <1>5 DEF RowsAreThere
  <1>8. OneExecutor'
    BY <1>1, <1>2, <1>3, <1>4, <1>5 DEF OneExecutor, Works, RosterTypeOK
  <1>9. EffectsAreSteps'
    <2> SUFFICES ASSUME NEW p \in Plans, NEW k \in Handlers, Works(k, p)'
                 PROVE  /\ (effects'[p].created = 0 => effects'[p].assigned = 0)
                        /\ (Enters(k)' => effects'[p].created = 0)
                        /\ (job'[k].at = "assign" => effects'[p].created = 1 /\ effects'[p].assigned = 0)
                        /\ (job'[k].at = "done" => effects'[p].created = 1 /\ effects'[p].assigned = 1)
                        /\ (job'[k].at = "failed" => effects'[p].assigned = 0)
      BY DEF EffectsAreSteps
    <2>1. Works(k, p) /\ (k # h => p # job[h].plan) /\ Works(h, job[h].plan)
      BY <1>1, <1>4 DEF OneExecutor, Works
    <2>2. CASE k = h
      <3>1. effects[p].created = 0 /\ effects[p].assigned = 0
        BY <1>1, <2>1, <2>2 DEF EffectsAreSteps
      <3> QED BY <1>4, <2>2, <3>1 DEF Works, Enters
    <2>3. CASE k # h
      BY <1>4, <2>1, <2>3 DEF EffectsAreSteps, Enters
    <2> QED BY <2>2, <2>3
  <1>10. PlanTakesEffectOnce'
    <2>1. CASE effects' = effects
      BY <2>1, <1>5 DEF PlanTakesEffectOnce
    <2>2. CASE job[h].plan \in Plans /\ effects' # effects
      <3>1. /\ ledger[job[h].plan] = "started"
            /\ effects[job[h].plan].created = 0 /\ effects[job[h].plan].assigned = 0
        BY <1>1, <2>2 DEF OneExecutor, EffectsAreSteps, Works
      <3> QED BY <1>4, <1>5, <2>2, <3>1 DEF PlanTakesEffectOnce
    <2> QED BY <1>4, <2>1, <2>2
  <1>11. LooksAreTrue'
    BY <1>1, <1>2, <1>3, <1>4, <1>5 DEF LooksAreTrue, Enters, Deleted, Active,
       Known
  <1> QED BY <1>6, <1>7, <1>8, <1>9, <1>10, <1>11

LEMMA RosterAssignCommandKeeps ==
  ASSUME RosterInv, NEW h \in Handlers, AssignCommand(h)
  PROVE  RosterInv'
  <1> USE DEF RosterInv, OnlyJob
  <1>1. /\ job[h].at = "assign" /\ job[h] \in Executing /\ job[h] # NoJob
        /\ job[h].plan \in Plans /\ job[h].row \in Records /\ ~Enters(h)
    BY JobShapes DEF AssignCommand, Executing, NoJob, RowsAreThere, Enters
  <1>2. effects[job[h].plan].created = 1 /\ effects[job[h].plan].assigned = 0 /\ ledger[job[h].plan] = "started"
    BY <1>1 DEF EffectsAreSteps, OneExecutor, Works
  <1>3. PICK free \in BOOLEAN :
               /\ assignments' = IF free THEN assignments \cup {<<job[h].row, PlanOf[job[h].plan][3]>>} ELSE assignments
               /\ effects' = IF free THEN [effects EXCEPT ![job[h].plan].assigned = @ + 1] ELSE effects
               /\ job' = [job EXCEPT ![h].at = IF free THEN "done" ELSE "failed"]
    BY DEF AssignCommand
  <1>4. assignments' \subseteq Records \X Trucks
    BY <1>1, <1>3, RosterAssumption DEF RosterTypeOK
  <1>5. /\ OnlyJob(h) /\ job'[h].at = (IF free THEN "done" ELSE "failed")
        /\ job'[h].plan = job[h].plan
        /\ ~Enters(h)'
    <2> DEFINE v == [job[h] EXCEPT !.at = IF free THEN "done" ELSE "failed"]
    <2>1. v \in JobStates /\ v.at = (IF free THEN "done" ELSE "failed") /\ v.plan = job[h].plan
      BY <1>1, <1>3 DEF JobStates, Executing
    <2>2. job' = [job EXCEPT ![h] = v]
      BY <1>3 DEF RosterTypeOK
    <2> HIDE DEF v
    <2> QED BY <2>1, <2>2, JobMoves DEF Enters
  <1>6. /\ effects' \in [Plans -> [created : Nat, assigned : Nat]]
        /\ effects'[job[h].plan].created = 1
        /\ effects'[job[h].plan].assigned = IF free THEN 1 ELSE 0
        /\ \A q \in Plans \ {job[h].plan} : effects'[q] = effects[q]
    BY <1>1, <1>2, <1>3 DEF RosterTypeOK
  <1>7. UNCHANGED <<driver, ledger, deletes>>
    BY DEF AssignCommand
  <1>8. RosterTypeOK'
    BY <1>1, <1>2, <1>3, <1>4, <1>5, <1>6, <1>7 DEF RosterTypeOK, JobStates
  <1>9. RowsAreThere'
    BY <1>1, <1>2, <1>3, <1>4, <1>5, <1>6, <1>7 DEF RowsAreThere
  <1>10. OneExecutor'
    BY <1>1, <1>2, <1>3, <1>4, <1>5, <1>6, <1>7 DEF OneExecutor, Works, RosterTypeOK
  <1>11. EffectsAreSteps'
    <2> SUFFICES ASSUME NEW p \in Plans, NEW k \in Handlers, Works(k, p)'
                 PROVE  /\ (effects'[p].created = 0 => effects'[p].assigned = 0)
                        /\ (Enters(k)' => effects'[p].created = 0)
                        /\ (job'[k].at = "assign" => effects'[p].created = 1 /\ effects'[p].assigned = 0)
                        /\ (job'[k].at = "done" => effects'[p].created = 1 /\ effects'[p].assigned = 1)
                        /\ (job'[k].at = "failed" => effects'[p].assigned = 0)
      BY DEF EffectsAreSteps
    <2>1. Works(k, p) /\ (k # h => p # job[h].plan) /\ (k = h => p = job[h].plan)
      BY <1>1, <1>5 DEF OneExecutor, Works
    <2>2. CASE k = h
      BY <1>5, <1>6, <2>1, <2>2 DEF Enters
    <2>3. CASE k # h
      BY <1>5, <1>6, <2>1, <2>3 DEF EffectsAreSteps, Enters
    <2> QED BY <2>2, <2>3
  <1>12. PlanTakesEffectOnce'
    BY <1>1, <1>2, <1>3, <1>4, <1>5, <1>6, <1>7 DEF PlanTakesEffectOnce, RosterTypeOK
  <1>13. LooksAreTrue'
    BY <1>1, <1>2, <1>3, <1>4, <1>5, <1>6, <1>7 DEF LooksAreTrue, Enters, Deleted,
       Active, Known
  <1> QED BY <1>8, <1>9, <1>10, <1>11, <1>12, <1>13

LEMMA RosterCompleteKeeps ==
  ASSUME RosterInv, NEW h \in Handlers, CompletePlan(h)
  PROVE  RosterInv'
  <1> USE DEF RosterInv, OnlyJob
  <1>1. /\ job[h].at \in {"done", "failed"} /\ job[h].plan \in Plans /\ Works(h, job[h].plan)
        /\ job[h] # NoJob
    BY JobShapes DEF CompletePlan, Executing, NoJob, Works
  <1>2. /\ job[h].at = "done" => effects[job[h].plan].created = 1 /\ effects[job[h].plan].assigned = 1
        /\ job[h].at = "failed" => effects[job[h].plan].assigned = 0
    BY <1>1 DEF EffectsAreSteps
  <1>3. OnlyJob(h) /\ job'[h] = NoJob /\ job'[h].at = "idle"
    <2>1. NoJob \in JobStates /\ NoJob.at = "idle"
      BY DEF JobStates, NoJob
    <2> QED BY <2>1, JobMoves DEF CompletePlan
  <1>4. /\ ledger' \in [Plans -> {"absent", "started", "completed", "failed"}]
        /\ ledger'[job[h].plan] = IF job[h].at = "failed" THEN "failed" ELSE "completed"
        /\ \A q \in Plans \ {job[h].plan} : ledger'[q] = ledger[q]
    BY <1>1 DEF CompletePlan, Verdict, RosterTypeOK
  <1>5. UNCHANGED <<driver, assignments, effects, deletes>>
    BY DEF CompletePlan
  <1>6. RosterTypeOK'
    BY <1>1, <1>2, <1>3, <1>4, <1>5 DEF RosterTypeOK, JobStates
  <1>7. RowsAreThere'
    BY <1>1, <1>2, <1>3, <1>4, <1>5 DEF RowsAreThere
  <1>8. OneExecutor'
    BY <1>1, <1>2, <1>3, <1>4, <1>5 DEF OneExecutor, Works, RosterTypeOK
  <1>9. EffectsAreSteps'
    BY <1>1, <1>2, <1>3, <1>4, <1>5 DEF EffectsAreSteps, Works, Enters, RosterTypeOK
  <1>10. PlanTakesEffectOnce'
    BY <1>1, <1>2, <1>3, <1>4, <1>5 DEF PlanTakesEffectOnce, RosterTypeOK
  <1>11. LooksAreTrue'
    BY <1>1, <1>2, <1>3, <1>4, <1>5 DEF LooksAreTrue, Enters, Deleted, Active,
       Known
  <1> QED BY <1>6, <1>7, <1>8, <1>9, <1>10, <1>11

LEMMA RosterRenameKeeps ==
  ASSUME RosterInv, NEW d \in Known, Rename(d)
  PROVE  RosterInv'
  <1> USE DEF RosterInv, OnlyJob
  <1>1. /\ driver' \in [Records -> Row \cup {None}]
        /\ \A e \in Records \ {d} : driver'[e] = driver[e]
        /\ deletes' \in 0 .. MaxDeletes
        /\ job' = Race(driver'[d])
    <2>1. driver[d] \in Row
      BY DEF Known, RosterTypeOK
    <2>2. PICK r \in Row : Change(d, r)
      BY <2>1 DEF Rename, Row
    <2>3. driver' = [driver EXCEPT ![d] = r] /\ d \in DOMAIN driver /\ job' = Race(r)
      BY <2>2 DEF Change, Known, RosterTypeOK
    <2>4. deletes' \in 0 .. MaxDeletes
      BY <2>2, RosterAssumption DEF Change, RosterTypeOK
    <2> QED BY <2>3, <2>4 DEF RosterTypeOK
  <1>2. /\ job' \in [Handlers -> JobStates]
        /\ \A k \in Handlers :
             \/ job'[k] = job[k] /\ (Enters(k) => job[k].name # driver'[d].name /\ job[k].phone # driver'[d].phone)
             \/ /\ Enters(k) /\ Enters(k)' /\ job'[k] # NoJob /\ job[k] # NoJob /\ job'[k].raced
                /\ job'[k].at = job[k].at /\ job'[k].plan = job[k].plan /\ job'[k].row = job[k].row
    BY <1>1, RaceMarks
  <1>3. assignments' \subseteq assignments /\ UNCHANGED <<ledger, effects>>
    BY DEF Rename, Change
  <1>4. RosterTypeOK'
    BY <1>1, <1>2, <1>3 DEF RosterTypeOK, JobStates
  <1>5. RowsAreThere'
    BY <1>1, <1>2, <1>3 DEF RowsAreThere
  <1>6. OneExecutor'
    BY <1>1, <1>2, <1>3 DEF OneExecutor, Works, RosterTypeOK
  <1>7. EffectsAreSteps'
    BY <1>1, <1>2, <1>3 DEF EffectsAreSteps, Works, Enters, RosterTypeOK
  <1>8. PlanTakesEffectOnce'
    BY <1>1, <1>2, <1>3 DEF PlanTakesEffectOnce, RosterTypeOK
  <1>9. LooksAreTrue'
    BY <1>1, <1>2, <1>3 DEF LooksAreTrue, Enters, Deleted, Active, Known
  <1> QED BY <1>4, <1>5, <1>6, <1>7, <1>8, <1>9

LEMMA RosterSoftDeleteKeeps ==
  ASSUME RosterInv, NEW d \in Known, SoftDelete(d)
  PROVE  RosterInv'
  <1> USE DEF RosterInv, OnlyJob
  <1>1. /\ driver' \in [Records -> Row \cup {None}]
        /\ \A e \in Records \ {d} : driver'[e] = driver[e]
        /\ deletes' \in 0 .. MaxDeletes
        /\ job' = Race(driver'[d])
    <2>1. driver[d] \in Row
      BY DEF Known, RosterTypeOK
    <2>2. PICK r \in Row : Change(d, r)
      BY <2>1 DEF SoftDelete, Row
    <2>3. driver' = [driver EXCEPT ![d] = r] /\ d \in DOMAIN driver /\ job' = Race(r)
      BY <2>2 DEF Change, Known, RosterTypeOK
    <2>4. deletes' \in 0 .. MaxDeletes
      BY <2>2, RosterAssumption DEF Change, RosterTypeOK
    <2> QED BY <2>3, <2>4 DEF RosterTypeOK
  <1>2. /\ job' \in [Handlers -> JobStates]
        /\ \A k \in Handlers :
             \/ job'[k] = job[k] /\ (Enters(k) => job[k].name # driver'[d].name /\ job[k].phone # driver'[d].phone)
             \/ /\ Enters(k) /\ Enters(k)' /\ job'[k] # NoJob /\ job[k] # NoJob /\ job'[k].raced
                /\ job'[k].at = job[k].at /\ job'[k].plan = job[k].plan /\ job'[k].row = job[k].row
    BY <1>1, RaceMarks
  <1>3. assignments' \subseteq assignments /\ UNCHANGED <<ledger, effects>>
    BY DEF SoftDelete, Change
  <1>4. RosterTypeOK'
    BY <1>1, <1>2, <1>3 DEF RosterTypeOK, JobStates
  <1>5. RowsAreThere'
    BY <1>1, <1>2, <1>3 DEF RowsAreThere
  <1>6. OneExecutor'
    BY <1>1, <1>2, <1>3 DEF OneExecutor, Works, RosterTypeOK
  <1>7. EffectsAreSteps'
    BY <1>1, <1>2, <1>3 DEF EffectsAreSteps, Works, Enters, RosterTypeOK
  <1>8. PlanTakesEffectOnce'
    BY <1>1, <1>2, <1>3 DEF PlanTakesEffectOnce, RosterTypeOK
  <1>9. LooksAreTrue'
    BY <1>1, <1>2, <1>3 DEF LooksAreTrue, Enters, Deleted, Active, Known
  <1> QED BY <1>4, <1>5, <1>6, <1>7, <1>8, <1>9

LEMMA InitRosterInv == RosterInit => RosterInv
  <1> SUFFICES ASSUME RosterInit PROVE RosterInv
    OBVIOUS
  <1>1. RosterTypeOK
    BY RosterAssumption DEF RosterInit, RosterTypeOK
  <1>2. \A h \in Handlers : job[h] = NoJob /\ job[h].at = "idle"
    BY DEF RosterInit, NoJob
  <1>3. \A p \in Plans : ledger[p] = "absent" /\ effects[p].created = 0 /\ effects[p].assigned = 0
    BY DEF RosterInit
  <1> QED BY <1>1, <1>2, <1>3
    DEF RosterInv, RowsAreThere, OneExecutor, EffectsAreSteps, Works, Enters, LooksAreTrue,
        PlanTakesEffectOnce

LEMMA StepRosterInv ==
  ASSUME RosterInv, [RosterNext]_rosterVars
  PROVE  RosterInv'
  <1>1. ASSUME NEW h \in Handlers, CreateFromForm(h) \/ Serve(h) \/ Crash(h)
        PROVE  RosterInv'
    BY <1>1, RosterCreateFromFormKeeps, RosterCrashKeeps, RosterLookByNameKeeps,
       RosterLookByPhoneKeeps,
       RosterReviveKeeps, RosterInsertKeeps, RosterCreateFailsKeeps, RosterAssignCommandKeeps,
       RosterCompleteKeeps DEF Serve
  <1>2. ASSUME NEW h \in Handlers, NEW p \in Plans, Execute(h, p) PROVE RosterInv'
    BY <1>2, RosterExecuteKeeps
  <1>3. ASSUME NEW d \in Known, Rename(d) \/ SoftDelete(d) PROVE RosterInv'
    BY <1>3, RosterRenameKeeps, RosterSoftDeleteKeeps
  <1>4. CASE UNCHANGED rosterVars
    BY <1>4 DEF rosterVars, RosterInv, RosterTypeOK, RowsAreThere, OneExecutor, EffectsAreSteps,
       Works, Enters, LooksAreTrue, Deleted, Active, Known,
       PlanTakesEffectOnce
  <1> QED BY <1>1, <1>2, <1>3, <1>4 DEF RosterNext

\* Every reachable state of the roster satisfies the invariant: a claimed plan has one handler
\* at most, and its effects are those of the commands behind it.
THEOREM RosterInvariance == RosterSpec => []RosterInv
  <1>1. RosterInit => RosterInv
    BY InitRosterInv
  <1>2. RosterInv /\ [RosterNext]_rosterVars => RosterInv'
    BY StepRosterInv
  <1> QED BY <1>1, <1>2, PTL DEF RosterSpec

\* However often plans are confirmed and whichever handlers die, each command takes effect at
\* most once, in order, and the ledger says completed or failed of what was or was not done.
THEOREM PlansTakeEffectOnce == RosterSpec => []PlanTakesEffectOnce
  <1>1. RosterInv => PlanTakesEffectOnce
    BY DEF RosterInv
  <1> QED BY <1>1, RosterInvariance, PTL

\* A create never inserts a second row for a name or a phone that a soft-deleted row holds,
\* unless that row was deleted or renamed while it was looking.
THEOREM IdentitiesAreRevived == RosterSpec => NoSecondIdentity
  <1> DEFINE Step == \A h \in Handlers :
       job[h].at = "insert" /\ Known' # Known /\ job'[h] # job[h] /\ ~job[h].raced =>
         \A d \in Deleted : driver[d].name # job[h].name /\ driver[d].phone # job[h].phone
  <1>1. RosterInv /\ [RosterNext]_rosterVars => [Step]_rosterVars
    BY DEF RosterInv, LooksAreTrue, Enters
  <1> QED BY <1>1, RosterInvariance, PTL DEF RosterSpec, NoSecondIdentity

-----------------------------------------------------------------------------
(* The roster implements PlanLedger *)

\* A step that touches the ledger row and the effects of one plan moves this plan alone.
LEMMA ProgressMoves ==
  ASSUME NEW p \in Plans, NEW from, NEW to, Progress(p) = from, Progress(p)' = to,
         \A q \in Plans \ {p} : ledger'[q] = ledger[q] /\ effects'[q] = effects[q]
  PROVE  Ledger!Move(p, from, to)
  <1>1. \A q \in Plans \ {p} : Progress(q)' = Progress(q)
    BY DEF Progress, Behind
  <1>2. [q \in Plans |-> Progress(q)]' = [[q \in Plans |-> Progress(q)] EXCEPT ![p] = to]
    BY <1>1
  <1> QED BY <1>2 DEF Ledger!Move

LEMMA ProgressRests ==
  ASSUME UNCHANGED <<ledger, effects>>
  PROVE  Ledger!Office
  BY DEF Progress, Behind, Ledger!Office

LEMMA ExecuteBegins ==
  ASSUME RosterInv, NEW h \in Handlers, NEW p \in Plans, Execute(h, p)
  PROVE  Ledger!Begin(p)
  <1>1. /\ ledger[p] = "absent" /\ ledger'[p] = "started" /\ effects[p].created = 0
        /\ \A q \in Plans \ {p} : ledger'[q] = ledger[q]
        /\ UNCHANGED <<driver, assignments, effects>>
    BY DEF Execute, Claims, RosterInv, RosterTypeOK, PlanTakesEffectOnce
  <1>2. Progress(p) = "absent" /\ Progress(p)' = "begun"
    BY <1>1 DEF Progress, Behind
  <1>3. Ledger!Move(p, "absent", "begun")
    BY <1>1, <1>2, ProgressMoves
  <1> QED BY <1>1, <1>3 DEF Ledger!Begin, Active, Known

\* A plan's create is for the name and the phone of the plan.
CreatesTheirDriver ==
  \A p \in Plans, h \in Handlers : Works(h, p) /\ Enters(h) =>
    job[h].name = PlanOf[p][1] /\ job[h].phone = PlanOf[p][2]

\* Handler h is creating the same driver for the same plan as before the step.
StillEnters(h) ==
  /\ Enters(h) /\ job[h] # NoJob
  /\ job'[h].plan = job[h].plan /\ job'[h].name = job[h].name /\ job'[h].phone = job[h].phone

\* A create changes its plan, name and phone in no step but the one that begins it.
LEMMA EntersAsBefore ==
  ASSUME RosterInv, [RosterNext]_rosterVars, NEW p \in Plans, NEW h \in Handlers,
         Works(h, p)', Enters(h)', ~Execute(h, p)
  PROVE  StillEnters(h)
  <1>0. RosterTypeOK /\ job \in [Handlers -> JobStates] /\ NoJob.at = "idle" /\ p # None
    BY RosterAssumption DEF RosterInv, RosterTypeOK, JobStates, NoJob
  <1>1. ASSUME job'[h] = job[h] PROVE StillEnters(h)
    BY <1>1, <1>0 DEF Enters, StillEnters
  <1>2. ASSUME NEW k \in Handlers, NEW v, job' = [job EXCEPT ![k] = v], k = h => v = job[h]
        PROVE  StillEnters(h)
    BY <1>0, <1>1, <1>2
  <1>3. ASSUME NEW k \in Handlers, NEW q \in Plans, Execute(k, q) PROVE StillEnters(h)
    <2>1. job' = [job EXCEPT ![k] = Begin(PlanOf[q][1], PlanOf[q][2], q)]
      BY <1>3 DEF Execute
    <2>2. k # h
      BY <1>0, <1>3, <2>1 DEF Works, Begin
    <2> QED BY <1>2, <2>1, <2>2
  <1>4. ASSUME NEW k \in Handlers, CreateFromForm(k) PROVE StillEnters(h)
    <2>1. PICK n, ph : job' = [job EXCEPT ![k] = Begin(n, ph, None)]
      BY <1>4 DEF CreateFromForm
    <2>2. k # h
      BY <1>0, <2>1 DEF Works, Begin
    <2> QED BY <1>2, <2>1, <2>2
  <1>5. ASSUME NEW k \in Handlers, LookByName(k) \/ LookByPhone(k) PROVE StillEnters(h)
    <2>1. job[k] \in Creating /\ job[k] # NoJob /\ Enters(k)
      BY <1>0, <1>5, JobShapes DEF LookByName, LookByPhone, Enters
    <2>2. \/ \E at : job' = [job EXCEPT ![k].at = at]
          \/ \E d : job' = [job EXCEPT ![k].at = "revive", ![k].row = d]
      BY <1>5 DEF LookByName, LookByPhone, Look
    <2>3. k = h => /\ job'[h].plan = job[h].plan
                   /\ job'[h].name = job[h].name /\ job'[h].phone = job[h].phone
      BY <1>0, <2>1, <2>2 DEF Creating
    <2>4. k # h => job'[h] = job[h]
      BY <1>0, <2>2
    <2> QED BY <1>1, <2>1, <2>3, <2>4 DEF StillEnters
  <1>6. ASSUME NEW k \in Handlers,
               Revive(k) \/ Insert(k) \/ CreateDriverFails(k) \/ AssignCommand(k)
                 \/ CompletePlan(k) \/ Crash(k)
        PROVE  StillEnters(h)
    <2>1. PICK v : job' = [job EXCEPT ![k] = v] /\ v.at \notin {"name", "phone", "revive", "insert"}
      <3>1. CASE Revive(k) \/ Insert(k)
        BY <1>0, <3>1 DEF Revive, Insert, Write, Created
      <3>2. CASE CreateDriverFails(k) \/ CompletePlan(k) \/ Crash(k)
        BY <1>0, <3>2 DEF CreateDriverFails, CompletePlan, Crash
      <3>3. CASE AssignCommand(k)
        <4>1. job[k] \in Executing
          BY <1>0, <3>3, JobShapes DEF AssignCommand
        <4>2. PICK at \in {"done", "failed"} : job' = [job EXCEPT ![k].at = at]
          BY <3>3 DEF AssignCommand
        <4>3. [job[k] EXCEPT !.at = at].at = at
          BY <4>1 DEF Executing
        <4> QED BY <4>2, <4>3
      <3> QED BY <1>6, <3>1, <3>2, <3>3
    <2>2. k # h
      BY <1>0, <2>1 DEF Enters
    <2> QED BY <1>2, <2>1, <2>2
  <1>7. ASSUME NEW d \in Known, Rename(d) \/ SoftDelete(d) PROVE StillEnters(h)
    <2>1. PICK r : job' = Race(r)
      BY <1>7 DEF Rename, SoftDelete, Change
    <2>2. job'[h] = job[h] \/ (job[h] \in Creating /\ job'[h] = [job[h] EXCEPT !.raced = TRUE])
      BY <2>1 DEF Race
    <2>3. CASE job[h] \in Creating /\ job'[h] = [job[h] EXCEPT !.raced = TRUE]
      BY <1>0, <2>3, JobShapes DEF Creating, StillEnters, Enters
    <2> QED BY <1>1, <2>2, <2>3
  <1>8. CASE UNCHANGED rosterVars
    BY <1>1, <1>8 DEF rosterVars
  <1> QED BY <1>3, <1>4, <1>5, <1>6, <1>7, <1>8 DEF RosterNext, Serve

LEMMA StepCreatesTheirs ==
  ASSUME RosterInv, CreatesTheirDriver, [RosterNext]_rosterVars
  PROVE  CreatesTheirDriver'
  <1> SUFFICES ASSUME NEW p \in Plans, NEW h \in Handlers, Works(h, p)', Enters(h)'
               PROVE  job'[h].name = PlanOf[p][1] /\ job'[h].phone = PlanOf[p][2]
    BY DEF CreatesTheirDriver
  <1>1. CASE Execute(h, p)
    BY <1>1 DEF Execute, Begin, RosterInv, RosterTypeOK
  <1>2. CASE ~Execute(h, p)
    BY <1>2, EntersAsBefore DEF CreatesTheirDriver, StillEnters, Works
  <1> QED BY <1>1, <1>2

\* Revive and Insert make the row that is written an active one, with the plan's name and phone.
LEMMA WriteRegisters ==
  ASSUME RosterInv, CreatesTheirDriver, NEW h \in Handlers, NEW d \in Records, Write(h, d),
         job[h] \in Creating
  PROVE  Ledger!Office \/ (\E p \in Plans : Ledger!Register(p))
  <1>1. CASE job[h].plan = None
    BY <1>1, ProgressRests DEF Write, Created
  <1>2. ASSUME NEW p \in Plans, job[h].plan = p PROVE Ledger!Register(p)
    <2>1. Works(h, p) /\ Enters(h) /\ p # None
      BY <1>2, RosterAssumption DEF Creating, Works, NoJob, Enters
    <2>2. /\ ledger[p] = "started" /\ effects[p].created = 0 /\ effects[p].assigned = 0
          /\ effects \in [Plans -> [created : Nat, assigned : Nat]]
      BY <2>1 DEF RosterInv, OneExecutor, EffectsAreSteps, RosterTypeOK
    <2>3. /\ effects' = [effects EXCEPT ![p].created = @ + 1]
          /\ UNCHANGED <<assignments, ledger>>
      BY <1>2, <2>1 DEF Write, Created
    <2>4. /\ effects'[p].created = 1 /\ effects'[p].assigned = 0
          /\ \A q \in Plans \ {p} : effects'[q] = effects[q]
      BY <2>2, <2>3
    <2>5. Progress(p) = "begun" /\ Progress(p)' = "registered"
      BY <2>2, <2>3, <2>4 DEF Progress, Behind
    <2>6. Ledger!Move(p, "begun", "registered")
      BY <2>3, <2>4, <2>5, ProgressMoves
    <2>7. job[h].name = PlanOf[p][1] /\ job[h].phone = PlanOf[p][2]
      BY <2>1 DEF CreatesTheirDriver
    <2>8. driver'[d] = [name |-> job[h].name, phone |-> job[h].phone, active |-> TRUE]
      BY DEF Write, RosterInv, RosterTypeOK
    <2>9. driver'[d] # None
      <3>1. driver'[d] \in Row
        BY <2>8 DEF Row, Creating
      <3> QED BY <3>1, RosterAssumption
    <2>10. Ledger!Driver(p) \in {<<driver'[e].name, driver'[e].phone>> : e \in Active'}
      BY <2>7, <2>8, <2>9 DEF Ledger!Driver, Active, Known
    <2> QED BY <2>3, <2>6, <2>10 DEF Ledger!Register
  <1> QED BY <1>1, <1>2 DEF Creating

LEMMA CommandAssigns ==
  ASSUME RosterInv, NEW h \in Handlers, AssignCommand(h)
  PROVE  Ledger!Office \/ (\E p \in Plans : Ledger!Assign(p))
  <1>1. PICK p \in Plans : job[h].plan = p /\ Works(h, p) /\ job[h].at = "assign"
    BY JobShapes DEF AssignCommand, Executing, NoJob, Works, RosterInv
  <1> DEFINE pair == <<job[h].row, PlanOf[p][3]>>
             free == \A q \in assignments : q[1] # pair[1] /\ q[2] # pair[2]
  <1>2. CASE ~free
    BY <1>1, <1>2, ProgressRests DEF AssignCommand
  <1>3. CASE free
    <2>1. /\ ledger[p] = "started" /\ effects[p].created = 1 /\ effects[p].assigned = 0
          /\ effects \in [Plans -> [created : Nat, assigned : Nat]]
      BY <1>1 DEF RosterInv, OneExecutor, EffectsAreSteps, RosterTypeOK
    <2>2. /\ effects' = [effects EXCEPT ![p].assigned = @ + 1]
          /\ assignments' = assignments \cup {pair}
          /\ UNCHANGED <<driver, ledger>>
      BY <1>1, <1>3 DEF AssignCommand
    <2>3. /\ effects'[p].created = 1 /\ effects'[p].assigned = 1
          /\ \A q \in Plans \ {p} : effects'[q] = effects[q]
      BY <2>1, <2>2
    <2>4. Progress(p) = "registered" /\ Progress(p)' = "assigned"
      BY <2>1, <2>2, <2>3 DEF Progress, Behind
    <2>5. Ledger!Move(p, "registered", "assigned")
      BY <2>2, <2>3, <2>4, ProgressMoves
    <2>6. PlanOf[p][3] \notin {q[2] : q \in assignments}
      BY <1>3
    <2>7. {q[2] : q \in assignments'} = {q[2] : q \in assignments} \cup {PlanOf[p][3]}
      <3>1. pair[2] = PlanOf[p][3]
        OBVIOUS
      <3> HIDE DEF pair
      <3> QED BY <2>2, <3>1
    <2>8. Ledger!Assign(p)
      BY <2>2, <2>5, <2>6, <2>7 DEF Ledger!Assign, Ledger!Vehicle, Active, Known
    <2> QED BY <2>8
  <1> QED BY <1>2, <1>3

LEMMA CompleteStamps ==
  ASSUME RosterInv, NEW h \in Handlers, CompletePlan(h)
  PROVE  \E p \in Plans : Ledger!Stamp(p)
  <1>1. PICK p \in Plans : job[h].plan = p /\ Works(h, p) /\ job[h].at \in {"done", "failed"}
    BY JobShapes DEF CompletePlan, Executing, NoJob, Works, RosterInv
  <1>2. /\ ledger[p] = "started"
        /\ job[h].at = "done" => effects[p].created = 1 /\ effects[p].assigned = 1
        /\ job[h].at = "failed" => effects[p].assigned = 0
    BY <1>1 DEF RosterInv, OneExecutor, EffectsAreSteps
  <1>3. /\ ledger'[p] = IF job[h].at = "failed" THEN "failed" ELSE "completed"
        /\ \A q \in Plans \ {p} : ledger'[q] = ledger[q]
        /\ UNCHANGED <<driver, assignments, effects>>
    BY <1>1 DEF CompletePlan, Verdict, RosterInv, RosterTypeOK
  <1>4. CASE job[h].at = "done"
    <2>1. Progress(p) = "assigned" /\ Progress(p)' = "completed"
      BY <1>2, <1>3, <1>4 DEF Progress, Behind
    <2>2. Ledger!Move(p, "assigned", "completed")
      BY <1>1, <1>3, <2>1, ProgressMoves
    <2>3. Ledger!Stamp(p)
      BY <1>3, <2>2 DEF Ledger!Stamp, Active, Known
    <2> QED BY <1>1, <2>3
  <1>5. CASE job[h].at = "failed"
    <2>1. Progress(p) \in {"begun", "registered"} /\ Progress(p)' = "failed"
      BY <1>2, <1>3, <1>5 DEF Progress, Behind
    <2>2. Ledger!Move(p, Progress(p), "failed")
      BY <1>1, <1>3, <2>1, ProgressMoves
    <2>3. Ledger!Stamp(p)
      BY <1>3, <2>1, <2>2 DEF Ledger!Stamp, Active, Known
    <2> QED BY <1>1, <2>3
  <1> QED BY <1>1, <1>4, <1>5

LEMMA RosterStepMaps ==
  ASSUME RosterInv, CreatesTheirDriver, [RosterNext]_rosterVars
  PROVE  Ledger!Next
  <1>1. ASSUME NEW h \in Handlers, Revive(h) \/ Insert(h) PROVE Ledger!Next
    <2>1. job[h] \in Creating
      BY <1>1, JobShapes DEF Revive, Insert, Enters, RosterInv
    <2>2. \E d \in Records : Write(h, d)
      <3>1. CASE Revive(h)
        BY <3>1 DEF Revive, RosterInv, RowsAreThere
      <3>2. CASE Insert(h)
        BY <3>2 DEF Insert, Known
      <3> QED BY <1>1, <3>1, <3>2
    <2> QED BY <2>1, <2>2, WriteRegisters DEF Ledger!Next
  <1>2. ASSUME NEW h \in Handlers, AssignCommand(h) PROVE Ledger!Next
    BY <1>2, CommandAssigns DEF Ledger!Next
  <1>3. ASSUME NEW h \in Handlers, CompletePlan(h) PROVE Ledger!Next
    BY <1>3, CompleteStamps DEF Ledger!Next
  <1>4. ASSUME NEW h \in Handlers, NEW p \in Plans, Execute(h, p) PROVE Ledger!Next
    BY <1>4, ExecuteBegins DEF Ledger!Next
  <1>5. ASSUME NEW h \in Handlers,
               CreateFromForm(h) \/ LookByName(h) \/ LookByPhone(h) \/ CreateDriverFails(h) \/ Crash(h)
        PROVE  Ledger!Next
    BY <1>5, ProgressRests
       DEF CreateFromForm, LookByName, LookByPhone, Look, CreateDriverFails, Crash, Ledger!Next
  <1>6. ASSUME NEW d \in Known, Rename(d) \/ SoftDelete(d) PROVE Ledger!Next
    BY <1>6, ProgressRests DEF Rename, SoftDelete, Change, Ledger!Next
  <1>7. CASE UNCHANGED rosterVars
    BY <1>7, ProgressRests DEF rosterVars, Ledger!Next
  <1> QED BY <1>1, <1>2, <1>3, <1>4, <1>5, <1>6, <1>7 DEF RosterNext, Serve

\* Whatever handlers die or confirm a plan again, and whatever the forms do meanwhile, a plan
\* registers its driver, then gives away its vehicle, at most once; a stamp is never revised.
THEOREM PlansFollowTheLedger == RosterSpec => ImplementsPlanLedger
  <1>1. RosterInit => Ledger!Init
    BY DEF RosterInit, Ledger!Init, Progress, Active, Known
  <1>2. RosterInit => CreatesTheirDriver
    BY DEF RosterInit, CreatesTheirDriver, Works
  <1>3. RosterInv /\ CreatesTheirDriver /\ [RosterNext]_rosterVars => CreatesTheirDriver'
    BY StepCreatesTheirs
  <1>4. RosterInv /\ CreatesTheirDriver /\ [RosterNext]_rosterVars
          => [Ledger!Next]_(Ledger!ledgerVars)
    BY RosterStepMaps
  <1> QED BY <1>1, <1>2, <1>3, <1>4, RosterInvariance, PTL DEF RosterSpec, ImplementsPlanLedger, Ledger!Spec

-----------------------------------------------------------------------------
(***************************************************************************)
(* The lists of the admin pages, for any number of loads and edits.  The   *)
(* newest load was sent after the newest answer to an edit, and for the    *)
(* tab of the page or by an edit.                                          *)
(***************************************************************************)
Versions == Nat \cup {Unread}
LoadRecords == [no : Nat, tab : DeviceTabs, by : Causes, frees : BOOLEAN, version : Versions]
EditRecords == [no : Nat, tab : DeviceTabs, guarded : BOOLEAN, at : Versions]

ListTypes ==
  /\ tab \in DeviceTabs /\ sent \in Nat /\ begun \in Nat /\ version \in Nat /\ acked \in Nat
  /\ list \in [no : Nat, tab : DeviceTabs, by : Causes, version : Nat]
  /\ loads \subseteq LoadRecords /\ rowEdits \subseteq EditRecords

\* Nothing is newer than what has been sent or committed.
InThePast ==
  /\ list.no <= sent /\ acked <= version
  /\ \A l \in loads : l.no <= sent
  /\ \A e \in rowEdits : e.at <= version

\* The rows of a load are of the tab the page is on, or were asked for by an edit.
Suits(l) == l.tab = tab \/ l.by = "edit"

\* The newest load, under way or on the screen, suits the page and knows what it was told of.
NewestIsCurrent ==
  /\ \A l \in loads : l.no = sent => Suits(l) /\ (l.version = Unread \/ l.version >= acked)
  /\ list.no = sent => Suits(list) /\ list.version >= acked

ListInv == ListTypes /\ InThePast /\ NewestIsCurrent

LEMMA ListInitInv == ListsInit => ListInv
  <1> SUFFICES ASSUME ListsInit PROVE ListInv
    OBVIOUS
  <1>1. /\ tab = "pending" /\ tab \in DeviceTabs /\ sent = 1 /\ begun = 0 /\ version = 0
        /\ acked = 0
        /\ rowEdits = {}
    BY ListsAssumption DEF ListsInit
  <1>2. list = [no |-> 0, tab |-> tab, by |-> "page", version |-> 0]
    BY DEF ListsInit, NoRows
  <1>3. loads = {[no |-> 1, tab |-> tab, by |-> "page", frees |-> FALSE, version |-> Unread]}
    BY DEF ListsInit, Load
  <1>4. ListTypes
    BY <1>1, <1>2, <1>3 DEF ListTypes, LoadRecords, EditRecords, Versions, Causes
  <1>5. InThePast /\ NewestIsCurrent
    BY <1>1, <1>2, <1>3 DEF InThePast, NewestIsCurrent, Suits
  <1> QED BY <1>4, <1>5 DEF ListInv

\* What a new load is.
LEMMA LoadIsNew ==
  ASSUME ListInv, NEW t \in DeviceTabs, NEW cause \in Causes, NEW frees \in BOOLEAN,
         StartLoad(t, cause, frees)
  PROVE  \E new \in LoadRecords :
           /\ loads' = loads \cup {new} /\ sent' = sent + 1 /\ sent' \in Nat
           /\ new.no = sent + 1 /\ new.tab = t /\ new.by = cause /\ new.version = Unread
  <1> DEFINE new == [no |-> sent + 1, tab |-> t, by |-> cause, frees |-> frees, version |-> Unread]
  <1>1. sent \in Nat
    BY DEF ListInv, ListTypes
  <1>2. new \in LoadRecords
    BY <1>1 DEF LoadRecords, Versions
  <1>3. loads' = loads \cup {new} /\ sent' = sent + 1
    BY DEF StartLoad, Load
  <1> QED BY <1>1, <1>2, <1>3

\* A load for the tab the page is on, or by an edit, is the newest one.
LEMMA NewLoadKeeps ==
  ASSUME ListInv, NEW t \in DeviceTabs, NEW cause \in Causes, NEW frees \in BOOLEAN,
         StartLoad(t, cause, frees), tab' \in DeviceTabs, t = tab' \/ cause = "edit",
         UNCHANGED <<list, begun, version>>, rowEdits' \subseteq rowEdits, acked' \in Nat, acked' <= version
  PROVE  ListInv'
  <1>1. PICK new \in LoadRecords :
           /\ loads' = loads \cup {new} /\ sent' = sent + 1 /\ sent' \in Nat
           /\ new.no = sent + 1 /\ new.tab = t /\ new.by = cause /\ new.version = Unread
    BY LoadIsNew
  <1>a. ListTypes /\ InThePast
    BY DEF ListInv
  <1>2. ListTypes'
    BY <1>1, <1>a DEF ListTypes
  <1>3. sent \in Nat /\ list.no \in Nat /\ \A l \in loads : l.no \in Nat
    BY <1>a DEF ListTypes, LoadRecords
  <1>4. InThePast'
    <2>1. list'.no <= sent' /\ \A l \in loads' : l.no <= sent'
      BY <1>1, <1>3, <1>a DEF InThePast
    <2>2. acked' <= version' /\ \A e \in rowEdits' : e.at <= version'
      BY <1>a DEF InThePast
    <2> QED BY <2>1, <2>2 DEF InThePast
  <1>5. NewestIsCurrent'
    <2>1. list'.no # sent' /\ \A l \in loads : l.no # sent'
      BY <1>1, <1>3, <1>a DEF InThePast
    <2>2. Suits(new)'
      BY <1>1 DEF Suits
    <2> QED BY <1>1, <2>1, <2>2 DEF NewestIsCurrent
  <1> QED BY <1>2, <1>4, <1>5 DEF ListInv

\* A load that ends takes nothing back.
LEMMA FewerLoadsKeep ==
  ASSUME ListInv, NEW gone, loads' = loads \ {gone}, UNCHANGED <<tab, list, sent, begun, version, acked>>,
         rowEdits' \subseteq rowEdits
  PROVE  ListInv'
  <1>1. ListTypes'
    BY DEF ListInv, ListTypes
  <1>2. InThePast'
    BY DEF ListInv, InThePast
  <1>3. NewestIsCurrent'
    BY DEF ListInv, NewestIsCurrent, Suits
  <1> QED BY <1>1, <1>2, <1>3 DEF ListInv

LEMMA ReadKeeps == ASSUME ListInv, NEW l \in loads, ReadRows(l) PROVE ListInv'
  <1>1. /\ loads' = (loads \ {l}) \cup {[l EXCEPT !.version = version]}
        /\ UNCHANGED <<tab, list, sent, rowEdits, begun, version, acked>>
    BY DEF ReadRows
  <1>a. ListTypes /\ InThePast /\ NewestIsCurrent
    BY DEF ListInv
  <1>2. l \in LoadRecords /\ version \in Nat /\ acked \in Nat /\ acked <= version
    BY <1>a DEF ListTypes, InThePast
  <1>3. PICK m \in LoadRecords : /\ m = [l EXCEPT !.version = version] /\ m.no = l.no
                                 /\ m.tab = l.tab /\ m.by = l.by /\ m.version = version
    <2> DEFINE w == [l EXCEPT !.version = version]
    <2>1. w \in LoadRecords /\ w.no = l.no /\ w.tab = l.tab /\ w.by = l.by /\ w.version = version
      BY <1>2 DEF LoadRecords, Versions
    <2>2. w = [l EXCEPT !.version = version]
      OBVIOUS
    <2> HIDE DEF w
    <2> QED BY <2>1, <2>2
  <1>4. ListTypes'
    BY <1>1, <1>3, <1>a DEF ListTypes
  <1>5. InThePast'
    BY <1>1, <1>3, <1>a DEF InThePast
  <1>6. NewestIsCurrent'
    <2>1. \A k \in loads : k.no = sent => Suits(k)' /\ (k.version = Unread \/ k.version >= acked')
      BY <1>1, <1>a DEF NewestIsCurrent, Suits
    <2>2. m.no = sent => Suits(m)' /\ m.version >= acked'
      BY <1>1, <1>2, <1>3, <1>a DEF NewestIsCurrent, Suits
    <2>3. list'.no = sent => Suits(list)' /\ list'.version >= acked'
      BY <1>1, <1>a DEF NewestIsCurrent, Suits
    <2> QED BY <1>1, <1>3, <2>1, <2>2, <2>3 DEF NewestIsCurrent
  <1> QED BY <1>4, <1>5, <1>6 DEF ListInv

LEMMA LandKeeps == ASSUME ListInv, NEW l \in loads, LandRows(l) PROVE ListInv'
  <1>1. /\ list' = [no |-> l.no, tab |-> l.tab, by |-> l.by, version |-> l.version]
        /\ l.version # Unread
    BY DEF LandRows, Rows
  <1>2. loads' = loads \ {l} /\ UNCHANGED <<tab, sent, rowEdits, begun, version, acked>>
    BY DEF LandRows, EndLoad
  <1>a. ListTypes /\ InThePast /\ NewestIsCurrent /\ l \in LoadRecords
    BY DEF ListInv, ListTypes
  <1>3. /\ list'.no = l.no /\ list'.tab = l.tab /\ list'.by = l.by /\ list'.version = l.version
        /\ list' \in [no : Nat, tab : DeviceTabs, by : Causes, version : Nat]
    BY <1>1, <1>a DEF LoadRecords, Versions
  <1>4. ListTypes'
    BY <1>2, <1>3, <1>a DEF ListTypes
  <1>5. InThePast'
    BY <1>2, <1>3, <1>a DEF InThePast
  <1>6. NewestIsCurrent'
    BY <1>1, <1>2, <1>3, <1>a DEF NewestIsCurrent, Suits
  <1> QED BY <1>4, <1>5, <1>6 DEF ListInv

\* An edit begins, or is committed.
LEMMA EditKeeps ==
  ASSUME ListInv, NEW new \in EditRecords, NEW rest \in SUBSET rowEdits, rowEdits' = rest \cup {new},
         version' \in Nat, version <= version', new.at <= version', begun' \in Nat,
         UNCHANGED <<tab, list, loads, sent, acked>>
  PROVE  ListInv'
  <1>a. ListTypes /\ InThePast /\ NewestIsCurrent
    BY DEF ListInv
  <1>1. ListTypes'
    BY <1>a DEF ListTypes
  <1>2. InThePast'
    <2>1. \A e \in rowEdits : e.at <= version'
      <3>1. \A e \in rowEdits : e.at \in Int
        BY <1>a DEF ListTypes, EditRecords, Versions, Unread
      <3>2. version \in Int /\ version' \in Int
        BY <1>a DEF ListTypes
      <3> QED BY <1>a, <3>1, <3>2 DEF InThePast
    <2>2. acked' <= version'
      BY <1>a DEF InThePast, ListTypes
    <2> QED BY <1>a, <2>1, <2>2 DEF InThePast
  <1>3. NewestIsCurrent'
    BY <1>a DEF NewestIsCurrent, Suits
  <1> QED BY <1>1, <1>2, <1>3 DEF ListInv

LEMMA HearKeeps ==
  ASSUME ListInv, NEW e \in rowEdits, HearEdit(e)
  PROVE  ListInv'
  <1>a. /\ e \in EditRecords /\ e.at <= version /\ acked \in Nat /\ acked <= version
        /\ tab \in DeviceTabs
    BY DEF ListInv, ListTypes, InThePast
  <1>1. /\ e.at # Unread /\ acked' = (IF e.at > acked THEN e.at ELSE acked)
        /\ rowEdits' = rowEdits \ {e} /\ StartLoad(e.tab, "edit", e.guarded)
        /\ UNCHANGED <<tab, list, begun, version>>
    BY DEF HearEdit
  <1>2. e.at \in Nat /\ e.tab \in DeviceTabs /\ e.guarded \in BOOLEAN
    BY <1>1, <1>a DEF EditRecords, Versions
  <1>3. acked' \in Nat /\ acked' <= version
    BY <1>1, <1>2, <1>a
  <1>4. "edit" \in Causes
    BY DEF Causes
  <1> QED BY <1>1, <1>2, <1>3, <1>4, <1>a, NewLoadKeeps

LEMMA FailKeeps ==
  ASSUME ListInv, NEW e \in rowEdits, EditFails(e)
  PROVE  ListInv'
  <1>a. e \in EditRecords /\ acked \in Nat /\ acked <= version /\ tab \in DeviceTabs
    BY DEF ListInv, ListTypes, InThePast
  <1>1. rowEdits' = rowEdits \ {e} /\ UNCHANGED <<tab, list, begun, version, acked>>
    BY DEF EditFails
  <1>2. CASE StartLoad(e.tab, "edit", e.guarded)
    <2>1. "edit" \in Causes
      BY DEF Causes
    <2>2. e.tab \in DeviceTabs /\ e.guarded \in BOOLEAN
      BY <1>a DEF EditRecords
    <2> QED BY <1>1, <1>2, <1>a, <2>1, <2>2, NewLoadKeeps
  <1>3. CASE UNCHANGED <<loads, sent>>
    <2>1. ListTypes' /\ InThePast'
      BY <1>1, <1>3 DEF ListInv, ListTypes, InThePast
    <2>2. NewestIsCurrent'
      BY <1>1, <1>3 DEF ListInv, NewestIsCurrent, Suits
    <2> QED BY <2>1, <2>2 DEF ListInv
  <1> QED BY <1>2, <1>3 DEF EditFails

LEMMA ListStepInv == ASSUME ListInv, [ListsNext]_listVars PROVE ListInv'
  <1>a. ListTypes /\ InThePast
    BY DEF ListInv
  <1>b. "page" \in Causes /\ tab \in DeviceTabs /\ acked \in Nat /\ acked <= version
    BY <1>a DEF Causes, ListTypes, InThePast
  <1>1. ASSUME NEW t \in DeviceTabs, ChooseTab(t) PROVE ListInv'
    BY <1>1, <1>b, NewLoadKeeps DEF ChooseTab
  <1>2. CASE FocusList
    BY <1>2, <1>b, NewLoadKeeps DEF FocusList
  <1>3. ASSUME NEW l \in loads, LoadFails(l) PROVE ListInv'
    BY <1>3, FewerLoadsKeep DEF LoadFails, EndLoad
  <1>4. ASSUME NEW guarded \in BOOLEAN, BeginEdit(guarded) PROVE ListInv'
    <2> DEFINE new == [no |-> begun + 1, tab |-> tab, guarded |-> guarded, at |-> Unread]
    <2>1. begun \in Nat /\ version \in Nat /\ Unread <= version
      BY <1>a DEF ListTypes, Unread
    <2>2. new \in EditRecords /\ new.at = Unread
      BY <1>b, <2>1 DEF EditRecords, Versions
    <2>3. /\ rowEdits' = rowEdits \cup {new} /\ begun' = begun + 1
          /\ UNCHANGED <<tab, list, loads, sent, version, acked>>
      BY <1>4 DEF BeginEdit
    <2> HIDE DEF new
    <2> QED BY <2>1, <2>2, <2>3, EditKeeps
  <1>5. ASSUME NEW e \in rowEdits, CommitEdit(e) PROVE ListInv'
    <2> DEFINE new == [e EXCEPT !.at = version + 1]
    <2>1. e \in EditRecords /\ version \in Nat /\ begun \in Nat
      BY <1>a DEF ListTypes
    <2>2. new \in EditRecords /\ new.at = version + 1
      BY <2>1 DEF EditRecords, Versions
    <2>3. /\ rowEdits' = (rowEdits \ {e}) \cup {new} /\ version' = version + 1
          /\ UNCHANGED <<tab, list, loads, sent, begun, acked>>
      BY <1>5 DEF CommitEdit
    <2> HIDE DEF new
    <2>4. rowEdits \ {e} \in SUBSET rowEdits /\ version' \in Nat /\ version <= version' /\ new.at <= version' /\ begun' \in Nat
      BY <2>1, <2>2, <2>3
    <2> QED BY <2>2, <2>3, <2>4, EditKeeps
  <1>6. CASE OtherEdit
    <2>1. version' = version + 1 /\ UNCHANGED <<tab, list, loads, sent, rowEdits, begun, acked>>
      BY <1>6 DEF OtherEdit
    <2>2. \A e \in rowEdits : e.at \in Int
      BY <1>a DEF ListTypes, EditRecords, Versions, Unread
    <2>3. ListTypes' /\ InThePast'
      BY <1>a, <2>1, <2>2 DEF ListTypes, InThePast
    <2> QED BY <2>1, <2>3 DEF ListInv, NewestIsCurrent, Suits
  <1>7. CASE UNCHANGED listVars
    BY <1>7 DEF listVars, ListInv, ListTypes, InThePast, NewestIsCurrent, Suits
  <1> QED
    BY <1>1, <1>2, <1>3, <1>4, <1>5, <1>6, <1>7, ReadKeeps, LandKeeps, HearKeeps, FailKeeps
       DEF ListsNext

\* Whatever order the answers come in, when the newest load was answered last and nothing is under
\* way, the rows know every edit the page was told of, and are those of its tab unless an edit that
\* began on another tab asked for them (refresh of the admin sections).
THEOREM NewestRowsAreCurrent == ListsSpec => []ListIsCurrent
  <1>1. ListsInit => ListInv
    BY ListInitInv
  <1>2. ListInv /\ [ListsNext]_listVars => ListInv'
    BY ListStepInv
  <1>3. ListInv => ListIsCurrent
    BY DEF ListInv, NewestIsCurrent, Suits, ListIsCurrent, InOrder
  <1> QED BY <1>1, <1>2, <1>3, PTL DEF ListsSpec

\* Numbers of loads and edits stay within their bounds, and nothing is acknowledged before it is
\* committed (refresh and the handlers of the three sections).
LEMMA ListTypeStep ==
  ASSUME ListInv, ListsTypeOK, [ListsNext]_listVars
  PROVE  ListsTypeOK'
  <1> USE DEF ListsTypeOK
  <1>1. /\ MaxLoads \in Nat /\ MaxRowEdits \in Nat /\ sent \in 0 .. MaxLoads /\ begun \in 0 .. MaxRowEdits
        /\ version \in Nat /\ acked \in Nat
        /\ loads \subseteq LoadRecords /\ rowEdits \subseteq EditRecords
        /\ "page" \in Causes /\ "edit" \in Causes
        /\ phase \in {"loading", "ready", "error"} /\ busy \in BOOLEAN /\ Unread = -1
    BY ListsAssumption DEF ListInv, ListTypes, Causes, Unread
  <1>2. ASSUME NEW t \in DeviceTabs, NEW cause \in Causes, NEW frees \in BOOLEAN,
               StartLoad(t, cause, frees)
        PROVE  /\ sent' \in 0 .. MaxLoads /\ phase' \in {"loading", "ready", "error"}
               /\ \A l \in loads' : /\ l.no \in 1 .. sent' /\ l.tab \in DeviceTabs
                                    /\ l.by \in Causes /\ l.frees \in BOOLEAN
                                    /\ l.version \in Nat \cup {Unread}
    BY <1>1, <1>2 DEF StartLoad, Load, PhaseWhile
  <1>3. CASE (\E t \in DeviceTabs : ChooseTab(t)) \/ FocusList
    BY <1>1, <1>2, <1>3 DEF ChooseTab, FocusList
  <1>4. ASSUME NEW l \in loads, ReadRows(l) \/ LandRows(l) \/ LoadFails(l)
        PROVE  ListsTypeOK'
    <2>1. CASE ReadRows(l)
      <3>1. [l EXCEPT !.version = version] =
              [no |-> l.no, tab |-> l.tab, by |-> l.by, frees |-> l.frees, version |-> version]
        BY <1>1 DEF LoadRecords
      <3> QED BY <1>1, <2>1, <3>1 DEF ReadRows
    <2>2. CASE LandRows(l)
      <3>1. list' \in [no : 0 .. MaxLoads, tab : DeviceTabs, by : Causes, version : Nat]
        BY <1>1, <2>2 DEF LandRows, Rows
      <3> QED BY <1>1, <2>2, <3>1 DEF LandRows, EndLoad
    <2>3. CASE LoadFails(l)
      BY <1>1, <2>3 DEF LoadFails, EndLoad
    <2> QED BY <1>4, <2>1, <2>2, <2>3
  <1>5. CASE \E guarded \in BOOLEAN : BeginEdit(guarded)
    BY <1>1, <1>5 DEF BeginEdit
  <1>6. ASSUME NEW e \in rowEdits, CommitEdit(e) \/ HearEdit(e) \/ EditFails(e)
        PROVE  ListsTypeOK'
    <2>1. CASE CommitEdit(e)
      <3>1. [e EXCEPT !.at = version + 1] =
              [no |-> e.no, tab |-> e.tab, guarded |-> e.guarded, at |-> version + 1]
        BY <1>1 DEF EditRecords
      <3>2. /\ rowEdits' = (rowEdits \ {e}) \cup {[e EXCEPT !.at = version + 1]} /\ version' = version + 1
            /\ UNCHANGED <<section, tab, phase, busy, list, loads, sent, begun, acked>>
        BY <2>1 DEF CommitEdit
      <3>3. \A x \in rowEdits' : /\ x.no \in 1 .. begun' /\ x.tab \in DeviceTabs
                                 /\ x.guarded \in BOOLEAN /\ x.at \in Nat \cup {Unread}
        <4> DEFINE new == [e EXCEPT !.at = version + 1]
        <4>1. /\ new.no = e.no /\ new.tab = e.tab /\ new.guarded = e.guarded /\ new.at = version + 1
          BY <3>1
        <4> HIDE DEF new
        <4>2. /\ new.no \in 1 .. begun /\ new.tab \in DeviceTabs
              /\ new.guarded \in BOOLEAN /\ new.at \in Nat \cup {Unread}
          BY <1>1, <4>1
        <4>3. \A x \in rowEdits' : x \in rowEdits \/ x = new
          BY <3>2 DEF new
        <4> QED BY <3>2, <4>2, <4>3
      <3> QED BY <1>1, <3>2, <3>3
    <2>2. CASE HearEdit(e)
      <3>1. acked' \in 0 .. version
        BY <1>1, <2>2 DEF HearEdit, ListInv, InThePast
      <3> QED BY <1>1, <1>2, <2>2, <3>1 DEF HearEdit
    <2>3. CASE EditFails(e)
      <3>1. rowEdits' \subseteq rowEdits /\ UNCHANGED <<section, tab, list, begun, version, acked>>
        BY <2>3 DEF EditFails
      <3>2. CASE section = "reference"
        <4>1. StartLoad(e.tab, "edit", e.guarded) /\ busy' = busy
          BY <2>3, <3>2 DEF EditFails
        <4> QED BY <1>1, <1>2, <3>1, <4>1
      <3>3. CASE section # "reference"
        <4>1. busy' \in BOOLEAN /\ UNCHANGED <<phase, loads, sent>>
          BY <2>3, <3>3 DEF EditFails
        <4> QED BY <1>1, <3>1, <4>1
      <3> QED BY <3>2, <3>3
    <2> QED BY <1>6, <2>1, <2>2, <2>3
  <1>7. CASE OtherEdit \/ UNCHANGED listVars
    BY <1>1, <1>7 DEF OtherEdit, listVars
  <1> QED BY <1>3, <1>4, <1>5, <1>6, <1>7 DEF ListsNext

\* Whatever is loaded and edited, the page of a section stays typed: no load or edit has a number
\* that was not given out, and no edit is acknowledged that was not committed.
THEOREM ListTypesHold == ListsSpec => []ListsTypeOK
  <1>1. ListsInit => ListInv /\ ListsTypeOK
    <2> SUFFICES ASSUME ListsInit PROVE ListInv /\ ListsTypeOK
      OBVIOUS
    <2>1. ListInv
      BY ListInitInv
    <2>2. /\ loads = {Load(1, "pending", "page", FALSE)} /\ list = NoRows("pending")
          /\ tab = "pending" /\ tab \in DeviceTabs /\ sent = 1 /\ begun = 0 /\ rowEdits = {}
          /\ version = 0 /\ acked = 0 /\ phase = "loading" /\ busy = FALSE
          /\ section \in Sections
      BY ListsAssumption DEF ListsInit
    <2>3. /\ NoRows("pending") \in
               [no : 0 .. MaxLoads, tab : DeviceTabs, by : Causes, version : Nat]
          /\ sent \in 0 .. MaxLoads /\ begun \in 0 .. MaxRowEdits /\ acked \in 0 .. version
      BY <2>2, ListsAssumption DEF NoRows, Causes
    <2>4. \A l \in loads :
            /\ l.no \in 1 .. sent /\ l.tab \in DeviceTabs /\ l.by \in Causes
            /\ l.frees \in BOOLEAN /\ l.version \in Nat \cup {Unread}
      <3>1. \A l \in loads : l.no = 1
        BY <2>2 DEF Load
      <3>2. \A l \in loads : l \in LoadRecords
        BY <2>1 DEF ListInv, ListTypes
      <3>3. \A l \in LoadRecords : /\ l.tab \in DeviceTabs /\ l.by \in Causes
                                   /\ l.frees \in BOOLEAN /\ l.version \in Nat \cup {Unread}
        BY DEF LoadRecords, Versions
      <3>4. 1 \in 1 .. sent
        BY <2>2
      <3> QED BY <3>1, <3>2, <3>3, <3>4
    <2>5. ListsTypeOK
      BY <2>2, <2>3, <2>4 DEF ListsTypeOK
    <2> QED BY <2>1, <2>5
  <1>2. ListInv /\ ListsTypeOK /\ [ListsNext]_listVars
          => (ListInv /\ ListsTypeOK)'
    BY ListStepInv, ListTypeStep
  <1> QED BY <1>1, <1>2, PTL DEF ListsSpec
=============================================================================
