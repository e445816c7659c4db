-------------------------- MODULE MCAdministration --------------------------
(***************************************************************************)
(* Small instances of OrderDesk, DriverRoster and AdminLists, side by      *)
(* side.  They share no state: the first state chooses which of the three  *)
(* takes steps.                                                            *)
(***************************************************************************)
EXTENDS OrderDesk, DriverRoster, AdminLists, TLC

CONSTANTS d1, d2, v1, f1, f2, t1, t2, r1, r2, r3, an, binh, ph1, ph2, h1, h2, plan1

TwoDrivers == {d1, d2}
OneDriver == {d1}
OneVehicle == {v1}
TwoForms == {f1, f2}
TwoTxns == {t1, t2}

ThreeRecords == {r1, r2, r3}
TwoNames == {an, binh}
TwoPhones == {ph1, ph2}
TwoHandlers == {h1, h2}
OnePlan == {plan1}
OnePlanOf == [p \in OnePlan |-> <<an, ph1, v1>>]

VARIABLE office

AdminInit ==
  /\ Init /\ RosterInit /\ ListsInit
  /\ office \in {"desk", "roster", "lists"}
  /\ office # "lists" => section = "drivers"

AdminNext ==
  /\ \/ office = "desk" /\ Next /\ UNCHANGED <<rosterVars, listVars>>
     \/ office = "roster" /\ RosterNext /\ UNCHANGED <<vars, listVars>>
     \/ office = "lists" /\ ListsNext /\ UNCHANGED <<vars, rosterVars>>
  /\ UNCHANGED office

AdminSpec == AdminInit /\ [][AdminNext]_<<vars, rosterVars, listVars, office>>

Symmetry ==
  Permutations(TwoForms) \cup Permutations(TwoTxns)
  \cup Permutations(TwoHandlers)
=============================================================================
