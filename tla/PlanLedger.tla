----------------------------- MODULE PlanLedger -----------------------------
(***************************************************************************)
(* What the copilot promises for each plan, without handlers, crashes or   *)
(* repeated confirmations: a plan is begun once; its driver is registered, *)
(* then gets its vehicle, each at most once; and only then is the plan     *)
(* stamped completed, or failed while the vehicle was not given.  Drivers  *)
(* and vehicles may also come and go without any plan.                     *)
(***************************************************************************)
CONSTANTS Plans, PlanOf

VARIABLES
  progress,  \* progress[p]
  staff,     \* name and phone of every active driver
  fleet      \* vehicles that have a driver

ledgerVars == <<progress, staff, fleet>>

Init ==
  /\ progress = [p \in Plans |-> "absent"]
  /\ staff = {} /\ fleet = {}

Driver(p) == <<PlanOf[p][1], PlanOf[p][2]>>
Vehicle(p) == PlanOf[p][3]

Move(p, from, to) ==
  /\ progress[p] = from
  /\ progress' = [progress EXCEPT ![p] = to]

Begin(p) == Move(p, "absent", "begun") /\ UNCHANGED <<staff, fleet>>

\* The driver may be a row that was there, under another name or phone.
Register(p) ==
  /\ Move(p, "begun", "registered")
  /\ Driver(p) \in staff'
  /\ UNCHANGED fleet

Assign(p) ==
  /\ Move(p, "registered", "assigned")
  /\ Vehicle(p) \notin fleet /\ fleet' = fleet \cup {Vehicle(p)}
  /\ UNCHANGED staff

Stamp(p) ==
  /\ \/ Move(p, "assigned", "completed")
     \/ \E from \in {"begun", "registered"} : Move(p, from, "failed")
  /\ UNCHANGED <<staff, fleet>>

\* The forms of the admin pages.
Office == UNCHANGED progress

Next ==
  \/ Office
  \/ \E p \in Plans : Begin(p) \/ Register(p) \/ Assign(p) \/ Stamp(p)

Spec == Init /\ [][Next]_ledgerVars
=============================================================================
