---------------------------- MODULE DriverRoster ----------------------------
(***************************************************************************)
(* The drivers of one company: who is registered under which name and      *)
(* phone (apps/api/src/admin) and the copilot's plans, which register a    *)
(* driver and give the driver a vehicle (apps/api/src/copilot).            *)
(*                                                                         *)
(* A create is four statements, each committed by itself: a soft-deleted   *)
(* row of the name is looked for, then one of the phone, and the row found *)
(* is revived; otherwise a row is inserted.  Two unique indexes cover the  *)
(* names and the phones of the active rows only.                           *)
(***************************************************************************)
EXTENDS Naturals

CONSTANTS
  Records,         \* ids of rows that may be inserted
  Names, Phones,   \* canonical names and phones
  Trucks,
  Handlers,        \* requests served at once
  Plans,           \* plans a dispatcher may confirm, any number of times
  PlanOf,          \* PlanOf[p]: the name, the phone and the vehicle of plan p
  MaxDeletes,      \* bound on soft deletes and renames
  None

Row == [name : Names, phone : Phones, active : BOOLEAN]

ASSUME RosterAssumption ==
  /\ None \notin Records \cup Plans \cup Row
  /\ PlanOf \in [Plans -> Names \X Phones \X Trucks]
  /\ MaxDeletes \in Nat

VARIABLES
  driver,       \* driver[d]: a row, or None before it is inserted
  assignments,  \* live rows of driver_vehicle_assignment
  ledger,       \* ledger[p]: row of copilot_plan_execution
  job,          \* job[h]: what handler h is doing
  effects,      \* history: how often a plan's commands took effect
  deletes

rosterVars == <<driver, assignments, ledger, job, effects, deletes>>

NoJob == [at |-> "idle"]
Creating == [at : {"name", "phone", "revive", "insert"}, name : Names, phone : Phones,
             plan : Plans \cup {None}, row : Records \cup {None}, raced : BOOLEAN]
Executing == [at : {"assign", "done", "failed"}, plan : Plans, row : Records \cup {None}]

RosterTypeOK ==
  /\ driver \in [Records -> Row \cup {None}]
  /\ assignments \subseteq Records \X Trucks
  /\ ledger \in [Plans -> {"absent", "started", "completed", "failed"}]
  /\ job \in [Handlers -> {NoJob} \cup Creating \cup Executing]
  /\ effects \in [Plans -> [created : Nat, assigned : Nat]]
  /\ deletes \in 0 .. MaxDeletes

RosterInit ==
  /\ driver = [d \in Records |-> None]
  /\ assignments = {}
  /\ ledger = [p \in Plans |-> "absent"]
  /\ job = [h \in Handlers |-> NoJob]
  /\ effects = [p \in Plans |-> [created |-> 0, assigned |-> 0]]
  /\ deletes = 0

Known == {d \in Records : driver[d] # None}
Active == {d \in Known : driver[d].active}
Deleted == Known \ Active

-----------------------------------------------------------------------------
(* Creating a driver *)

Begin(name, phone, plan) ==
  [at |-> "name", name |-> name, phone |-> phone, plan |-> plan, row |-> None, raced |-> FALSE]

CreateFromForm(h) ==
  /\ job[h] = NoJob
  /\ \E n \in Names, ph \in Phones : job' = [job EXCEPT ![h] = Begin(n, ph, None)]
  /\ UNCHANGED <<driver, assignments, ledger, effects, deletes>>

\* What SELECT ... LIMIT 1 finds sends the handler to the update, else it goes on to `next'.
Look(h, found, next) ==
  /\ IF found = {} THEN job' = [job EXCEPT ![h].at = next]
     ELSE \E d \in found : job' = [job EXCEPT ![h].at = "revive", ![h].row = d]
  /\ UNCHANGED <<driver, assignments, ledger, effects, deletes>>

LookByName(h) ==
  /\ job[h].at = "name"
  /\ Look(h, {d \in Deleted : driver[d].name = job[h].name}, "phone")

\* Mutant of DeletedTwins: the phone is left to the index, which does not cover deleted rows.
NoTwins(phone) == {d \in Deleted : phone \notin Phones}

DeletedTwins(phone) == {d \in Deleted : driver[d].phone = phone}

LookByPhone(h) ==
  /\ job[h].at = "phone"
  /\ Look(h, DeletedTwins(job[h].phone), "insert")

\* The two partial unique indexes, over the active rows.
Free(d, name, phone) ==
  \A e \in Active \ {d} : driver[e].name # name /\ driver[e].phone # phone

\* A create that ends: a form is answered, a plan goes on to its next command.
Created(h, d) ==
  LET p == job[h].plan IN
  IF p = None THEN job' = [job EXCEPT ![h] = NoJob] /\ UNCHANGED effects
  ELSE /\ job' = [job EXCEPT ![h] = [at |-> "assign", plan |-> p, row |-> d]]
       /\ effects' = [effects EXCEPT ![p].created = @ + 1]

\* A unique index refuses the row, or a statement fails.
CreateDriverFails(h) ==
  /\ job[h] \in Creating
  /\ job' = [job EXCEPT ![h] = IF job[h].plan = None THEN NoJob
                               ELSE [at |-> "failed", plan |-> job[h].plan, row |-> None]]
  /\ UNCHANGED <<driver, assignments, ledger, effects, deletes>>

Write(h, d) ==
  /\ Free(d, job[h].name, job[h].phone)
  /\ driver' = [driver EXCEPT ![d] = [name |-> job[h].name, phone |-> job[h].phone, active |-> TRUE]]
  /\ Created(h, d)
  /\ UNCHANGED <<assignments, ledger, deletes>>

\* UPDATE driver SET active = true ... WHERE driver_id = the row that was found.
Revive(h) == job[h].at = "revive" /\ Write(h, job[h].row)

\* A new row; one fresh id is as good as another.
Insert(h) ==
  /\ job[h].at = "insert" /\ Known # Records
  /\ Write(h, CHOOSE d \in Records : d \notin Known)

-----------------------------------------------------------------------------
(* Plans *)

\* Mutant of Claims: every confirmation runs the plan.
ClaimsAlways(p) == p \in Plans

\* tryBegin: INSERT ... ON CONFLICT DO NOTHING RETURNING.
Claims(p) == ledger[p] = "absent"

\* A confirmation that does not claim the plan is answered `duplicate'.
Execute(h, p) ==
  /\ job[h] = NoJob
  /\ Claims(p)
  /\ ledger' = [ledger EXCEPT ![p] = "started"]
  /\ job' = [job EXCEPT ![h] = Begin(PlanOf[p][1], PlanOf[p][2], p)]
  /\ UNCHANGED <<driver, assignments, effects, deletes>>

\* assign: the row is inserted unless the driver or the vehicle has a live pair.
AssignCommand(h) ==
  LET p == job[h].plan  pair == <<job[h].row, PlanOf[p][3]>>
      free == \A q \in assignments : q[1] # pair[1] /\ q[2] # pair[2] IN
  /\ job[h].at = "assign"
  /\ assignments' = IF free THEN assignments \cup {pair} ELSE assignments
  /\ effects' = IF free THEN [effects EXCEPT ![p].assigned = @ + 1] ELSE effects
  /\ job' = [job EXCEPT ![h].at = IF free THEN "done" ELSE "failed"]
  /\ UNCHANGED <<driver, ledger, deletes>>

Verdict(h) == IF job[h].at = "failed" THEN "failed" ELSE "completed"

CompletePlan(h) ==
  /\ job[h].at \in {"done", "failed"}
  /\ ledger' = [ledger EXCEPT ![job[h].plan] = Verdict(h)]
  /\ job' = [job EXCEPT ![h] = NoJob]
  /\ UNCHANGED <<driver, assignments, effects, deletes>>

\* The process ends; a plan it had claimed stays started.
Crash(h) ==
  /\ job[h] # NoJob
  /\ job' = [job EXCEPT ![h] = NoJob]
  /\ UNCHANGED <<driver, assignments, ledger, effects, deletes>>

-----------------------------------------------------------------------------
(* Renames and soft deletes *)

\* Creates under way that may have missed row r.
Race(r) ==
  [h \in Handlers |->
     IF job[h] \in Creating /\ (job[h].name = r.name \/ job[h].phone = r.phone)
       THEN [job[h] EXCEPT !.raced = TRUE] ELSE job[h]]

Change(d, row) ==
  /\ deletes < MaxDeletes /\ deletes' = deletes + 1
  /\ driver' = [driver EXCEPT ![d] = row]
  /\ job' = Race(row)
  /\ UNCHANGED <<ledger, effects>>

\* update: no soft-deleted row is looked for, and only the indexes can refuse it.
Rename(d) ==
  \E n \in Names, ph \in Phones :
    /\ driver[d].active => Free(d, n, ph)
    /\ Change(d, [driver[d] EXCEPT !.name = n, !.phone = ph])
    /\ UNCHANGED assignments

SoftDelete(d) ==
  /\ Change(d, [driver[d] EXCEPT !.active = FALSE])
  /\ assignments' = {q \in assignments : q[1] # d}

-----------------------------------------------------------------------------
Serve(h) ==
  \/ LookByName(h) \/ LookByPhone(h) \/ Revive(h) \/ Insert(h) \/ CreateDriverFails(h)
  \/ AssignCommand(h) \/ CompletePlan(h)

RosterNext ==
  \/ \E h \in Handlers : CreateFromForm(h) \/ Serve(h) \/ Crash(h)
  \/ \E h \in Handlers, p \in Plans : Execute(h, p)
  \/ \E d \in Known : Rename(d) \/ SoftDelete(d)

RosterSpec == RosterInit /\ [][RosterNext]_rosterVars

-----------------------------------------------------------------------------
(* Properties *)

\* A create inserts no second identity for a name or a phone that a soft-deleted row holds,
\* unless that row was deleted or renamed while the create was looking
\* (admin-drivers-create.service.ts: "would silently create a SECOND identity").
NoSecondIdentity ==
  [][\A h \in Handlers :
       job[h].at = "insert" /\ Known' # Known /\ job'[h] # job[h] /\ ~job[h].raced =>
         \A d \in Deleted :
           driver[d].name # job[h].name /\ driver[d].phone # job[h].phone]_rosterVars

\* However often a plan is confirmed, whichever handlers die and whatever else is registered
\* meanwhile, each command takes effect at most once, in order, and a plan that is stamped
\* completed or failed was carried out to the end or was not (execute).
PlanTakesEffectOnce ==
  \A p \in Plans :
    /\ effects[p].assigned <= effects[p].created /\ effects[p].created <= 1
    /\ ledger[p] = "completed" => effects[p].assigned = 1
    /\ ledger[p] = "failed" => effects[p].assigned = 0
    /\ ledger[p] = "absent" => effects[p].created = 0

\* What the ledger and the commands' effects make of a plan, in the terms of PlanLedger.
Behind(done) ==
  IF done.created = 0 THEN "begun" ELSE IF done.assigned = 0 THEN "registered" ELSE "assigned"

Progress(p) == IF ledger[p] = "started" THEN Behind(effects[p]) ELSE ledger[p]

Ledger == INSTANCE PlanLedger WITH
  progress <- [p \in Plans |-> Progress(p)],
  staff <- {<<driver[d].name, driver[d].phone>> : d \in Active},
  fleet <- {q[2] : q \in assignments}

\* Confirmed again or abandoned by its handler, a plan registers its driver and gives away its
\* vehicle once at most, in this order, while it is started; what is stamped stays stamped.
ImplementsPlanLedger == Ledger!Spec
=============================================================================
