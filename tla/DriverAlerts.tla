----------------------------- MODULE DriverAlerts -----------------------------
(***************************************************************************)
(* The alert that wakes a driver for a new order, and the monitor that is  *)
(* to page when one is lost                                                *)
(* (apps/api/src/alerts/alerts-consumer.service.ts,                        *)
(* apps/api/src/manifest/alert-lag-monitor.service.ts, alert-lag.repo.ts). *)
(*                                                                         *)
(* The alert is a row the order's own transaction puts in the outbox; the  *)
(* relay publishes it, a consumer pushes it to the driver's devices, and   *)
(* every five minutes the monitor reads the outbox, twice: first the dead  *)
(* letters, then the oldest row not sent yet.  Relay, consumer and monitor *)
(* live in one api process and die together.  The module extends           *)
(* OutboxRelay, whose rows, relay and jobs are the alerts' own.            *)
(***************************************************************************)
EXTENDS OutboxRelay

CONSTANTS
  Drivers,
  Platforms,   \* a driver has at most one registered device of each
  DriverOf     \* DriverOf[r]: the assigned operator in the body of row r

ASSUME AlertAssumption == DriverOf \in [Rows -> Drivers]

VARIABLES
  registered,  \* registered[d]: platforms of d whose row has a push token
  told,        \* rows whose push was accepted for a device of the driver
  aged,        \* rows up to this rank are older than the threshold
  stalled,     \* AlertLagMonitorService.stalled, in memory
  look,        \* the check under way: <<>>, or the dead letters it has read
  known,       \* history: misses a check saw with a page sent for the episode
  bell         \* history: what became of the stall since the last page

alertVars == <<registered, told, aged, stalled, look, known, bell>>
allVars == <<vars, alertVars>>

\* Rows the emission stamps as alerts; the relay polls the others as well.
Alerts == {r \in Rows : payload[r].aggregateType = "driver_alert"}

\* No page since the last recovery or restart; one; one, and the stall was out of the
\* monitor's sight since; a second page after that; a second page with nothing between.
Bells == {"armed", "rung", "hidden", "repeated", "again"}

AlertTypeOK ==
  /\ TypeOK
  /\ registered \in [Drivers -> SUBSET Platforms]
  /\ told \subseteq Rows
  /\ aged \in Nat
  /\ stalled \in BOOLEAN
  /\ look = <<>> \/ \E seenDead \in SUBSET Rows : look = <<seenDead>>
  /\ known \subseteq Rows
  /\ bell \in Bells

AlertInit ==
  /\ Init
  /\ registered = [d \in Drivers |-> {}]
  /\ told = {}
  /\ aged = 0
  /\ stalled = FALSE
  /\ look = <<>>
  /\ known = {}
  /\ bell = "armed"

-----------------------------------------------------------------------------
Dead == {r \in Alerts : status[r] = "dead_letter"}
Unsent == {r \in Alerts : status[r] \in {"pending", "failed"}}

\* The oldest unsent alert is past the threshold.
Stuck == \E r \in Unsent : r <= aged

\* Mutant of Misses: dead letters do not count.
MissesUnsent(dead) == IF Stuck THEN Unsent ELSE {}

\* The misses in a snapshot whose first read returned dead, its second made now.
Misses(dead) == dead \cup (IF Stuck THEN Unsent ELSE {})

\* What the monitor could see now.
Visible == Dead # {} \/ Stuck

\* The stall: what it could see, and the overdue alerts a relay has claimed, which are
\* 'sent' for the moment and may fail once more.
Stall ==
  Dead \cup {r \in Alerts : r <= aged /\ (r \in Unsent \/ \E p \in Relays : r \in held[p])}

\* The stall is over, or hidden: nothing of it is visible, or the relay claims rows
\* between the two reads of a check, each of which can then miss what the other sees.
Follow(hides) ==
  bell' = IF Stall' = {} THEN "armed"
          ELSE IF bell # "armed" /\ (hides \/ ~Visible') THEN "hidden"
          ELSE bell

-----------------------------------------------------------------------------
\* A step of the outbox or of its relay.
OutboxStep ==
  /\ \/ \E r \in Rows : InsertRow(r) \/ BackoffElapses(r)
     \/ \E p \in Relays : RelayStep(p) \/ Abandon(p)
  /\ UNCHANGED <<registered, told, aged, stalled, look, known>>
  /\ Follow(look # <<>> /\ \E p \in Relays : Claim(p))

\* DeviceEnrollmentService.enroll with a token: the row of (driver, platform) is
\* inserted or updated.  Without one the column keeps what it has.
Enroll(d, f) ==
  /\ registered' = [registered EXCEPT ![d] = @ \cup {f}]
  /\ UNCHANGED <<vars, told, aged, stalled, look, known, bell>>

\* AlertsConsumerService.process: nothing accepted throws, and the job stays failed.
Deliver(r, accepted) ==
  IF accepted = {} THEN jobs'[r] = "failed" /\ told' = told
                   ELSE jobs'[r] = "completed" /\ told' = told \cup {r}

\* The consumer runs the job of r: the push service accepts some of the
\* messages to the devices that have a token.  Other queues have other workers.
ConsumeJob(r) ==
  /\ RunJob(r)
  /\ \/ r \in Alerts /\ \E accepted \in SUBSET registered[DriverOf[r]] : Deliver(r, accepted)
     \/ r \notin Alerts /\ UNCHANGED told
  /\ UNCHANGED <<registered, aged, stalled, look, known, bell>>

\* The threshold passes for the next row by created_at.
GrowOld ==
  /\ \E r \in Rows : r > aged
  /\ aged' = aged + 1
  /\ UNCHANGED <<vars, registered, told, stalled, look, known>>
  /\ Follow(FALSE)

\* checkOnce, first read: the dead letters.
ReadDead ==
  /\ look = <<>>
  /\ look' = <<Dead>>
  /\ UNCHANGED <<vars, registered, told, aged, stalled, known, bell>>

\* The bell after a page.
Rung == [armed |-> "rung", hidden |-> "repeated", rung |-> "again", repeated |-> "again",
         again |-> "again"]

\* Mutant of PageOnce: the flag is not read.
PageAlways == bell' = Rung[bell]

\* One fatal event, unless the flag is up.
PageOnce == IF stalled THEN UNCHANGED bell ELSE bell' = Rung[bell]

\* checkOnce, second read and verdict: page unless the episode was paged, or
\* re-arm when the snapshot holds no miss.
Decide ==
  /\ look # <<>> /\ look' = <<>>
  /\ LET missed == Misses(look[1]) IN
       \/ missed = {} /\ stalled' = FALSE /\ UNCHANGED <<known, bell>>
       \/ missed # {} /\ stalled' = TRUE /\ known' = known \cup missed /\ PageOnce
  /\ UNCHANGED <<vars, registered, told, aged>>

\* The api process dies and starts again: relay and monitor forget.
ApiDies ==
  /\ crashes < MaxCrashes
  /\ held' = [p \in Relays |-> {}]
  /\ seen' = [p \in Relays |-> [r \in Rows |-> 0]]
  /\ failing' = [p \in Relays |-> {}]
  /\ crashes' = crashes + 1
  /\ abandoned' = abandoned \cup UNION {held[p] : p \in Relays}
  /\ stalled' = FALSE /\ look' = <<>> /\ bell' = "armed"
  /\ UNCHANGED <<rowVars, brokerVars, registered, told, aged, known>>

AlertNext ==
  \/ OutboxStep
  \/ \E d \in Drivers, f \in Platforms : Enroll(d, f)
  \/ \E r \in Rows : ConsumeJob(r)
  \/ GrowOld \/ ReadDead \/ Decide \/ ApiDies

AlertSpec == AlertInit /\ [][AlertNext]_allVars

\* The scheduler runs the relay and the check for ever, the consumer takes its
\* jobs one after the other, and time passes.  No driver has to enrol.
AlertFairness ==
  /\ Fairness
  /\ WF_allVars(GrowOld) /\ WF_allVars(ReadDead \/ Decide)

FairAlertSpec == AlertSpec /\ AlertFairness

-----------------------------------------------------------------------------
\* A row the monitor cannot see although its driver was not told: its job failed
\* in the consumer, or a death of the relay left it 'sent' without a job.
Unseen(r) == r \notin told /\ (jobs[r] = "failed" \/ r \in abandoned)

\* The alert of a committed order reaches a device of its driver, or a page tells
\* of the episode it was lost in; the two losses behind the outbox are unseen.
MissIsKnown ==
  \A r \in Rows : (r \in Alerts /\ status[r] = "pending")
                    ~> (r \in told \/ r \in known \/ Unseen(r))

\* "ONE fatal per stall episode" (alert-lag-monitor.service.ts:12): a second page needs a
\* recovery or a restart.  The code does not keep it: a claim takes the row that is
\* failing out of both reads, the flag comes down, and the stall is paged again.
OnePagePerStall == bell \notin {"repeated", "again"}

\* What is left of it: between two pages the stall ends, the process restarts, or the
\* relay hides the stall, by holding all of it or by a claim between the two reads.
SecondPageHasCause == bell # "again"
=============================================================================
