------------------------------- MODULE MCTimers -------------------------------
(***************************************************************************)
(* Small instances of two monitors that a timer drives, side by side: the  *)
(* alert monitor (DriverAlerts) and the break-glass poll (LoginWatch).     *)
(* They share no state: the first state chooses which of the two takes     *)
(* steps.                                                                  *)
(***************************************************************************)
EXTENDS DriverAlerts, LoginWatch, TLC

CONSTANTS d1, android, p1, l1, l2, a1, a2

TwoRows == 1..2
OneRow == {1}
OneRelay == {p1}
AlertPayloads == {Payload("driver_alert", "driver_alert.requested"), Payload("road_run", "none")}
OneDriver == {d1}
OnePlatform == {android}
AllHers == [r \in Rows |-> d1]

TwoLogins == {l1, l2}
OneBreakGlass == {l1}
TwoPollers == {a1, a2}

VARIABLE side

TimersInit ==
  /\ AlertInit /\ WatchInit
  /\ side \in {"alerts", "logins"}
  /\ side # "alerts" => \A r \in Rows : payload[r].aggregateType = "road_run"

TimersNext ==
  /\ \/ side = "alerts" /\ AlertNext /\ UNCHANGED watchVars
     \/ side = "logins" /\ WatchNext /\ UNCHANGED allVars
  /\ UNCHANGED side

\* AlertFairness and WatchFairness, each while its side takes the steps.
SideFairness ==
  /\ \A p \in Relays : WF_vars(side = "alerts" /\ RelayStep(p))
  /\ \A r \in Rows : /\ WF_vars(side = "alerts" /\ BackoffElapses(r))
                     /\ WF_vars(side = "alerts" /\ RunJob(r))
  /\ WF_allVars(side = "alerts" /\ GrowOld)
  /\ WF_allVars(side = "alerts" /\ (ReadDead \/ Decide))
  /\ \A a \in Pollers : WF_watchVars(side = "logins" /\ Poll(a))

TimersSpec == TimersInit /\ [][TimersNext]_<<allVars, watchVars, side>> /\ SideFairness
=============================================================================
