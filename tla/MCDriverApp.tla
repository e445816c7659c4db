----------------------------- MODULE MCDriverApp -----------------------------
(***************************************************************************)
(* Small instances of two parts of the driver's phone, side by side: the   *)
(* capture screens of one run (CaptureTrip) and one loop of the offline    *)
(* queue (DriverSync).  They share no state: the first state chooses which *)
(* of the two takes steps.                                                 *)
(***************************************************************************)
EXTENDS CaptureTrip, DriverSync, TLC

CONSTANTS s1, s2, b1, b2, b3, x, y, none, loop

TwoStops == {s1, s2}

\* Two actions of one aggregate, and one of another that waits for the first.  Requests are
\* lost twice and the layout is mounted again once; another user writes one row of the feed.
ThreeActions == {b1, b2, b3}
ThreeAggregateOf == (b1 :> x) @@ (b2 :> x) @@ (b3 :> y)
ThreeRank == (b1 :> 1) @@ (b2 :> 2) @@ (b3 :> 1)
ThreeBlocker == (b1 :> none) @@ (b2 :> none) @@ (b3 :> b1)
OneLoop == {loop}
OnlyOk == {"ok"}
LossyBudget ==
  ("loss" :> 2) @@ ("late" :> 0) @@ ("storage" :> 0) @@ ("stop" :> 1) @@ ("crash" :> 0) @@ ("row" :> 1)

VARIABLE side

PhoneInit == TripInit /\ Init /\ side \in {"trip", "queue"}

PhoneNext ==
  /\ \/ side = "trip" /\ TripNext /\ UNCHANGED vars
     \/ side = "queue" /\ Next /\ UNCHANGED tripVars
  /\ UNCHANGED side

\* TripFairness and Fairness, each while its side takes the steps.
SideFairness ==
  /\ \A m \in Manifests :
       /\ WF_tripVars(side = "trip" /\ UploadAdvances(m))
       /\ WF_tripVars(side = "trip" /\ Walk(m))
       /\ WF_tripVars(side = "trip" /\ (Intake(m) \/ RejectManifest(m)))
  /\ \A l \in Loops : /\ WF_vars(side = "queue" /\ Start(l))
                      /\ WF_vars(side = "queue" /\ Run(l))

PhoneSpec == PhoneInit /\ [][PhoneNext]_<<tripVars, vars, side>> /\ SideFairness
=============================================================================
