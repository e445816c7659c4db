------------------------------ MODULE MCDispatch ------------------------------
(***************************************************************************)
(* Small instances of a run on the server (RunLifecycle) and of the        *)
(* commands that tell its driver (CommandDelivery), side by side.  They    *)
(* share no state: the first state chooses which of the two takes steps.   *)
(***************************************************************************)
EXTENDS RunLifecycle, MCCommandDelivery

CONSTANTS t1, t2, s1, s2, m1, m2, m3, changed, mistaken

TwoTxns == {t1, t2}
TwoStops == {s1, s2}
ThreePhotos == {m1, m2, m3}
TwoReasons == {changed, mistaken}

VARIABLE side

DispatchInit == Init /\ CommandInit /\ side \in {"run", "commands"}

DispatchNext ==
  /\ \/ side = "run" /\ Next /\ UNCHANGED commandVars
     \/ side = "commands" /\ CommandNext /\ UNCHANGED vars
  /\ UNCHANGED side

\* Fairness and CommandFairness, each while its side takes the steps.
SideFairness ==
  /\ \A t \in Txns : WF_vars(side = "run" /\ Writes(t))
  /\ SF_vars(side = "run" /\ \E t \in Txns : ReconcileReads(t))
  /\ WF_commandVars(side = "commands" /\ ReconcileNow)
  /\ \A c \in Commands :
       /\ WF_commandVars(side = "commands" /\ TimeOut(c))
       /\ WF_commandVars(side = "commands" /\ (PushAccepted(c) \/ PushFailed(c)))
       /\ WF_commandVars(side = "commands" /\ PushCommand(c))
  /\ \A d \in Devices, c \in Commands :
       /\ WF_commandVars(side = "commands" /\ ReceiveCommand(d, c))
       /\ WF_commandVars(side = "commands" /\ HandlesAckOf(d, c))

DispatchSpec ==
  DispatchInit /\ [][DispatchNext]_<<vars, commandVars, side>> /\ SideFairness
=============================================================================
