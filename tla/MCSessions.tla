------------------------------ MODULE MCSessions ------------------------------
(***************************************************************************)
(* Small instances of the two sessions, side by side: the driver's         *)
(* (DriverSession) and the dispatcher's (DispatcherSession).  They share   *)
(* no state: the first state chooses which of the two takes steps.         *)
(***************************************************************************)
EXTENDS DriverSession, DispatcherSession, TLC

CONSTANTS r1, r2, c1, c2, t1, t2, w1, w2

FiveTokens == 1 .. 5
TwoRequests == {r1, r2}
TwoCallers == {c1, c2}

Events(login, logout, fault) ==
  [k \in EventKinds |->
     CASE k = "login" -> login [] k = "logout" -> logout [] k = "fault" -> fault]

Rich == Events(2, 1, 1)

TwoTabs == {t1, t2}
TwoSlots == {w1, w2}

VARIABLE side

SessionsInit == Init /\ WebInit /\ side \in {"driver", "dispatcher"}

SessionsNext ==
  /\ \/ side = "driver" /\ Next /\ UNCHANGED webVars
     \/ side = "dispatcher" /\ WebNext /\ UNCHANGED vars
  /\ UNCHANGED side

\* Fairness, while the driver's side takes the steps.
SideFairness ==
  /\ \A r \in Requests : /\ WF_vars(side = "driver" /\ Handler(r))
                         /\ WF_vars(side = "driver" /\ Answered(r))
  /\ \A c \in Callers : /\ WF_vars(side = "driver" /\ Load(c))
                        /\ WF_vars(side = "driver" /\ Join(c))
  /\ WF_vars(side = "driver" /\ AccessExpires)

SessionsSpec == SessionsInit /\ [][SessionsNext]_<<vars, webVars, side>> /\ SideFairness

\* Of the browser only: its tabs and its requests.  While the driver's side takes the steps the
\* browser stays as it began, which every permutation maps to itself: nothing is identified
\* there, where the liveness property says something (the other side never disables the driver).
Symmetry == Permutations(TwoTabs) \cup Permutations(TwoSlots)
=============================================================================
