---------------------------- MODULE MCChangeFeed ----------------------------
(***************************************************************************)
(* Small instances of the board, side by side: the feed and the projection *)
(* behind it (ChangeFeed) and what one tab shows of it (BoardView).  They  *)
(* share no state: the first state chooses which of the two takes steps.   *)
(***************************************************************************)
EXTENDS ChangeFeed, BoardView, TLC

CONSTANTS r1, r2, w1, w2, o1, o2

MCRuns == {r1, r2}
MCWriters == {w1, w2}
MCNextStates == {"dispatched", "cancelled"}
MCDeltas ==
  {[kind |-> "tombstone", state |-> "planned"], [kind |-> "state", state |-> "started"]}

\* Two orders of one date, a search that finds one of them, and pages of one row.
TwoOrders == {o1, o2}
OneDate == [o \in TwoOrders |-> 1]
TwoTerms == {TwoOrders, {o1}}

VARIABLE side

FeedInit == Init /\ BoardInit /\ side \in {"feed", "tab"}

FeedNext ==
  /\ \/ side = "feed" /\ Next /\ UNCHANGED viewVars
     \/ side = "tab" /\ BoardNext /\ UNCHANGED vars
  /\ UNCHANGED side

\* Fairness, while the feed's side takes the steps.
SideFairness ==
  /\ WF_vars(side = "feed" /\ Drain) /\ WF_vars(side = "feed" /\ Pull)
  /\ WF_vars(side = "feed" /\ (RebuildReset \/ RebuildAborts))
  /\ \A w \in Writers : WF_vars(side = "feed" /\ (Commit(w) \/ Rollback(w)))

FeedSpec == FeedInit /\ [][FeedNext]_<<vars, viewVars, side>> /\ SideFairness
=============================================================================
