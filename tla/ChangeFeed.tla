----------------------------- MODULE ChangeFeed -----------------------------
(***************************************************************************)
(* The change feed and its two readers: the dispatch-board projection      *)
(* (apps/api/src/projections) and a device's sync cursor (apps/api/src/    *)
(* sync/sync.service.ts), for one company.                                 *)
(*                                                                         *)
(* server_seq comes from nextval, outside the transaction that inserts the *)
(* event: events commit in another order than their numbers, and a         *)
(* rollback leaves a gap.  A transaction is split at that point: it takes  *)
(* the number, then commits or rolls back.  A drain is one transaction     *)
(* behind the FOR UPDATE of projection_status and reads the feed once, so  *)
(* it is one step.                                                         *)
(***************************************************************************)
EXTENDS Naturals, FiniteSets, FiniteSetsExt

CONSTANTS
  Runs,           \* road runs of the company
  Writers,        \* concurrent transactions
  MaxSeq,         \* bound on nextval
  PollBatchSize,  \* POLL_BATCH_SIZE of a drain
  PullLimit,      \* DELTA_PULL_LIMIT of a sync
  NextStates,     \* states a run is moved to
  DeviceDeltas,   \* deltas a device may send for a run
  MaxRebuilds     \* bound on rebuilds

ASSUME FeedAssumption ==
  /\ MaxSeq \in Nat
  /\ PollBatchSize \in Nat \ {0}
  /\ PullLimit \in Nat \ {0}
  /\ MaxRebuilds \in Nat
  /\ NextStates \subseteq {"planned", "dispatched", "started", "completed", "cancelled"}
  /\ DeviceDeltas \subseteq
       [kind : {"full", "state", "tombstone", "invalid"},
        state : {"planned", "dispatched", "started", "completed", "cancelled"}]

VARIABLES
  nextSeq,   \* fleet_server_seq
  open,      \* open[w]: the event transaction w will commit, or NoEvent
  feed,      \* sync_change_feed: committed events
  runState,  \* road_run.state, "absent" before the creating commit
  board,     \* dispatch_board_projection
  wm,        \* projection_status.watermark
  rebuilding, \* a rebuild transaction is open
  hiding,    \* the rows it has hidden, and locked
  rebuilds,
  cursor,    \* the device's cursor
  folded,    \* history: seqs the board has folded since the last reset
  pulled,    \* history: seqs the device has received
  baseline,  \* history: the feed at the last reset
  survivors  \* history: the visible rows the last reset did not hide

feedVars == <<nextSeq, open, feed, runState>>
rebuildVars == <<rebuilding, hiding, rebuilds>>
history == <<folded, baseline, survivors>>
boardVars == <<board, wm, rebuildVars, history>>
deviceVars == <<cursor, pulled>>
vars == <<feedVars, boardVars, deviceVars>>

Kinds == {"full", "state", "tombstone", "invalid"}
RunStates == {"planned", "dispatched", "started", "completed", "cancelled"}
Deltas == [kind : Kinds, state : RunStates]
\* locked: the transaction holds the lock of the road_run row.
Events == [seq : 1..MaxSeq, run : Runs, delta : Deltas, locked : BOOLEAN]
NoEvent == [seq |-> 0]
NoRow == [live |-> FALSE, state |-> "planned", seq |-> 0]

TypeOK ==
  /\ nextSeq \in 1..MaxSeq + 1
  /\ open \in [Writers -> Events \cup {NoEvent}]
  /\ feed \subseteq Events
  /\ runState \in [Runs -> RunStates \cup {"absent"}]
  /\ board \in [Runs -> [live : BOOLEAN, state : RunStates, seq : 0..MaxSeq]]
  /\ wm \in 0..MaxSeq
  /\ rebuilding \in BOOLEAN /\ hiding \subseteq Runs
  /\ rebuilds \in 0..MaxRebuilds
  /\ cursor \in 0..MaxSeq
  /\ folded \subseteq 1..MaxSeq
  /\ pulled \subseteq 1..MaxSeq
  /\ baseline \subseteq Events
  /\ survivors \subseteq Runs

Init ==
  /\ nextSeq = 1
  /\ open = [w \in Writers |-> NoEvent]
  /\ feed = {}
  /\ runState = [r \in Runs |-> "absent"]
  /\ board = [r \in Runs |-> NoRow]
  /\ wm = 0 /\ rebuilding = FALSE /\ hiding = {} /\ rebuilds = 0
  /\ cursor = 0
  /\ folded = {} /\ pulled = {} /\ baseline = {} /\ survivors = {}

-----------------------------------------------------------------------------
(* Writers *)

\* Mutant of RowIsFree: the number is taken before the row is locked.
RowIsIgnored(r) == runState[r] = runState[r]

\* No open transaction holds the row of r.
RowIsFree(r) == \A w \in Writers : open[w] # NoEvent /\ open[w].run = r => ~open[w].locked

\* w has written its row if it has one, and takes nextval.
AppendEvent(w, r, delta, locked) ==
  /\ open[w] = NoEvent /\ nextSeq <= MaxSeq
  /\ open' = [open EXCEPT ![w] = [seq |-> nextSeq, run |-> r, delta |-> delta, locked |-> locked]]
  /\ nextSeq' = nextSeq + 1
  /\ UNCHANGED <<feed, runState, boardVars, deviceVars>>

\* The order create transaction inserts run r and its road_run.created event.
CreateRun(w, r) ==
  /\ runState[r] = "absent" /\ RowIsFree(r)
  /\ AppendEvent(w, r, [kind |-> "full", state |-> "planned"], TRUE)

\* A delivery step, a cancellation or a completion: UPDATE road_run, then the
\* number.  The UPDATE waits for the row.
MoveRun(w, r, s) ==
  /\ runState[r] # "absent" /\ RowIsFree(r)
  /\ AppendEvent(w, r, [kind |-> "state", state |-> s], TRUE)

\* A synced device action about a run goes to the feed as it is, and leaves
\* road_run alone.
SyncAction(w, r, delta) ==
  /\ runState[r] # "absent"
  /\ AppendEvent(w, r, delta, FALSE)

Commit(w) ==
  /\ open[w] # NoEvent
  /\ feed' = feed \cup {open[w]}
  /\ runState' = IF open[w].locked
                 THEN [runState EXCEPT ![open[w].run] = open[w].delta.state]
                 ELSE runState
  /\ open' = [open EXCEPT ![w] = NoEvent]
  /\ UNCHANGED <<nextSeq, boardVars, deviceVars>>

Rollback(w) ==
  /\ open[w] # NoEvent
  /\ open' = [open EXCEPT ![w] = NoEvent]
  /\ UNCHANGED <<nextSeq, feed, runState, boardVars, deviceVars>>

-----------------------------------------------------------------------------
(* The projection *)

\* Mutants of Folded: a partial event creates a row; a stale event is applied.
FoldedPartially(row, e) ==
  IF row.live /\ e.seq <= row.seq THEN row
  ELSE IF e.delta.kind = "tombstone" THEN [row EXCEPT !.live = FALSE]
  ELSE [live |-> TRUE, state |-> e.delta.state, seq |-> e.seq]
FoldedStale(row, e) ==
  IF ~row.live /\ e.delta.kind # "full" THEN row
  ELSE [live |-> TRUE, state |-> e.delta.state, seq |-> e.seq]

\* applyDispatchBoardEvent and the write it decides.  A hidden row counts as
\* absent, so only a full delta brings it back.
Folded(row, e) ==
  IF row.live /\ e.seq <= row.seq THEN row
  ELSE CASE e.delta.kind = "tombstone" /\ row.live -> [row EXCEPT !.live = FALSE, !.seq = e.seq]
         [] e.delta.kind = "full" \/ (e.delta.kind = "state" /\ row.live) ->
              [live |-> TRUE, state |-> e.delta.state, seq |-> e.seq]
         [] OTHER -> row

\* The loop over a batch, in server_seq order: after[n] is the row of r once the events
\* up to number n are applied.
FoldRun(row, r, events) ==
  LET At(n) == {e \in events : e.run = r /\ e.seq = n}
      after[n \in 0..MaxSeq] ==
        IF n = 0 THEN row
        ELSE IF At(n) = {} THEN after[n - 1]
        ELSE Folded(after[n - 1], CHOOSE e \in At(n) : TRUE)
  IN  after[MaxSeq]

\* Mutant of Page: any n events, not the first n.
PageNewestFirst(after, n) ==
  {e \in feed : e.seq > after /\ Cardinality({f \in feed : e.seq < f.seq}) < n}

\* The first n events after a position, in server_seq order.
Page(after, n) ==
  {e \in feed : /\ e.seq > after
                /\ Cardinality({f \in feed : after < f.seq /\ f.seq < e.seq}) < n}

LastSeq(events, none) == IF events = {} THEN none ELSE Max({e.seq : e \in events})

\* One drainOnce.  A row an open rebuild has locked cannot be written.
Drain ==
  LET batch == Page(wm, PollBatchSize) IN
  /\ batch # {}
  /\ board' = [r \in Runs |-> FoldRun(board[r], r, batch)]
  /\ \A r \in hiding : board'[r] = board[r]
  /\ wm' = LastSeq(batch, wm)
  /\ folded' = folded \cup {e.seq : e \in batch}
  /\ UNCHANGED <<rebuildVars, baseline, survivors, feedVars, deviceVars>>

\* rebuild hides every active row, and holds the locks ...
RebuildHide ==
  /\ ~rebuilding /\ rebuilds < MaxRebuilds
  /\ rebuilding' = TRUE
  /\ hiding' = {r \in Runs : board[r].live}
  /\ rebuilds' = rebuilds + 1
  /\ UNCHANGED <<board, wm, history, feedVars, deviceVars>>

\* Mutant of Hidden: rows are kept, only the checkpoint is reset.
HiddenNot(r) == IF r \in Runs THEN board[r] ELSE NoRow

Hidden(r) == IF r \in hiding THEN [board[r] EXCEPT !.live = FALSE] ELSE board[r]

ResetTo == 0

\* ... then resets the watermark and commits; the replay is a loop of drains.
RebuildReset ==
  /\ rebuilding
  /\ board' = [r \in Runs |-> Hidden(r)]
  /\ wm' = ResetTo
  /\ rebuilding' = FALSE /\ hiding' = {}
  /\ folded' = {} /\ baseline' = feed
  /\ survivors' = {r \in Runs : board[r].live} \ hiding
  /\ UNCHANGED <<rebuilds, feedVars, deviceVars>>

\* A drain that holds projection_status waits for a hidden row while the
\* rebuild waits for projection_status: Postgres aborts one of the two.
RebuildAborts ==
  /\ hiding # {}
  /\ rebuilding' = FALSE /\ hiding' = {}
  /\ UNCHANGED <<board, wm, rebuilds, history, feedVars, deviceVars>>

-----------------------------------------------------------------------------
(* The device *)

\* The pull half of processSync, applied by the device.
Pull ==
  LET page == Page(cursor, PullLimit) IN
  /\ page # {}
  /\ cursor' = LastSeq(page, cursor)
  /\ pulled' = pulled \cup {e.seq : e \in page}
  /\ UNCHANGED <<feedVars, boardVars>>

Next ==
  \/ \E w \in Writers, r \in Runs :
       \/ CreateRun(w, r)
       \/ \E s \in NextStates : MoveRun(w, r, s)
       \/ \E d \in DeviceDeltas : SyncAction(w, r, d)
  \/ \E w \in Writers : Commit(w) \/ Rollback(w)
  \/ Drain \/ RebuildHide \/ RebuildReset \/ RebuildAborts
  \/ Pull

Spec == Init /\ [][Next]_vars

\* The scheduler drains every scope each 5 s; the device syncs on a timer;
\* Postgres ends every transaction.
Fairness ==
  /\ WF_vars(Drain) /\ WF_vars(Pull)
  /\ WF_vars(RebuildReset \/ RebuildAborts)
  /\ \A w \in Writers : WF_vars(Commit(w) \/ Rollback(w))

FairSpec == Spec /\ Fairness

-----------------------------------------------------------------------------
Of(r) == {e \in feed : e.run = r}

\* The events the watermark has passed without folding them.
Missed == {e \in feed : e.seq <= wm /\ e.seq \notin folded}

\* The row lock is taken before the number, so what the transactions of one
\* run append commits in server_seq order, however they interleave: a reader
\* never meets a state of a run after a later one.
PerRunCommitOrder ==
  [][\A e \in feed' \ feed : \A f \in Of(e.run) : e.locked /\ f.locked => f.seq < e.seq]_vars

\* Once every event of a run is folded, the board shows the state of the run,
\* unless a device wrote to the feed of the run.
BoardAgreesWithRoadRun ==
  \A r \in Runs :
    /\ runState[r] # "absent"
    /\ \A e \in Of(r) : e.locked /\ e.seq \in folded
    => board[r].live /\ board[r].state = runState[r]

\* A row on the board stands on a folded event that carried every field: a run
\* whose creating event was skipped stays off the board, whatever follows it.
BoardRowWasCreated ==
  \A r \in Runs \ survivors : board[r].live =>
    \E e \in Of(r) : e.delta.kind = "full" /\ e.seq \in folded

\* What the board shows of a run was created by a folded event and is the run's state.
BoardIsTrue == BoardRowWasCreated /\ BoardAgreesWithRoadRun

\* Reprocessing the feed never takes a visible row back to an older event.
BoardNeverRegresses ==
  [][\A r \in Runs : board[r].live /\ board'[r].live => board[r].seq <= board'[r].seq]_vars

\* A rebuild reconsiders every event committed before it, those an earlier
\* drain had skipped included.
RebuildForgetsNothing == Missed \cap baseline = {}

\* Replayed over a quiet feed, a rebuild makes each row it hid exactly what
\* the feed says.  (A row a drain brought back while the rebuild transaction
\* was open is not hidden.)
RebuildHeals ==
  feed = baseline /\ (\A e \in feed : e.seq \in folded) =>
    \A r \in Runs \ survivors :
      LET truth == FoldRun(NoRow, r, feed) IN
      /\ board[r].live = truth.live
      /\ truth.live => board[r] = truth

\* A rebuild forgets no event, and makes of the rows it hid what the feed says of them.
RebuildIsSound == RebuildForgetsNothing /\ RebuildHeals

\* A committed event the watermark has not passed is folded in the end.
EventuallyFolded ==
  \A n \in 1..MaxSeq :
    (\E e \in feed : e.seq = n /\ n > wm) ~> n \in folded
=============================================================================
