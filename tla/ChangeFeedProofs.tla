-------------------------- MODULE ChangeFeedProofs --------------------------
(***************************************************************************)
(* Proofs about ChangeFeed for any number of runs and transactions, and    *)
(* about the board of a browser tab (BoardView) for any number of orders.  *)
(*                                                                         *)
(* PerRunCommitOrder. A two-phase-locking argument: a transaction that     *)
(* holds the row of a run has a number above everything the run's earlier  *)
(* transactions committed, because it was the only one that could take a   *)
(* number for that run since it got the row.                               *)
(*                                                                         *)
(* BoardIsTrue and RebuildIsSound. FoldRun is a function that recurses     *)
(* over the numbers, so first it is shown to be one: the rows a replay     *)
(* passes through exist and are unique (Replays). Then a replay of two     *)
(* batches, the second above the first, is the replay of their union, so   *)
(* each drain extends what the drains before it made: over a quiet feed a  *)
(* row that a rebuild hid is the replay of all that has been folded since. *)
(*                                                                         *)
(* KnownOnce. What the document shows has been listed, so an optimistic    *)
(* row that goes away because its real row is on the page is not           *)
(* forgotten.                                                              *)
(***************************************************************************)
EXTENDS ChangeFeed, BoardView, FiniteSetTheorems, SequenceTheorems, WellFoundedInduction, TLAPS

FeedTypeOK ==
  /\ nextSeq \in Nat \ {0}
  /\ open \in [Writers -> Events \cup {NoEvent}]
  /\ feed \subseteq Events

IsOpen(w) == open[w].seq # 0

\* The events a run's transactions write, open or committed, are numbered
\* below the next number ...
NumbersAreTaken ==
  /\ \A w \in Writers : open[w].seq < nextSeq
  /\ \A e \in feed : e.seq < nextSeq

\* ... one transaction at a time holds a run ...
RowLockIsExclusive ==
  \A w, v \in Writers :
    IsOpen(w) /\ IsOpen(v) /\ open[w].run = open[v].run /\ open[w].locked /\ open[v].locked
    => w = v

\* ... and its number is above what the run has committed.
HolderIsLatest ==
  \A w \in Writers : IsOpen(w) /\ open[w].locked =>
    \A f \in feed : f.run = open[w].run /\ f.locked => f.seq < open[w].seq

FeedInv == FeedTypeOK /\ NumbersAreTaken /\ RowLockIsExclusive /\ HolderIsLatest

\* An event and an empty slot are told apart by the number.
LEMMA OpenIsEvent ==
  ASSUME FeedTypeOK, NEW w \in Writers
  PROVE  /\ open[w].seq \in Nat
         /\ IsOpen(w) <=> open[w] # NoEvent
         /\ IsOpen(w) => open[w] \in Events
  BY DEF FeedTypeOK, IsOpen, Events, NoEvent

LEMMA InitFeedInv == Init => FeedInv
  BY DEF Init, FeedInv, FeedTypeOK, NumbersAreTaken, RowLockIsExclusive, HolderIsLatest,
         IsOpen, NoEvent

\* Taking a number keeps the invariant, if a locked event finds its row free.
LEMMA AppendKeepsFeedInv ==
  ASSUME FeedInv, NEW w \in Writers, NEW r \in Runs, NEW d \in Deltas, NEW l \in BOOLEAN,
         AppendEvent(w, r, d, l), l => RowIsFree(r)
  PROVE  FeedInv'
  <1> DEFINE e == [seq |-> nextSeq, run |-> r, delta |-> d, locked |-> l]
  <1> USE DEF FeedInv, AppendEvent
  <1>1. e \in Events /\ e.seq = nextSeq /\ e.run = r /\ e.locked = l
    BY FeedAssumption DEF FeedTypeOK, Events
  <1>2. open' = [open EXCEPT ![w] = e] /\ open'[w] = e /\ feed' = feed /\ nextSeq' = nextSeq + 1
    BY DEF FeedTypeOK, feedVars
  <1> HIDE DEF e
  <1>3. \A v \in Writers \ {w} : open'[v] = open[v]
    BY <1>2 DEF FeedTypeOK
  <1>4. FeedTypeOK'
    BY <1>1, <1>2 DEF FeedTypeOK
  <1>5. NumbersAreTaken'
    BY <1>1, <1>2, <1>3, OpenIsEvent DEF FeedTypeOK, NumbersAreTaken, Events
  <1>6. ASSUME l, NEW v \in Writers \ {w}, IsOpen(v), open[v].run = r PROVE ~open[v].locked
    BY <1>6, OpenIsEvent DEF RowIsFree
  <1>7. RowLockIsExclusive'
    BY <1>1, <1>2, <1>3, <1>6 DEF RowLockIsExclusive, IsOpen
  <1>8. HolderIsLatest'
    BY <1>1, <1>2, <1>3 DEF HolderIsLatest, IsOpen, NumbersAreTaken
  <1> QED BY <1>4, <1>5, <1>7, <1>8

LEMMA CommitKeepsFeedInv ==
  ASSUME FeedInv, NEW w \in Writers, Commit(w)
  PROVE  FeedInv'
  <1> USE DEF FeedInv, Commit
  <1>1. IsOpen(w) /\ open[w] \in Events
    BY OpenIsEvent
  <1>2. feed' = feed \cup {open[w]} /\ nextSeq' = nextSeq /\ open'[w] = NoEvent
    BY DEF FeedTypeOK
  <1>3. \A v \in Writers \ {w} : open'[v] = open[v]
    BY DEF FeedTypeOK
  <1>4. FeedTypeOK'
    BY <1>1, <1>2 DEF FeedTypeOK
  <1>5. NumbersAreTaken'
    BY <1>1, <1>2, <1>3 DEF NumbersAreTaken, FeedTypeOK, NoEvent
  <1>6. RowLockIsExclusive'
    BY <1>2, <1>3 DEF RowLockIsExclusive, IsOpen, NoEvent
  <1>7. HolderIsLatest'
    BY <1>1, <1>2, <1>3 DEF HolderIsLatest, RowLockIsExclusive, IsOpen, NoEvent
  <1> QED BY <1>4, <1>5, <1>6, <1>7

LEMMA RollbackKeepsFeedInv ==
  ASSUME FeedInv, NEW w \in Writers, Rollback(w)
  PROVE  FeedInv'
  <1> USE DEF FeedInv, Rollback
  <1>1. feed' = feed /\ nextSeq' = nextSeq /\ open'[w] = NoEvent
    BY DEF FeedTypeOK
  <1>2. \A v \in Writers \ {w} : open'[v] = open[v]
    BY DEF FeedTypeOK
  <1>3. FeedTypeOK'
    BY <1>1 DEF FeedTypeOK
  <1>4. NumbersAreTaken' /\ RowLockIsExclusive' /\ HolderIsLatest'
    BY <1>1, <1>2 DEF NumbersAreTaken, RowLockIsExclusive, HolderIsLatest, IsOpen, NoEvent,
       FeedTypeOK
  <1> QED BY <1>3, <1>4

LEMMA StepFeedInv == FeedInv /\ [Next]_vars => FeedInv'
  <1> SUFFICES ASSUME FeedInv, [Next]_vars PROVE FeedInv'
    OBVIOUS
  <1>1. ASSUME NEW w \in Writers, NEW r \in Runs, CreateRun(w, r) PROVE FeedInv'
    <2>1. [kind |-> "full", state |-> "planned"] \in Deltas
      BY DEF Deltas, Kinds, RunStates
    <2> QED BY <1>1, <2>1, AppendKeepsFeedInv DEF CreateRun
  <1>2. ASSUME NEW w \in Writers, NEW r \in Runs, NEW s \in NextStates, MoveRun(w, r, s)
        PROVE  FeedInv'
    <2>1. [kind |-> "state", state |-> s] \in Deltas
      BY FeedAssumption DEF Deltas, Kinds, RunStates
    <2> QED BY <1>2, <2>1, AppendKeepsFeedInv DEF MoveRun
  <1>3. ASSUME NEW w \in Writers, NEW r \in Runs, NEW d \in DeviceDeltas, SyncAction(w, r, d)
        PROVE  FeedInv'
    <2>1. d \in Deltas
      BY FeedAssumption DEF Deltas, Kinds, RunStates
    <2> QED BY <1>3, <2>1, AppendKeepsFeedInv DEF SyncAction
  <1>4. ASSUME UNCHANGED <<nextSeq, open, feed>> PROVE FeedInv'
    BY <1>4 DEF FeedInv, FeedTypeOK, NumbersAreTaken, RowLockIsExclusive, HolderIsLatest, IsOpen
  <1>5. CASE Drain \/ RebuildHide \/ RebuildReset \/ RebuildAborts \/ Pull \/ UNCHANGED vars
    BY <1>4, <1>5 DEF Drain, RebuildHide, RebuildReset, RebuildAborts, Pull, vars, feedVars
  <1> QED
    BY <1>1, <1>2, <1>3, <1>5, CommitKeepsFeedInv, RollbackKeepsFeedInv DEF Next

\* The invariant of the writers: row locks are exclusive, and a holder's number
\* is above all its run has committed.
THEOREM FeedInvariance == Spec => []FeedInv
  <1> QED BY InitFeedInv, StepFeedInv, PTL DEF Spec

\* A step that commits an event of a run commits the run's highest number yet.
LEMMA StepCommitOrder ==
  FeedInv /\ [Next]_vars =>
    [\A e \in feed' \ feed : \A f \in Of(e.run) : e.locked /\ f.locked => f.seq < e.seq]_vars
  <1> SUFFICES ASSUME FeedInv, Next,
                      NEW e \in feed' \ feed, NEW f \in Of(e.run), e.locked, f.locked
               PROVE  f.seq < e.seq
    OBVIOUS
  <1>1. PICK w \in Writers : Commit(w) /\ e = open[w]
    BY DEF Next, Commit, CreateRun, MoveRun, SyncAction, AppendEvent, Rollback, Drain,
       RebuildHide,
           RebuildReset, RebuildAborts, Pull, feedVars
  <1>2. IsOpen(w)
    BY <1>1, OpenIsEvent DEF FeedInv, Commit
  <1> QED BY <1>1, <1>2 DEF FeedInv, HolderIsLatest, Of

\* What the transactions of one run commit is in server_seq order, for any
\* number of runs and concurrent transactions.
THEOREM CommitOrder == Spec => PerRunCommitOrder
  <1> QED BY FeedInvariance, StepCommitOrder, PTL DEF Spec, PerRunCommitOrder

-----------------------------------------------------------------------------
(* Replaying a batch *)

\* Induction over the numbers of the feed, as a property of a set of numbers: the library's
\* induction takes an operator.
LEMMA UpToTheLast ==
  ASSUME NEW M \in Nat, NEW S, 0 \in S, \A n \in 1 .. M : n - 1 \in S => n \in S
  PROVE  \A n \in 0 .. M : n \in S
<1> DEFINE Without == {n \in 0 .. M : n \notin S}
<1> SUFFICES ASSUME Without # {} PROVE FALSE
  OBVIOUS
<1>1. Without \subseteq Nat /\ Without # {}
  OBVIOUS
<1> HIDE DEF Without
<1>2. PICK n \in Without : \A k \in Without : ~ (<<k, n>> \in OpToRel(<, Nat))
  BY <1>1, NatLessThanWellFounded, WFMin
<1>3. n \in 0 .. M /\ n \notin S
  BY DEF Without
<1>4. n \in 1 .. M /\ n - 1 \in 0 .. M /\ n - 1 < n
  BY <1>3
<1>5. n - 1 \notin Without
  <2>1. <<n - 1, n>> \in OpToRel(<, Nat)
    BY <1>3, <1>4 DEF OpToRel
  <2> QED BY <1>2, <2>1
<1>6. n - 1 \in S
  BY <1>4, <1>5 DEF Without
<1> QED BY <1>3, <1>4, <1>6

\* The events of r with number n.
At(r, events, n) == {e \in events : e.run = r /\ e.seq = n}

\* after is the row of r after each number, up to m.
Replays(after, m, row, r, events) ==
  /\ after[0] = row
  /\ \A n \in 1 .. m :
       after[n] = IF At(r, events, n) = {} THEN after[n - 1]
                  ELSE Folded(after[n - 1], CHOOSE e \in At(r, events, n) : TRUE)

\* The recursion of FoldRun is well-founded: it has a value, whatever the events are.
LEMMA FoldRunReplays ==
  ASSUME NEW row, NEW r, NEW events
  PROVE  \E after : Replays(after, MaxSeq, row, r, events) /\ FoldRun(row, r, events) = after[MaxSeq]
<1> DEFINE Step(f, n) == IF n = 0 THEN row
                         ELSE IF At(r, events, n) = {} THEN f[n - 1]
                         ELSE Folded(f[n - 1], CHOOSE e \in At(r, events, n) : TRUE)
           Solves(f, m) == f = [n \in 0 .. m |-> Step(f, n)]
           Begun == {m \in 0 .. MaxSeq : \E f : Solves(f, m)}
           after == CHOOSE f : f = [n \in 0 .. MaxSeq |-> Step(f, n)]
<1>1. MaxSeq \in Nat
  BY FeedAssumption
<1>2. 0 \in Begun
  <2> DEFINE f == [n \in 0 .. 0 |-> row]
  <2>1. Solves(f, 0)
    OBVIOUS
  <2> HIDE DEF Solves, f
  <2> QED BY <1>1, <2>1
<1>3. \A m \in 1 .. MaxSeq : m - 1 \in Begun => m \in Begun
  <2> SUFFICES ASSUME NEW m \in 1 .. MaxSeq, m - 1 \in Begun PROVE m \in Begun
    OBVIOUS
  <2>1. PICK f : Solves(f, m - 1)
    OBVIOUS
  <2> DEFINE g == [n \in 0 .. m |-> IF n < m THEN f[n] ELSE Step(f, m)]
  <2>2. m \in Nat /\ m # 0 /\ m - 1 \in 0 .. m - 1 /\ m - 1 < m
    BY <1>1
  <2>3. \A n \in 0 .. m - 1 : g[n] = f[n] /\ (n # 0 => n - 1 \in 0 .. m - 1 /\ g[n - 1] = f[n - 1])
    BY <2>2
  <2>4. \A n \in 0 .. m : g[n] = Step(g, n)
    <3> SUFFICES ASSUME NEW n \in 0 .. m PROVE g[n] = Step(g, n)
      OBVIOUS
    <3>1. CASE n \in 0 .. m - 1
      <4>1. f[n] = Step(f, n)
        BY <2>1, <3>1
      <4>2. n = 0 \/ g[n - 1] = f[n - 1]
        BY <2>3, <3>1
      <4>3. g[n] = f[n]
        BY <2>3, <3>1
      <4> HIDE DEF g
      <4> QED BY <4>1, <4>2, <4>3
    <3>2. CASE n = m
      <4>1. g[m] = Step(f, m) /\ g[m - 1] = f[m - 1]
        BY <2>2
      <4> HIDE DEF g
      <4> QED BY <2>2, <3>2, <4>1
    <3> QED BY <2>2, <3>1, <3>2
  <2>5. g = [n \in 0 .. m |-> g[n]]
    OBVIOUS
  <2> HIDE DEF g
  <2>6. Solves(g, m)
    BY <2>4, <2>5
  <2> HIDE DEF Solves
  <2> QED BY <1>1, <2>6
<1>4. MaxSeq \in Begun
  <2> HIDE DEF Begun
  <2> QED BY <1>1, <1>2, <1>3, UpToTheLast
<1>5. after = [n \in 0 .. MaxSeq |-> Step(after, n)]
  BY <1>4
<1>6. FoldRun(row, r, events) = after[MaxSeq]
  BY DEF FoldRun, At
<1> HIDE DEF after
<1>7. Replays(after, MaxSeq, row, r, events)
  BY <1>1, <1>5 DEF Replays
<1> QED BY <1>6, <1>7

Rows == [live : BOOLEAN, state : RunStates, seq : 0 .. MaxSeq]

\* What one event does to a row: nothing, or the row stands on the event, or it goes.
LEMMA FoldedOnce ==
  ASSUME NEW row \in Rows, NEW e \in Events
  PROVE  /\ Folded(row, e) \in Rows
         /\ \/ /\ Folded(row, e) = row
               /\ ~row.live => e.delta.kind # "full"
               /\ row.live => e.seq <= row.seq \/ e.delta.kind = "invalid"
            \/ /\ Folded(row, e).live
               /\ Folded(row, e).state = e.delta.state /\ Folded(row, e).seq = e.seq
               /\ row.live => row.seq < e.seq
               /\ e.delta.kind = "full" \/ row.live
            \/ row.live /\ row.seq < e.seq /\ e.delta.kind = "tombstone" /\ ~Folded(row, e).live
<1> DEFINE new == [live |-> TRUE, state |-> e.delta.state, seq |-> e.seq]
           gone == [row EXCEPT !.live = FALSE, !.seq = e.seq]
<1>1. MaxSeq \in Nat
  BY FeedAssumption
<1>2. /\ e.seq \in 1 .. MaxSeq /\ e.delta.kind \in Kinds /\ e.delta.state \in RunStates
      /\ row.seq \in 0 .. MaxSeq /\ row.live \in BOOLEAN
  BY DEF Events, Deltas, Rows
<1>3. new \in Rows /\ new.live /\ new.state = e.delta.state /\ new.seq = e.seq
  BY <1>1, <1>2 DEF Rows
<1>4. gone \in Rows /\ ~gone.live
  <2> DEFINE dead == [row EXCEPT !.live = FALSE]
  <2>1. dead \in Rows /\ ~dead.live
    BY DEF Rows
  <2>2. gone = [dead EXCEPT !.seq = e.seq]
    OBVIOUS
  <2> HIDE DEF dead, gone
  <2> QED BY <1>2, <2>1, <2>2 DEF Rows
<1>5. Folded(row, e) = IF row.live /\ e.seq <= row.seq THEN row
                       ELSE CASE e.delta.kind = "tombstone" /\ row.live -> gone
                              [] e.delta.kind = "full" \/ (e.delta.kind = "state" /\ row.live) -> new
                              [] OTHER -> row
  BY DEF Folded
<1> HIDE DEF new, gone
<1>9. e.seq <= row.seq \/ row.seq < e.seq
  BY <1>1, <1>2
<1>6. CASE row.live /\ e.seq <= row.seq
  <2>1. Folded(row, e) = row
    BY <1>5, <1>6
  <2> QED BY <1>6, <2>1
<1>7. CASE row.live /\ ~(e.seq <= row.seq)
  <2>1. CASE e.delta.kind = "invalid"
    BY <1>5, <1>7, <2>1
  <2>2. CASE e.delta.kind = "tombstone"
    BY <1>4, <1>5, <1>7, <1>9, <2>2
  <2>3. CASE e.delta.kind \in {"full", "state"}
    BY <1>3, <1>5, <1>7, <1>9, <2>3
  <2> QED BY <1>2, <2>1, <2>2, <2>3 DEF Kinds
<1>8. CASE ~row.live
  <2>1. CASE e.delta.kind = "full"
    BY <1>3, <1>5, <1>8, <2>1
  <2>2. CASE e.delta.kind # "full"
    BY <1>5, <1>8, <2>2
  <2> QED BY <2>1, <2>2
<1> QED BY <1>2, <1>6, <1>7, <1>8

\* One number of a replay: an event of r with that number is applied, if there is one.
LEMMA ReplayStep ==
  ASSUME NEW row, NEW r, NEW events, NEW after, Replays(after, MaxSeq, row, r, events),
         NEW n \in 1 .. MaxSeq
  PROVE  \/ At(r, events, n) = {} /\ after[n] = after[n - 1]
         \/ \E e \in events : e.run = r /\ e.seq = n /\ after[n] = Folded(after[n - 1], e)
<1>1. CASE At(r, events, n) = {}
  BY <1>1 DEF Replays
<1>2. CASE At(r, events, n) # {}
  <2>1. PICK e \in At(r, events, n) : e = CHOOSE f \in At(r, events, n) : TRUE
    BY <1>2
  <2> QED BY <1>2, <2>1 DEF Replays, At
<1> QED BY <1>1, <1>2

\* A replay only makes rows.
LEMMA ReplayRows ==
  ASSUME NEW row \in Rows, NEW r, NEW events \in SUBSET Events, NEW after,
         Replays(after, MaxSeq, row, r, events)
  PROVE  \A n \in 0 .. MaxSeq : after[n] \in Rows
<1> DEFINE S == {n \in 0 .. MaxSeq : after[n] \in Rows}
<1>1. MaxSeq \in Nat
  BY FeedAssumption
<1>2. 0 \in S
  BY <1>1 DEF Replays
<1>3. \A n \in 1 .. MaxSeq : n - 1 \in S => n \in S
  <2> SUFFICES ASSUME NEW n \in 1 .. MaxSeq, after[n - 1] \in Rows PROVE after[n] \in Rows
    BY <1>1
  <2> QED BY ReplayStep, FoldedOnce
<1> HIDE DEF S
<1>4. \A n \in 0 .. MaxSeq : n \in S
  BY <1>1, <1>2, <1>3, UpToTheLast
<1> QED BY <1>4 DEF S

\* A replay leaves a row alone until the first of its events.
LEMMA ReplayStarts ==
  ASSUME NEW row, NEW r, NEW events, NEW after, Replays(after, MaxSeq, row, r, events),
         NEW m \in 0 .. MaxSeq, \A e \in events : e.run = r => m < e.seq
  PROVE  \A n \in 0 .. m : after[n] = row
<1> DEFINE S == {n \in 0 .. m : after[n] = row}
<1>1. MaxSeq \in Nat /\ m \in Nat
  BY FeedAssumption
<1>2. 0 \in S
  BY <1>1 DEF Replays
<1>3. \A n \in 1 .. m : n - 1 \in S => n \in S
  <2> SUFFICES ASSUME NEW n \in 1 .. m, after[n - 1] = row PROVE after[n] = row
    BY <1>1
  <2>1. n \in 1 .. MaxSeq /\ n <= m
    BY <1>1
  <2>2. \A e \in events : e.run = r /\ e.seq = n => FALSE
    BY <1>1, <2>1
  <2> QED BY <2>1, <2>2, ReplayStep
<1> HIDE DEF S
<1>4. \A n \in 0 .. m : n \in S
  BY <1>1, <1>2, <1>3, UpToTheLast
<1> QED BY <1>4 DEF S

\* However a batch is replayed, a visible row that is visible after it is not older than before:
\* a row that is brought back is brought back by an event after the one that hid it.
LEMMA ReplayNeverRegresses ==
  ASSUME NEW row \in Rows, NEW r, NEW events \in SUBSET Events, row.live,
         FoldRun(row, r, events).live
  PROVE  row.seq <= FoldRun(row, r, events).seq
<1>1. PICK after : Replays(after, MaxSeq, row, r, events) /\ FoldRun(row, r, events) = after[MaxSeq]
  BY FoldRunReplays
<1>2. MaxSeq \in Nat /\ row.seq \in 0 .. MaxSeq
  BY FeedAssumption DEF Rows
<1>3. \A n \in 0 .. MaxSeq : after[n] \in Rows
  BY <1>1, ReplayRows
<1> DEFINE S == {n \in 0 .. MaxSeq : IF after[n].live THEN row.seq <= after[n].seq ELSE row.seq < n}
<1>4. 0 \in S
  BY <1>1, <1>2 DEF Replays
<1>5. \A n \in 1 .. MaxSeq : n - 1 \in S => n \in S
  <2> SUFFICES ASSUME NEW n \in 1 .. MaxSeq, n - 1 \in S PROVE n \in S
    OBVIOUS
  <2>1. n - 1 \in 0 .. MaxSeq /\ n \in 0 .. MaxSeq /\ after[n - 1] \in Rows /\ after[n] \in Rows
    BY <1>2, <1>3
  <2>2. after[n - 1].seq \in 0 .. MaxSeq /\ after[n].seq \in 0 .. MaxSeq
    BY <2>1 DEF Rows
  <2>3. CASE after[n] = after[n - 1]
    BY <1>2, <2>1, <2>2, <2>3
  <2>4. CASE after[n] # after[n - 1]
    <3>1. PICK e \in events : e.seq = n /\ after[n] = Folded(after[n - 1], e)
      BY <1>1, <2>4, ReplayStep
    <3>2. \/ after[n].live /\ after[n].seq = n /\ (after[n - 1].live => after[n - 1].seq < n)
          \/ after[n - 1].live /\ after[n - 1].seq < n /\ ~after[n].live
      BY <2>1, <2>4, <3>1, FoldedOnce
    <3> QED BY <1>2, <2>1, <2>2, <3>2
  <2> QED BY <2>3, <2>4
<1> HIDE DEF S
<1>6. MaxSeq \in S
  BY <1>2, <1>4, <1>5, UpToTheLast
<1> QED BY <1>1, <1>6 DEF S

-----------------------------------------------------------------------------
(* The types, and the order in which the board moves *)

\* The position of a reader after a page is the greatest number of the page.
LEMMA LastIsGreatest ==
  ASSUME NEW events \in SUBSET Events, events # {}, NEW none
  PROVE  /\ LastSeq(events, none) \in 1 .. MaxSeq
         /\ \E e \in events : e.seq = LastSeq(events, none)
         /\ \A e \in events : e.seq <= LastSeq(events, none)
<1> DEFINE seqs == {e.seq : e \in events}
           Reached == {n \in 0 .. MaxSeq : \E u \in seqs : n <= u}
<1>1. MaxSeq \in Nat /\ seqs \subseteq 1 .. MaxSeq /\ seqs # {}
  BY FeedAssumption DEF Events
<1>2. \E x \in seqs : \A y \in seqs : x >= y
  <2> SUFFICES ASSUME \A x \in seqs : \E y \in seqs : ~(x >= y) PROVE FALSE
    OBVIOUS
  <2> HIDE DEF seqs
  <2>1. 0 \in Reached
    <3>1. PICK u \in seqs : u \in 1 .. MaxSeq
      BY <1>1
    <3>2. 0 <= u /\ 0 \in 0 .. MaxSeq
      BY <1>1, <3>1
    <3> QED BY <3>1, <3>2
  <2>2. \A n \in 1 .. MaxSeq : n - 1 \in Reached => n \in Reached
    <3> SUFFICES ASSUME NEW n \in 1 .. MaxSeq, NEW u \in seqs, n - 1 <= u PROVE \E v \in seqs : n <= v
      BY <1>1
    <3>1. PICK v \in seqs : ~(u >= v)
      OBVIOUS
    <3>2. n <= v
      BY <1>1, <3>1
    <3> QED BY <3>2
  <2>3. MaxSeq \in Reached
    <3> HIDE DEF Reached
    <3> QED BY <1>1, <2>1, <2>2, UpToTheLast
  <2>4. PICK u \in seqs : MaxSeq <= u
    BY <2>3
  <2>5. PICK v \in seqs : ~(u >= v)
    OBVIOUS
  <2> QED BY <1>1, <2>4, <2>5
<1>3. LastSeq(events, none) = CHOOSE x \in seqs : \A y \in seqs : x >= y
  BY DEF LastSeq, Max
<1> DEFINE last == LastSeq(events, none)
<1>4. last \in seqs /\ \A y \in seqs : last >= y
  <2> HIDE DEF seqs
  <2> QED BY <1>2, <1>3
<1>5. \A e \in events : e.seq \in seqs
  OBVIOUS
<1> QED BY <1>1, <1>4, <1>5

LEMMA InitTypeOK == Init => TypeOK
<1> SUFFICES ASSUME Init PROVE TypeOK
  OBVIOUS
<1>1. NoRow \in [live : BOOLEAN, state : RunStates, seq : 0 .. MaxSeq]
  BY FeedAssumption DEF NoRow, RunStates
<1>2. MaxSeq \in Nat /\ MaxRebuilds \in Nat /\ 1 \in 1 .. MaxSeq + 1
      /\ 0 \in 0 .. MaxSeq /\ 0 \in 0 .. MaxRebuilds
  BY FeedAssumption
<1>3. /\ nextSeq \in 1 .. MaxSeq + 1 /\ wm \in 0 .. MaxSeq /\ cursor \in 0 .. MaxSeq
      /\ rebuilds \in 0 .. MaxRebuilds
  BY <1>2 DEF Init
<1> QED BY <1>1, <1>3 DEF Init, TypeOK

\* What a drain makes of the board.
LEMMA DrainIsReplay ==
  ASSUME TypeOK, Drain
  PROVE  LET batch == Page(wm, PollBatchSize) IN
         /\ batch \subseteq feed /\ batch \subseteq Events /\ batch # {}
         /\ wm' = LastSeq(batch, wm) /\ folded' = folded \cup {e.seq : e \in batch}
         /\ \A r \in Runs : board'[r] = FoldRun(board[r], r, batch)
         /\ board' \in [Runs -> Rows]
<1> DEFINE batch == Page(wm, PollBatchSize)
<1>1. /\ batch \subseteq feed /\ batch \subseteq Events /\ batch # {}
      /\ wm' = LastSeq(batch, wm) /\ folded' = folded \cup {e.seq : e \in batch}
      /\ board' = [r \in Runs |-> FoldRun(board[r], r, batch)]
  BY DEF Drain, Page, TypeOK
<1> HIDE DEF batch
<1>2. ASSUME NEW r \in Runs PROVE FoldRun(board[r], r, batch) \in Rows
  <2>1. board[r] \in Rows /\ MaxSeq \in 0 .. MaxSeq
    BY FeedAssumption DEF TypeOK, Rows
  <2>2. PICK after : /\ Replays(after, MaxSeq, board[r], r, batch)
                     /\ FoldRun(board[r], r, batch) = after[MaxSeq]
    BY FoldRunReplays
  <2> QED BY <1>1, <2>1, <2>2, ReplayRows
<1>3. board' \in [Runs -> Rows] /\ \A r \in Runs : board'[r] = FoldRun(board[r], r, batch)
  BY <1>1, <1>2
<1> QED BY <1>1, <1>3 DEF batch

LEMMA AppendKeepsTypeOK ==
  ASSUME TypeOK, NEW w \in Writers, NEW r \in Runs, NEW d \in Deltas, NEW l \in BOOLEAN,
         AppendEvent(w, r, d, l)
  PROVE  TypeOK'
<1> DEFINE e == [seq |-> nextSeq, run |-> r, delta |-> d, locked |-> l]
<1>1. MaxSeq \in Nat /\ nextSeq \in 1 .. MaxSeq
  BY FeedAssumption DEF TypeOK, AppendEvent
<1>2. e \in Events
  BY <1>1 DEF Events
<1>3. /\ open' = [open EXCEPT ![w] = e] /\ nextSeq' = nextSeq + 1
      /\ UNCHANGED <<feed, runState, boardVars, deviceVars>>
  BY DEF AppendEvent
<1> HIDE DEF e
<1>4. nextSeq' \in 1 .. MaxSeq + 1 /\ open' \in [Writers -> Events \cup {NoEvent}]
  BY <1>1, <1>2, <1>3 DEF TypeOK
<1> QED BY <1>3, <1>4 DEF TypeOK, boardVars, rebuildVars, history, deviceVars

LEMMA StepTypeOK == TypeOK /\ [Next]_vars => TypeOK'
<1> SUFFICES ASSUME TypeOK, [Next]_vars PROVE TypeOK'
  OBVIOUS
<1>1. ASSUME NEW w \in Writers, NEW r \in Runs, CreateRun(w, r) PROVE TypeOK'
  <2>1. [kind |-> "full", state |-> "planned"] \in Deltas
    BY DEF Deltas, Kinds, RunStates
  <2> QED BY <1>1, <2>1, AppendKeepsTypeOK DEF CreateRun
<1>2. ASSUME NEW w \in Writers, NEW r \in Runs, NEW s \in NextStates, MoveRun(w, r, s)
      PROVE  TypeOK'
  <2>1. [kind |-> "state", state |-> s] \in Deltas
    BY FeedAssumption DEF Deltas, Kinds, RunStates
  <2> QED BY <1>2, <2>1, AppendKeepsTypeOK DEF MoveRun
<1>3. ASSUME NEW w \in Writers, NEW r \in Runs, NEW d \in DeviceDeltas, SyncAction(w, r, d)
      PROVE  TypeOK'
  <2>1. d \in Deltas
    BY FeedAssumption DEF Deltas, Kinds, RunStates
  <2> QED BY <1>3, <2>1, AppendKeepsTypeOK DEF SyncAction
<1>4. ASSUME NEW w \in Writers, Commit(w) PROVE TypeOK'
  <2>1. open[w] \in Events /\ open[w].run \in Runs /\ open[w].delta.state \in RunStates
    BY <1>4 DEF Commit, TypeOK, Events, Deltas
  <2>2. /\ feed' = feed \cup {open[w]} /\ open' = [open EXCEPT ![w] = NoEvent]
        /\ \/ runState' = runState
           \/ runState' = [runState EXCEPT ![open[w].run] = open[w].delta.state]
        /\ UNCHANGED <<nextSeq, boardVars, deviceVars>>
    BY <1>4 DEF Commit
  <2>3. runState' \in [Runs -> RunStates \cup {"absent"}]
    BY <2>1, <2>2 DEF TypeOK
  <2> QED BY <2>1, <2>2, <2>3 DEF TypeOK, boardVars, rebuildVars, history, deviceVars
<1>5. ASSUME NEW w \in Writers, Rollback(w) PROVE TypeOK'
  BY <1>5 DEF Rollback, TypeOK, boardVars, rebuildVars, history, deviceVars
<1>6. CASE Drain
  <2> DEFINE batch == Page(wm, PollBatchSize)
  <2>1. /\ batch \subseteq Events /\ batch # {} /\ board' \in [Runs -> Rows]
        /\ wm' = LastSeq(batch, wm) /\ folded' = folded \cup {e.seq : e \in batch}
    BY <1>6, DrainIsReplay
  <2>2. UNCHANGED <<rebuildVars, baseline, survivors, feedVars, deviceVars>>
    BY <1>6 DEF Drain
  <2> HIDE DEF batch
  <2>3. wm' \in 1 .. MaxSeq /\ MaxSeq \in Nat
    BY <2>1, LastIsGreatest, FeedAssumption
  <2>4. folded' \subseteq 1 .. MaxSeq
    BY <2>1 DEF TypeOK, Events
  <2> QED BY <2>1, <2>2, <2>3, <2>4 DEF TypeOK, Rows, rebuildVars, feedVars, deviceVars
<1>7. CASE RebuildHide
  BY <1>7, FeedAssumption DEF RebuildHide, TypeOK, feedVars, deviceVars, history
<1>8. CASE RebuildReset
  <2>1. \A r \in Runs : Hidden(r) \in [live : BOOLEAN, state : RunStates, seq : 0 .. MaxSeq]
    BY DEF Hidden, TypeOK
  <2>2. 0 \in 0 .. MaxSeq
    BY FeedAssumption
  <2>3. /\ board' = [r \in Runs |-> Hidden(r)] /\ wm' = 0
        /\ rebuilding' = FALSE /\ hiding' = {} /\ folded' = {} /\ baseline' = feed
        /\ survivors' = {r \in Runs : board[r].live} \ hiding
        /\ UNCHANGED <<rebuilds, nextSeq, open, feed, runState, cursor, pulled>>
    BY <1>8 DEF RebuildReset, ResetTo, feedVars, deviceVars
  <2>4. board' \in [Runs -> [live : BOOLEAN, state : RunStates, seq : 0 .. MaxSeq]]
    BY <2>1, <2>3
  <2> QED BY <2>2, <2>3, <2>4 DEF TypeOK
<1>9. CASE RebuildAborts
  BY <1>9 DEF RebuildAborts, TypeOK, feedVars, deviceVars, history
<1>10. CASE Pull
  <2> DEFINE page == Page(cursor, PullLimit)
  <2>1. /\ page \subseteq Events /\ page # {} /\ cursor' = LastSeq(page, cursor)
        /\ pulled' = pulled \cup {e.seq : e \in page} /\ UNCHANGED <<feedVars, boardVars>>
    BY <1>10 DEF Pull, Page, TypeOK
  <2> HIDE DEF page
  <2>2. cursor' \in 1 .. MaxSeq /\ MaxSeq \in Nat
    BY <2>1, LastIsGreatest, FeedAssumption
  <2>3. pulled' \subseteq 1 .. MaxSeq
    BY <2>1 DEF TypeOK, Events
  <2> QED BY <2>1, <2>2, <2>3 DEF TypeOK, feedVars, boardVars, rebuildVars, history
<1>11. CASE UNCHANGED vars
  BY <1>11 DEF vars, TypeOK, feedVars, boardVars, rebuildVars, history, deviceVars
<1> QED
  BY <1>1, <1>2, <1>3, <1>4, <1>5, <1>6, <1>7, <1>8, <1>9, <1>10, <1>11 DEF Next

THEOREM ChangeFeedTypes == Spec => []TypeOK
<1> QED BY InitTypeOK, StepTypeOK, PTL DEF Spec

\* Only a drain and the end of a rebuild touch the board.
LEMMA StepNeverRegresses ==
  TypeOK /\ [Next]_vars =>
    [\A r \in Runs : board[r].live /\ board'[r].live => board[r].seq <= board'[r].seq]_vars
<1> SUFFICES ASSUME TypeOK, Next, NEW r \in Runs, board[r].live, board'[r].live
             PROVE  board[r].seq <= board'[r].seq
  OBVIOUS
<1>1. board[r] \in Rows /\ board[r].seq \in 0 .. MaxSeq /\ MaxSeq \in Nat
  BY FeedAssumption DEF TypeOK, Rows
<1>2. CASE Drain
  <2> DEFINE batch == Page(wm, PollBatchSize)
  <2>1. batch \subseteq Events /\ board'[r] = FoldRun(board[r], r, batch)
    BY <1>2, DrainIsReplay
  <2> HIDE DEF batch
  <2> QED BY <1>1, <2>1, ReplayNeverRegresses
<1>3. CASE RebuildReset
  <2>1. board'[r] = Hidden(r)
    BY <1>3 DEF RebuildReset
  <2>2. Hidden(r).seq = board[r].seq
    BY DEF Hidden
  <2> QED BY <1>1, <2>1, <2>2
<1>4. CASE UNCHANGED board
  BY <1>1, <1>4
<1> QED
  BY <1>2, <1>3, <1>4 DEF Next, CreateRun, MoveRun, SyncAction, AppendEvent, Commit, Rollback,
     RebuildHide, RebuildAborts, Pull, boardVars

\* BoardNeverRegresses: whatever is replayed, in batches of any size and across rebuilds, a visible
\* row never goes back to an older event (applyDispatchBoardEvent's guard on serverSeq).
THEOREM BoardMovesForward == Spec => BoardNeverRegresses
<1> QED BY ChangeFeedTypes, StepNeverRegresses, PTL DEF Spec, BoardNeverRegresses

-----------------------------------------------------------------------------
(* What the feed says of a run *)

SeqsAreDistinct ==
  /\ \A e, f \in feed : e.seq = f.seq => e = f
  /\ \A w \in Writers : \A e \in feed : IsOpen(w) => open[w].seq # e.seq
  /\ \A w, v \in Writers : IsOpen(w) /\ IsOpen(v) /\ open[w].seq = open[v].seq => w = v

\* A transaction that holds the run writes an event that says where the run stands.
OwnDeltas ==
  /\ \A e \in feed : e.locked => e.delta.kind \in {"full", "state"}
  /\ \A w \in Writers : IsOpen(w) /\ open[w].locked => open[w].delta.kind \in {"full", "state"}

Creates(e) == e.locked /\ e.delta.kind = "full"

\* A run is created once, by its first event ...
NothingBefore ==
  \A r \in Runs : runState[r] = "absent" =>
    /\ Of(r) = {}
    /\ \A w \in Writers : IsOpen(w) /\ open[w].run = r => Creates(open[w])

CreatedOnce ==
  \A r \in Runs : runState[r] # "absent" =>
    /\ \E c \in Of(r) : Creates(c)
    /\ \A w \in Writers : IsOpen(w) /\ open[w].run = r => ~Creates(open[w])

CreatedFirst ==
  \A c \in feed : Creates(c) =>
    /\ \A e \in Of(c.run) : c.seq <= e.seq
    /\ \A w \in Writers : IsOpen(w) /\ open[w].run = c.run => c.seq < open[w].seq

\* ... and stands where the last event of its transactions says.
StateIsLatest ==
  \A e \in feed :
    e.locked /\ (\A f \in Of(e.run) : f.locked => f.seq <= e.seq) => runState[e.run] = e.delta.state

WriterInv ==
  /\ FeedInv
  /\ SeqsAreDistinct /\ OwnDeltas /\ NothingBefore /\ CreatedOnce /\ CreatedFirst /\ StateIsLatest

LEMMA InitWriterInv == Init => WriterInv
<1> SUFFICES ASSUME Init PROVE WriterInv
  OBVIOUS
<1>1. FeedInv
  BY InitFeedInv
<1>2. \A w \in Writers : ~IsOpen(w)
  BY DEF Init, IsOpen, NoEvent
<1>3. feed = {} /\ \A r \in Runs : runState[r] = "absent" /\ Of(r) = {}
  BY DEF Init, Of
<1> QED BY <1>1, <1>2, <1>3 DEF WriterInv, SeqsAreDistinct, OwnDeltas, NothingBefore, CreatedOnce,
           CreatedFirst, StateIsLatest

LEMMA AppendKeepsWriterInv ==
  ASSUME TypeOK, WriterInv, NEW w \in Writers, NEW r \in Runs, NEW d \in Deltas, NEW l \in BOOLEAN,
         AppendEvent(w, r, d, l), l => RowIsFree(r) /\ d.kind \in {"full", "state"},
         runState[r] = "absent" <=> l /\ d.kind = "full"
  PROVE  WriterInv'
<1> DEFINE e == [seq |-> nextSeq, run |-> r, delta |-> d, locked |-> l]
<1>1. FeedInv'
  BY AppendKeepsFeedInv DEF WriterInv
<1>2. /\ e.seq = nextSeq /\ e.run = r /\ e.delta = d /\ e.locked = l
      /\ open' = [open EXCEPT ![w] = e] /\ UNCHANGED <<feed, runState>>
  BY DEF AppendEvent
<1> HIDE DEF e
<1>3. open'[w] = e /\ \A v \in Writers : v # w => open'[v] = open[v]
  BY <1>2 DEF TypeOK
<1>4. /\ \A v \in Writers : open[v].seq < nextSeq /\ open[v].seq \in Nat
      /\ \A f \in feed : f.seq < nextSeq /\ f.seq \in Nat
      /\ nextSeq \in Nat
  BY OpenIsEvent DEF WriterInv, FeedInv, NumbersAreTaken, FeedTypeOK, Events
<1>5. \A q \in Runs : Of(q)' = Of(q)
  BY <1>2 DEF Of
<1>6. SeqsAreDistinct'
  BY <1>2, <1>3, <1>4 DEF WriterInv, SeqsAreDistinct, IsOpen
<1>7. OwnDeltas'
  BY <1>2, <1>3 DEF WriterInv, OwnDeltas, IsOpen
<1>8. NothingBefore'
  BY <1>2, <1>3, <1>5 DEF WriterInv, NothingBefore, IsOpen, Creates
<1>9. CreatedOnce'
  BY <1>2, <1>3, <1>5 DEF WriterInv, CreatedOnce, IsOpen, Creates
<1>10. CreatedFirst'
  <2> SUFFICES ASSUME NEW c \in feed, Creates(c)
               PROVE  /\ \A f \in Of(c.run) : c.seq <= f.seq
                      /\ \A v \in Writers : IsOpen(v)' /\ open'[v].run = c.run => c.seq < open'[v].seq
    BY <1>2 DEF CreatedFirst, Creates, Of
  <2> QED BY <1>2, <1>3, <1>4 DEF WriterInv, CreatedFirst, IsOpen
<1>11. StateIsLatest'
  BY <1>2 DEF WriterInv, StateIsLatest, Of
<1> QED BY <1>1, <1>6, <1>7, <1>8, <1>9, <1>10, <1>11 DEF WriterInv

LEMMA CommitKeepsWriterInv ==
  ASSUME TypeOK, WriterInv, NEW w \in Writers, Commit(w)
  PROVE  WriterInv'
<1> USE DEF WriterInv
<1>0. PICK e : e = open[w]
  OBVIOUS
<1>1. FeedInv'
  BY CommitKeepsFeedInv
<1>2. IsOpen(w) /\ e \in Events /\ e.run \in Runs /\ e.seq \in Nat /\ e.delta.state \in RunStates
  BY <1>0, OpenIsEvent DEF Commit, FeedInv, Events, Deltas
<1>3. /\ feed' = feed \cup {e} /\ open'[w] = NoEvent
      /\ \A v \in Writers : v # w => open'[v] = open[v]
      /\ e.locked => runState'[e.run] = e.delta.state
      /\ \A r \in Runs : r # e.run \/ ~e.locked => runState'[r] = runState[r]
  BY <1>0, <1>2 DEF Commit, TypeOK
<1>4. \A v \in Writers : IsOpen(v)' => v # w /\ IsOpen(v) /\ open'[v] = open[v]
  BY <1>3 DEF IsOpen, NoEvent
<1>5. \A r \in Runs : r # e.run => Of(r)' = Of(r)
  BY <1>3 DEF Of
<1>6. Of(e.run)' = Of(e.run) \cup {e}
  BY <1>3 DEF Of
<1>7. e.locked => runState'[e.run] # "absent"
  BY <1>2, <1>3 DEF RunStates
<1>8. \A v \in Writers : IsOpen(v) /\ open[v].run = e.run /\ open[v].locked /\ e.locked => v = w
  BY <1>0, <1>2 DEF FeedInv, RowLockIsExclusive
<1>9. runState[e.run] = "absent" => Creates(e) /\ Of(e.run) = {}
  BY <1>0, <1>2 DEF NothingBefore
<1>10. runState[e.run] # "absent" => ~Creates(e)
  BY <1>0, <1>2 DEF CreatedOnce
<1>11. \A f \in feed : f.seq \in Nat /\ f.run \in Runs
  BY DEF TypeOK, Events
<1>12. SeqsAreDistinct'
  <2>1. \A f \in feed : e.seq # f.seq
    BY <1>0, <1>2 DEF SeqsAreDistinct
  <2>2. \A v \in Writers : IsOpen(v)' => open'[v].seq # e.seq
    BY <1>0, <1>2, <1>4 DEF SeqsAreDistinct
  <2> QED BY <1>3, <1>4, <2>1, <2>2 DEF SeqsAreDistinct
<1>13. OwnDeltas'
  <2>1. e.locked => e.delta.kind \in {"full", "state"}
    BY <1>0, <1>2 DEF OwnDeltas
  <2> QED BY <1>3, <1>4, <2>1 DEF OwnDeltas
<1>14. NothingBefore'
  <2> SUFFICES ASSUME NEW r \in Runs, runState'[r] = "absent"
               PROVE  /\ Of(r)' = {}
                      /\ \A v \in Writers : IsOpen(v)' /\ open'[v].run = r => Creates(open'[v])
    BY DEF NothingBefore, Creates
  <2>1. r # e.run
    BY <1>3, <1>7, <1>9 DEF Creates
  <2>2. runState[r] = "absent"
    BY <1>3, <2>1
  <2> QED BY <1>4, <1>5, <2>1, <2>2 DEF NothingBefore
<1>15. CreatedOnce'
  <2> SUFFICES ASSUME NEW r \in Runs, runState'[r] # "absent"
               PROVE  /\ \E c \in Of(r)' : Creates(c)
                      /\ \A v \in Writers : IsOpen(v)' /\ open'[v].run = r => ~Creates(open'[v])
    BY DEF CreatedOnce, Creates
  <2>1. CASE r # e.run
    <3>1. runState[r] # "absent"
      BY <1>3, <2>1
    <3> QED BY <1>4, <1>5, <2>1, <3>1 DEF CreatedOnce
  <2>2. CASE r = e.run /\ runState[r] = "absent"
    <3>1. Creates(e)
      BY <1>9, <2>2
    <3>2. \A v \in Writers : IsOpen(v) /\ open[v].run = r => Creates(open[v])
      BY <2>2 DEF NothingBefore
    <3> QED BY <1>4, <1>6, <1>8, <2>2, <3>1, <3>2 DEF Creates
  <2>3. CASE r = e.run /\ runState[r] # "absent"
    BY <1>4, <1>6, <2>3 DEF CreatedOnce
  <2> QED BY <2>1, <2>2, <2>3
<1>16. CreatedFirst'
  <2> SUFFICES ASSUME NEW c \in feed', Creates(c)
               PROVE  /\ \A f \in Of(c.run)' : c.seq <= f.seq
                      /\ \A v \in Writers : IsOpen(v)' /\ open'[v].run = c.run => c.seq < open'[v].seq
    BY DEF CreatedFirst, Creates, Of
  <2>1. CASE c = e
    <3>1. runState[e.run] = "absent" /\ Of(e.run) = {}
      BY <1>9, <1>10, <2>1
    <3>2. \A v \in Writers : IsOpen(v) /\ open[v].run = e.run => v = w
      BY <1>2, <1>8, <2>1, <3>1 DEF NothingBefore, Creates
    <3> QED BY <1>2, <1>4, <1>6, <2>1, <3>1, <3>2
  <2>2. CASE c \in feed
    <3>1. c.run = e.run => c.seq < e.seq
      BY <1>0, <1>2, <2>2 DEF CreatedFirst
    <3>2. \A f \in Of(c.run) : c.seq <= f.seq
      BY <2>2 DEF CreatedFirst
    <3>3. c.run \in Runs /\ c.seq \in Nat
      BY <1>11, <2>2
    <3>4. \A f \in Of(c.run)' : c.seq <= f.seq
      BY <1>2, <1>5, <1>6, <3>1, <3>2, <3>3
    <3>5. \A v \in Writers : IsOpen(v)' /\ open'[v].run = c.run => c.seq < open'[v].seq
      BY <1>4, <2>2 DEF CreatedFirst
    <3> QED BY <3>4, <3>5
  <2> QED BY <1>3, <2>1, <2>2
<1>17. StateIsLatest'
  <2> SUFFICES ASSUME NEW x \in feed', x.locked, \A f \in Of(x.run)' : f.locked => f.seq <= x.seq
               PROVE  runState'[x.run] = x.delta.state
    BY DEF StateIsLatest, Of
  <2>1. CASE x = e
    BY <1>3, <2>1
  <2>2. CASE x \in feed /\ x.run = e.run /\ e.locked
    <3>1. x.seq < e.seq
      BY <1>0, <1>2, <2>2 DEF FeedInv, HolderIsLatest
    <3>2. e.seq <= x.seq
      BY <1>6, <2>2
    <3> QED BY <1>2, <1>11, <2>2, <3>1, <3>2
  <2>3. CASE x \in feed /\ (x.run # e.run \/ ~e.locked)
    <3>1. \A f \in Of(x.run) : f.locked => f.seq <= x.seq
      BY <1>5, <1>6, <1>11, <2>3
    <3>2. runState[x.run] = x.delta.state
      BY <2>3, <3>1 DEF StateIsLatest
    <3> QED BY <1>3, <1>11, <2>3, <3>2
  <2> QED BY <1>3, <2>1, <2>2, <2>3
<1> QED BY <1>1, <1>12, <1>13, <1>14, <1>15, <1>16, <1>17

LEMMA RollbackKeepsWriterInv ==
  ASSUME TypeOK, WriterInv, NEW w \in Writers, Rollback(w)
  PROVE  WriterInv'
<1> USE DEF WriterInv
<1>1. FeedInv'
  BY RollbackKeepsFeedInv
<1>2. UNCHANGED <<feed, runState>> /\ open' = [open EXCEPT ![w] = NoEvent]
  BY DEF Rollback
<1>3. \A v \in Writers : IsOpen(v)' => IsOpen(v) /\ open'[v] = open[v]
  BY <1>2 DEF IsOpen, NoEvent, TypeOK
<1>4. \A r \in Runs : Of(r)' = Of(r)
  BY <1>2 DEF Of
<1>5. SeqsAreDistinct' /\ OwnDeltas'
  BY <1>2, <1>3 DEF SeqsAreDistinct, OwnDeltas
<1>6. NothingBefore' /\ CreatedOnce'
  BY <1>2, <1>3, <1>4 DEF NothingBefore, CreatedOnce, Creates
<1>7. CreatedFirst' /\ StateIsLatest'
  BY <1>2, <1>3 DEF CreatedFirst, StateIsLatest, Creates, Of
<1> QED BY <1>1, <1>5, <1>6, <1>7

LEMMA StepWriterInv == TypeOK /\ WriterInv /\ [Next]_vars => WriterInv'
<1> SUFFICES ASSUME TypeOK, WriterInv, [Next]_vars PROVE WriterInv'
  OBVIOUS
<1>1. ASSUME NEW w \in Writers, NEW r \in Runs, CreateRun(w, r) PROVE WriterInv'
  <2> DEFINE d == [kind |-> "full", state |-> "planned"]
  <2>1. d \in Deltas /\ d.kind = "full"
    BY DEF Deltas, Kinds, RunStates
  <2>2. AppendEvent(w, r, d, TRUE) /\ RowIsFree(r) /\ runState[r] = "absent"
    BY <1>1 DEF CreateRun
  <2> HIDE DEF d
  <2> QED BY <2>1, <2>2, AppendKeepsWriterInv
<1>2. ASSUME NEW w \in Writers, NEW r \in Runs, NEW s \in NextStates, MoveRun(w, r, s)
      PROVE  WriterInv'
  <2> DEFINE d == [kind |-> "state", state |-> s]
  <2>1. d \in Deltas /\ d.kind = "state"
    BY FeedAssumption DEF Deltas, Kinds, RunStates
  <2>2. AppendEvent(w, r, d, TRUE) /\ RowIsFree(r) /\ runState[r] # "absent"
    BY <1>2 DEF MoveRun
  <2> HIDE DEF d
  <2> QED BY <2>1, <2>2, AppendKeepsWriterInv
<1>3. ASSUME NEW w \in Writers, NEW r \in Runs, NEW d \in DeviceDeltas, SyncAction(w, r, d)
      PROVE  WriterInv'
  <2>1. d \in Deltas
    BY FeedAssumption DEF Deltas, Kinds, RunStates
  <2>2. AppendEvent(w, r, d, FALSE) /\ runState[r] # "absent"
    BY <1>3 DEF SyncAction
  <2> QED BY <2>1, <2>2, AppendKeepsWriterInv
<1>4. ASSUME UNCHANGED <<nextSeq, open, feed, runState>> PROVE WriterInv'
  <2>1. FeedInv'
    BY <1>4 DEF WriterInv, FeedInv, FeedTypeOK, NumbersAreTaken, RowLockIsExclusive,
       HolderIsLatest, IsOpen
  <2> QED BY <1>4, <2>1 DEF WriterInv, SeqsAreDistinct, OwnDeltas, NothingBefore, CreatedOnce,
             CreatedFirst, StateIsLatest, IsOpen, Of
<1>5. CASE Drain \/ RebuildHide \/ RebuildReset \/ RebuildAborts \/ Pull \/ UNCHANGED vars
  BY <1>4, <1>5 DEF Drain, RebuildHide, RebuildReset, RebuildAborts, Pull, vars, feedVars
<1> QED
  BY <1>1, <1>2, <1>3, <1>5, CommitKeepsWriterInv, RollbackKeepsWriterInv DEF Next

-----------------------------------------------------------------------------
(* What a replay makes of a row *)

\* A visible row was visible before or is created by an event of the batch, and it is as it was or
\* as an event of the batch says.
LEMMA ReplayStands ==
  ASSUME NEW row \in Rows, NEW r, NEW events \in SUBSET Events, FoldRun(row, r, events).live
  PROVE  /\ row.live \/ \E e \in events : e.run = r /\ e.delta.kind = "full"
         /\ \/ row.live /\ FoldRun(row, r, events) = row
            \/ \E e \in events : /\ e.run = r /\ e.seq = FoldRun(row, r, events).seq
                                 /\ e.delta.state = FoldRun(row, r, events).state
<1>1. PICK after : Replays(after, MaxSeq, row, r, events) /\ FoldRun(row, r, events) = after[MaxSeq]
  BY FoldRunReplays
<1>2. MaxSeq \in Nat
  BY FeedAssumption
<1>3. \A n \in 0 .. MaxSeq : after[n] \in Rows
  BY <1>1, ReplayRows
<1> DEFINE Stands(x) ==
             /\ row.live \/ \E e \in events : e.run = r /\ e.delta.kind = "full"
             /\ \/ row.live /\ x = row
                \/ \E e \in events : e.run = r /\ e.seq = x.seq /\ e.delta.state = x.state
           S == {n \in 0 .. MaxSeq : after[n].live => Stands(after[n])}
<1>4. 0 \in S
  BY <1>1, <1>2 DEF Replays
<1>5. \A n \in 1 .. MaxSeq : n - 1 \in S => n \in S
  <2> SUFFICES ASSUME NEW n \in 1 .. MaxSeq, n - 1 \in S, after[n].live, after[n] # after[n - 1]
               PROVE  Stands(after[n])
    BY <1>2
  <2>1. PICK e \in events : e.run = r /\ e.seq = n /\ after[n] = Folded(after[n - 1], e)
    BY <1>1, ReplayStep
  <2>2. after[n - 1] \in Rows
    BY <1>2, <1>3
  <2>3. /\ after[n].seq = e.seq /\ after[n].state = e.delta.state
        /\ e.delta.kind = "full" \/ after[n - 1].live
    BY <2>1, <2>2, FoldedOnce
  <2>4. after[n - 1].live => Stands(after[n - 1])
    OBVIOUS
  <2>5. row.live \/ \E f \in events : f.run = r /\ f.delta.kind = "full"
    BY <2>1, <2>3, <2>4
  <2>6. \E f \in events : f.run = r /\ f.seq = after[n].seq /\ f.delta.state = after[n].state
    BY <2>1, <2>3
  <2> QED BY <2>5, <2>6
<1>6. MaxSeq \in S
  <2> HIDE DEF S
  <2> QED BY <1>2, <1>4, <1>5, UpToTheLast
<1> QED BY <1>1, <1>6

\* If a run's own transactions wrote every event of a batch, a row that is visible, or is created
\* by the first of them, is visible after the batch, and no event of the batch is newer than it.
LEMMA ReplayShows ==
  ASSUME NEW row \in Rows, NEW r, NEW events \in SUBSET Events,
         \A e, f \in events : e.seq = f.seq => e = f,
         \A e \in events : e.run = r => e.delta.kind \in {"full", "state"},
         \A c, e \in events : c.run = r /\ e.run = r /\ c.delta.kind = "full" => c.seq <= e.seq,
         row.live \/ \E c \in events : c.run = r /\ c.delta.kind = "full"
  PROVE  /\ FoldRun(row, r, events).live
         /\ \A e \in events : e.run = r => e.seq <= FoldRun(row, r, events).seq
<1>1. PICK after : Replays(after, MaxSeq, row, r, events) /\ FoldRun(row, r, events) = after[MaxSeq]
  BY FoldRunReplays
<1>2. MaxSeq \in Nat /\ \A e \in events : e.seq \in 1 .. MaxSeq
  BY FeedAssumption DEF Events
<1>3. \A n \in 0 .. MaxSeq : after[n] \in Rows
  BY <1>1, ReplayRows
<1> DEFINE Seen(n) == row.live \/ \E c \in events : c.run = r /\ c.delta.kind = "full" /\ c.seq <= n
           Shows(n) == after[n].live /\ \A e \in events : e.run = r /\ e.seq <= n => e.seq <= after[n].seq
           S == {n \in 0 .. MaxSeq : Seen(n) => Shows(n)}
<1>4. 0 \in S
  <2>1. after[0] = row /\ 0 \in 0 .. MaxSeq
    BY <1>1, <1>2 DEF Replays
  <2>2. \A e \in events : ~(e.seq <= 0)
    BY <1>2
  <2> QED BY <2>1, <2>2
<1>5. \A n \in 1 .. MaxSeq : n - 1 \in S => n \in S
  <2> SUFFICES ASSUME NEW n \in 1 .. MaxSeq, n - 1 \in S, Seen(n) PROVE Shows(n)
    BY <1>2
  <2>1. /\ n - 1 \in 0 .. MaxSeq /\ n \in 0 .. MaxSeq /\ after[n - 1] \in Rows /\ after[n] \in Rows
        /\ Seen(n - 1) => Shows(n - 1)
    BY <1>2, <1>3
  <2>2. after[n].seq \in Nat /\ after[n - 1].seq \in Nat /\ n \in Nat
    BY <2>1, <1>2 DEF Rows
  <2>3. \A e \in events : e.seq <= n <=> e.seq <= n - 1 \/ e.seq = n
    BY <1>2, <2>2
  <2>4. CASE At(r, events, n) = {}
    <3>1. after[n] = after[n - 1]
      BY <1>1, <2>4 DEF Replays
    <3>2. \A e \in events : e.run = r => e.seq # n
      BY <2>4 DEF At
    <3> QED BY <2>1, <2>3, <3>1, <3>2
  <2>5. CASE At(r, events, n) # {}
    <3>1. PICK e \in events : e.run = r /\ e.seq = n /\ after[n] = Folded(after[n - 1], e)
      BY <1>1, <2>5, ReplayStep
    <3>2. \A f \in events : f.run = r /\ f.seq = n => f = e
      BY <3>1
    <3>3. \/ /\ after[n] = after[n - 1] /\ (~after[n - 1].live => e.delta.kind # "full")
             /\ after[n - 1].live => n <= after[n - 1].seq
          \/ after[n].live /\ after[n].seq = n
      BY <2>1, <3>1, FoldedOnce
    <3>4. CASE Seen(n - 1)
      <4>1. Shows(n - 1)
        BY <2>1, <3>4
      <4>2. after[n].live
        BY <3>3, <4>1
      <4>3. ASSUME NEW f \in events, f.run = r, f.seq <= n PROVE f.seq <= after[n].seq
        <5>1. f.seq <= n - 1 \/ f.seq = n
          BY <2>3, <4>3
        <5>2. f.seq <= n - 1 => f.seq <= after[n - 1].seq
          BY <4>1, <4>3
        <5>3. f.seq \in Nat
          BY <1>2
        <5> QED BY <2>2, <3>3, <4>1, <5>1, <5>2, <5>3
      <4> QED BY <4>2, <4>3
    <3>5. CASE ~Seen(n - 1)
      <4>1. PICK c \in events : c.run = r /\ c.delta.kind = "full" /\ c.seq <= n
        BY <3>5
      <4>2. c.seq = n /\ c = e
        BY <2>3, <3>2, <3>5, <4>1
      <4>3. \A f \in events : f.run = r /\ f.seq <= n => f.seq = n
        BY <1>2, <2>2, <4>1, <4>2
      <4>4. after[n].live /\ n <= after[n].seq
        BY <2>2, <3>3, <4>1, <4>2
      <4> QED BY <4>3, <4>4
    <3> QED BY <3>4, <3>5
  <2> QED BY <2>4, <2>5
<1>6. MaxSeq \in S
  <2>1. MaxSeq \in Nat
    BY <1>2
  <2> HIDE DEF S
  <2>2. \A n \in 0 .. MaxSeq : n \in S
    BY <1>4, <1>5, <2>1, UpToTheLast
  <2> QED BY <2>1, <2>2
<1>7. Seen(MaxSeq)
  BY <1>2
<1>8. Shows(MaxSeq)
  BY <1>6, <1>7
<1> QED BY <1>1, <1>2, <1>8

\* Rows that look the same: a hidden row counts as absent.
Same(a, b) == a.live = b.live /\ (b.live => a = b)

LEMMA ReplaySame ==
  ASSUME NEW a \in Rows, NEW b \in Rows, Same(a, b), NEW r, NEW events \in SUBSET Events
  PROVE  Same(FoldRun(a, r, events), FoldRun(b, r, events))
<1>1. PICK f : Replays(f, MaxSeq, a, r, events) /\ FoldRun(a, r, events) = f[MaxSeq]
  BY FoldRunReplays
<1>2. PICK g : Replays(g, MaxSeq, b, r, events) /\ FoldRun(b, r, events) = g[MaxSeq]
  BY FoldRunReplays
<1>3. MaxSeq \in Nat
  BY FeedAssumption
<1>4. \A n \in 0 .. MaxSeq : f[n] \in Rows /\ g[n] \in Rows
  BY <1>1, <1>2, ReplayRows
<1> DEFINE S == {n \in 0 .. MaxSeq : Same(f[n], g[n])}
<1>5. 0 \in S
  BY <1>1, <1>2, <1>3 DEF Replays
<1>6. \A n \in 1 .. MaxSeq : n - 1 \in S => n \in S
  <2> SUFFICES ASSUME NEW n \in 1 .. MaxSeq, Same(f[n - 1], g[n - 1]) PROVE Same(f[n], g[n])
    BY <1>3
  <2>1. CASE At(r, events, n) = {}
    BY <1>1, <1>2, <2>1 DEF Replays
  <2>2. CASE At(r, events, n) # {}
    <3>1. PICK e : e = CHOOSE x \in At(r, events, n) : TRUE
      OBVIOUS
    <3>2. e \in Events /\ f[n] = Folded(f[n - 1], e) /\ g[n] = Folded(g[n - 1], e)
      BY <1>1, <1>2, <2>2, <3>1 DEF Replays, At
    <3>3. f[n - 1] \in Rows /\ g[n - 1] \in Rows
      BY <1>3, <1>4
    <3>4. CASE g[n - 1].live
      BY <3>2, <3>4 DEF Same
    <3>5. CASE ~g[n - 1].live
      <4>1. ~f[n - 1].live
        BY <3>5 DEF Same
      <4>2. CASE e.delta.kind = "full"
        <5> DEFINE new == [live |-> TRUE, state |-> e.delta.state, seq |-> e.seq]
        <5>1. f[n] = new /\ g[n] = new
          BY <3>2, <3>5, <4>1, <4>2 DEF Folded
        <5> HIDE DEF new
        <5> QED BY <5>1 DEF Same
      <4>3. CASE e.delta.kind # "full"
        <5>1. f[n] = f[n - 1] /\ g[n] = g[n - 1]
          BY <3>2, <3>5, <4>1, <4>3 DEF Folded
        <5> QED BY <5>1
      <4> QED BY <4>2, <4>3
    <3> QED BY <3>4, <3>5
  <2> QED BY <2>1, <2>2
<1>7. MaxSeq \in S
  <2> HIDE DEF S
  <2> QED BY <1>3, <1>5, <1>6, UpToTheLast
<1> QED BY <1>1, <1>2, <1>7

\* A replay of nothing.
LEMMA ReplayOfNothing == ASSUME NEW row, NEW r PROVE FoldRun(row, r, {}) = row
<1>1. PICK after : Replays(after, MaxSeq, row, r, {}) /\ FoldRun(row, r, {}) = after[MaxSeq]
  BY FoldRunReplays
<1>2. MaxSeq \in 0 .. MaxSeq
  BY FeedAssumption
<1>3. \A n \in 0 .. MaxSeq : after[n] = row
  BY <1>1, <1>2, ReplayStarts
<1> QED BY <1>1, <1>2, <1>3

\* Two batches, one after the other, are replayed as one.
LEMMA ReplayInTwo ==
  ASSUME NEW row, NEW r, NEW A \in SUBSET Events, NEW B \in SUBSET Events, NEW m \in 0 .. MaxSeq,
         \A e \in A : e.seq <= m, \A e \in B : m < e.seq
  PROVE  FoldRun(row, r, A \cup B) = FoldRun(FoldRun(row, r, A), r, B)
<1>1. PICK all : Replays(all, MaxSeq, row, r, A \cup B) /\ FoldRun(row, r, A \cup B) = all[MaxSeq]
  BY FoldRunReplays
<1>2. PICK f : Replays(f, MaxSeq, row, r, A) /\ FoldRun(row, r, A) = f[MaxSeq]
  BY FoldRunReplays
<1>3. PICK g : Replays(g, MaxSeq, f[MaxSeq], r, B) /\ FoldRun(f[MaxSeq], r, B) = g[MaxSeq]
  BY FoldRunReplays
<1>4. MaxSeq \in Nat /\ m \in Nat
  BY FeedAssumption
<1>5. \A n \in 1 .. MaxSeq : /\ n <= m => At(r, A \cup B, n) = At(r, A, n)
                             /\ m < n => At(r, A, n) = {} /\ At(r, A \cup B, n) = At(r, B, n)
  BY <1>4 DEF At, Events
<1>6. \A n \in 0 .. m : g[n] = f[MaxSeq]
  BY <1>3, ReplayStarts
<1> DEFINE S == {n \in 0 .. MaxSeq : IF n <= m THEN all[n] = f[n] ELSE f[n] = f[m]}
           T == {n \in 0 .. MaxSeq : m <= n => all[n] = g[n]}
<1>7. MaxSeq \in S /\ m \in S
  <2>1. 0 \in S
    BY <1>1, <1>2, <1>4 DEF Replays
  <2>2. \A n \in 1 .. MaxSeq : n - 1 \in S => n \in S
    <3> SUFFICES ASSUME NEW n \in 1 .. MaxSeq, n - 1 \in S PROVE n \in S
      OBVIOUS
    <3>1. CASE n <= m
      <4>0. n - 1 <= m /\ n - 1 \in 0 .. MaxSeq
        BY <1>4, <3>1
      <4>1. all[n - 1] = f[n - 1] /\ At(r, A \cup B, n) = At(r, A, n)
        BY <1>5, <3>1, <4>0
      <4>2. all[n] = f[n]
        BY <1>1, <1>2, <4>1 DEF Replays
      <4> QED BY <1>4, <3>1, <4>2
    <3>2. CASE ~(n <= m)
      <4>1. f[n] = f[n - 1]
        BY <1>2, <1>4, <1>5, <3>2 DEF Replays
      <4>2. n - 1 = m \/ ~(n - 1 <= m)
        BY <1>4, <3>2
      <4> QED BY <1>4, <3>2, <4>1, <4>2
    <3> QED BY <3>1, <3>2
  <2> HIDE DEF S
  <2>3. \A n \in 0 .. MaxSeq : n \in S
    BY <1>4, <2>1, <2>2, UpToTheLast
  <2> QED BY <1>4, <2>3
<1>8. f[MaxSeq] = f[m] /\ all[m] = f[m]
  BY <1>4, <1>7
<1>9. MaxSeq \in T
  <2>1. all[m] = g[m]
    BY <1>4, <1>6, <1>8
  <2>2. 0 \in T
    BY <1>4, <2>1
  <2>3. \A n \in 1 .. MaxSeq : n - 1 \in T => n \in T
    <3> SUFFICES ASSUME NEW n \in 1 .. MaxSeq, n - 1 \in T, m < n PROVE all[n] = g[n]
      BY <1>4, <2>1
    <3>0. m <= n - 1
      BY <1>4
    <3>1. all[n - 1] = g[n - 1] /\ At(r, A \cup B, n) = At(r, B, n)
      BY <1>5, <3>0
    <3> QED BY <1>1, <1>3, <3>1 DEF Replays
  <2> HIDE DEF T
  <2> QED BY <1>4, <2>2, <2>3, UpToTheLast
<1> QED BY <1>1, <1>2, <1>3, <1>4, <1>9

-----------------------------------------------------------------------------
(* What the board shows *)

\* What is folded is committed, and behind the watermark.
FoldedIsPassed == \A n \in folded : n <= wm /\ \E e \in feed : e.seq = n

\* A visible row is what an event of its run said.
RowsStandOnEvents ==
  \A r \in Runs : board[r].live =>
    \E e \in Of(r) : e.seq = board[r].seq /\ e.delta.state = board[r].state

\* A run that only its own transactions wrote to is on the board once its creation is folded,
\* and the row is as new as what is folded.
CreatedRunsAreShown ==
  \A r \in Runs :
    (\A e \in Of(r) : e.locked) /\ (\E c \in Of(r) : Creates(c) /\ c.seq \in folded)
    => board[r].live /\ \A e \in Of(r) : e.seq \in folded => e.seq <= board[r].seq

FoldedEvents == {e \in feed : e.seq \in folded}

\* While the feed is quiet, a row that the rebuild hid is what the folded events make of nothing.
RebuiltRowsAreTrue ==
  feed = baseline =>
    \A r \in Runs \ survivors : Same(board[r], FoldRun(NoRow, r, FoldedEvents))

ProjectionInv ==
  /\ TypeOK /\ WriterInv
  /\ baseline \subseteq feed /\ FoldedIsPassed
  /\ RebuildForgetsNothing
  /\ BoardRowWasCreated /\ RowsStandOnEvents /\ CreatedRunsAreShown
  /\ RebuiltRowsAreTrue

\* The feed is finite, as its numbers are.
LEMMA FeedIsFinite == ASSUME TypeOK, SeqsAreDistinct PROVE IsFiniteSet(feed)
<1> DEFINE number == [e \in feed |-> e.seq]
<1>1. number \in Injection(feed, 1 .. MaxSeq)
  BY DEF TypeOK, Events, SeqsAreDistinct, Injection, IsInjective
<1>2. IsFiniteSet(1 .. MaxSeq)
  BY FS_Interval, FeedAssumption
<1> QED BY <1>1, <1>2, FS_Injection

\* A page leaves out nothing up to its last event.
LEMMA PageHasNoGaps ==
  ASSUME TypeOK, SeqsAreDistinct, NEW after \in Nat, NEW n \in Nat, NEW m \in Page(after, n),
         NEW e \in feed, after < e.seq, e.seq <= m.seq
  PROVE  e \in Page(after, n)
<1> DEFINE Before(x) == {f \in feed : after < f.seq /\ f.seq < x.seq}
<1>1. m \in feed /\ Cardinality(Before(m)) < n
  BY DEF Page
<1>2. Before(e) \subseteq Before(m) /\ Before(m) \subseteq feed
  <2>1. \A f \in feed : f.seq \in Nat
    BY DEF TypeOK, Events
  <2> QED BY <1>1, <2>1
<1> HIDE DEF Before
<1>3. IsFiniteSet(Before(m)) /\ IsFiniteSet(Before(e))
  BY <1>2, FeedIsFinite, FS_Subset
<1>4. Cardinality(Before(e)) <= Cardinality(Before(m))
  BY <1>2, <1>3, FS_Subset
<1>5. Cardinality(Before(e)) \in Nat /\ Cardinality(Before(m)) \in Nat
  BY <1>3, FS_CardinalityType
<1>6. Cardinality(Before(e)) < n
  BY <1>1, <1>4, <1>5
<1> QED BY <1>6 DEF Page, Before

\* A drain folds exactly the events between the old and the new watermark, in one replay per run.
LEMMA DrainFolds ==
  ASSUME TypeOK, SeqsAreDistinct, Drain
  PROVE  \E batch \in SUBSET feed :
           /\ wm < wm' /\ wm' \in Nat
           /\ \A e \in feed : e \in batch <=> wm < e.seq /\ e.seq <= wm'
           /\ \A e \in feed : e.seq \in folded' <=> e.seq \in folded \/ e \in batch
           /\ \A n \in folded' : n \in folded \/ \E e \in batch : e.seq = n
           /\ \A r \in Runs : board'[r] = FoldRun(board[r], r, batch)
<1>1. PICK batch : batch = Page(wm, PollBatchSize)
  OBVIOUS
<1>2. /\ batch \subseteq feed /\ batch \subseteq Events /\ batch # {}
      /\ wm' = LastSeq(batch, wm) /\ folded' = folded \cup {e.seq : e \in batch}
      /\ \A r \in Runs : board'[r] = FoldRun(board[r], r, batch)
  BY <1>1, DrainIsReplay
<1>3. PICK m \in batch : m.seq = wm'
  BY <1>2, LastIsGreatest
<1>4. \A e \in batch : e.seq <= wm' /\ wm < e.seq
  <2>1. \A e \in batch : wm < e.seq
    <3>1. wm \in Nat /\ \A e \in feed : e.seq \in Nat
      BY FeedAssumption DEF TypeOK, Events
    <3> QED BY <1>1, <3>1 DEF Page
  <2> QED BY <1>2, <2>1, LastIsGreatest
<1>5. wm' \in Nat /\ wm \in Nat /\ PollBatchSize \in Nat /\ \A e \in feed : e.seq \in Nat
  BY <1>2, <1>3, FeedAssumption DEF TypeOK, Events
<1>6. \A e \in feed : wm < e.seq /\ e.seq <= wm' => e \in batch
  <2> SUFFICES ASSUME NEW e \in feed, wm < e.seq, e.seq <= wm' PROVE e \in batch
    OBVIOUS
  <2>1. m \in Page(wm, PollBatchSize) /\ e.seq <= m.seq
    BY <1>1, <1>3
  <2>2. e \in Page(wm, PollBatchSize)
    BY <1>5, <2>1, PageHasNoGaps
  <2> QED BY <1>1, <2>2
<1>7. \A e \in feed : e.seq \in folded' <=> e.seq \in folded \/ e \in batch
  <2>1. \A e, f \in feed : e.seq = f.seq => e = f
    BY DEF SeqsAreDistinct
  <2> QED BY <1>2, <2>1
<1>8. \A n \in folded' : n \in folded \/ \E e \in batch : e.seq = n
  BY <1>2, <1>4
<1>9. wm < wm'
  BY <1>3, <1>4
<1> QED BY <1>2, <1>4, <1>5, <1>6, <1>7, <1>8, <1>9

LEMMA DrainKeepsProjectionInv ==
  ASSUME ProjectionInv, Drain, TypeOK', WriterInv'
  PROVE  ProjectionInv'
<1> USE DEF ProjectionInv
<1>1. UNCHANGED <<rebuildVars, baseline, survivors, nextSeq, open, feed, runState, deviceVars>>
  BY DEF Drain, feedVars
<1>2. PICK batch \in SUBSET feed :
        /\ wm < wm' /\ wm' \in Nat
        /\ \A e \in feed : e \in batch <=> wm < e.seq /\ e.seq <= wm'
        /\ \A e \in feed : e.seq \in folded' <=> e.seq \in folded \/ e \in batch
        /\ \A n \in folded' : n \in folded \/ \E e \in batch : e.seq = n
        /\ \A r \in Runs : board'[r] = FoldRun(board[r], r, batch)
  BY DrainFolds DEF WriterInv
<1>3. /\ MaxSeq \in Nat /\ wm \in 0 .. MaxSeq /\ folded \subseteq Nat
      /\ \A e \in feed : e.seq \in Nat
      /\ \A r \in Runs : board[r] \in Rows
      /\ batch \in SUBSET Events
  BY FeedAssumption DEF TypeOK, Events, Rows
<1>4. \A e \in feed : e.seq \in folded => e.seq <= wm /\ e \notin batch
  BY <1>2, <1>3 DEF FoldedIsPassed
<1>5. \A r \in Runs : Of(r)' = Of(r)
  BY <1>1 DEF Of
<1>6. baseline' \subseteq feed' /\ FoldedIsPassed'
  <2>1. ASSUME NEW n \in folded' PROVE n <= wm' /\ \E e \in feed : e.seq = n
    <3>1. (n \in folded \/ n <= wm') /\ \E e \in feed : e.seq = n
      BY <1>2 DEF FoldedIsPassed
    <3>2. n \in folded => n \in Nat /\ n <= wm
      BY <1>3 DEF FoldedIsPassed
    <3>3. wm \in Nat /\ wm' \in Nat /\ wm < wm'
      BY <1>2, <1>3
    <3> QED BY <3>1, <3>2, <3>3
  <2> QED BY <1>1, <2>1 DEF FoldedIsPassed
<1>7. RebuildForgetsNothing'
  <2>1. \A e \in baseline : e.seq <= wm' => e.seq \in folded'
    <3> SUFFICES ASSUME NEW e \in baseline, e.seq <= wm' PROVE e.seq \in folded'
      OBVIOUS
    <3>1. e \in feed /\ (e.seq <= wm => e.seq \in folded)
      BY DEF RebuildForgetsNothing, Missed
    <3>2. wm < e.seq \/ e.seq <= wm
      BY <1>3, <3>1
    <3> QED BY <1>2, <3>1, <3>2
  <2> QED BY <1>1, <2>1 DEF RebuildForgetsNothing, Missed
<1>8. BoardRowWasCreated'
  <2> SUFFICES ASSUME NEW r \in Runs \ survivors, board'[r].live
               PROVE  \E e \in Of(r) : e.delta.kind = "full" /\ e.seq \in folded'
    BY <1>1, <1>5 DEF BoardRowWasCreated
  <2>1. board[r].live \/ \E e \in batch : e.run = r /\ e.delta.kind = "full"
    BY <1>2, <1>3, ReplayStands
  <2>2. CASE board[r].live
    <3>1. PICK e \in Of(r) : e.delta.kind = "full" /\ e.seq \in folded
      BY <2>2 DEF BoardRowWasCreated
    <3> QED BY <1>2, <3>1 DEF Of
  <2>3. CASE \E e \in batch : e.run = r /\ e.delta.kind = "full"
    BY <1>2, <2>3 DEF Of
  <2> QED BY <2>1, <2>2, <2>3
<1>9. RowsStandOnEvents'
  <2> SUFFICES ASSUME NEW r \in Runs, board'[r].live
               PROVE  \E e \in Of(r) : e.seq = board'[r].seq /\ e.delta.state = board'[r].state
    BY <1>1, <1>5 DEF RowsStandOnEvents
  <2>1. \/ board[r].live /\ board'[r] = board[r]
        \/ \E e \in batch : e.run = r /\ e.seq = board'[r].seq /\ e.delta.state = board'[r].state
    BY <1>2, <1>3, ReplayStands
  <2> QED BY <1>2, <2>1 DEF RowsStandOnEvents, Of
<1>10. CreatedRunsAreShown'
  <2> SUFFICES ASSUME NEW r \in Runs, \A e \in Of(r) : e.locked,
                      NEW c \in Of(r), Creates(c), c.seq \in folded'
               PROVE  board'[r].live /\ \A e \in Of(r) : e.seq \in folded' => e.seq <= board'[r].seq
    BY <1>1, <1>5 DEF CreatedRunsAreShown, Creates
  <2>1. c \in feed /\ c.run = r /\ \A e \in Of(r) : c.seq <= e.seq
    BY DEF Of, WriterInv, CreatedFirst
  <2>2. c.seq \in folded \/ c \in batch
    BY <1>2, <2>1
  <2>3. c.seq \in folded => /\ board[r].live
                            /\ \A e \in Of(r) : e.seq \in folded => e.seq <= board[r].seq
    BY DEF CreatedRunsAreShown
  <2>4. c \in batch => \A e \in Of(r) : e.seq \notin folded
    <3> SUFFICES ASSUME c \in batch, NEW e \in Of(r), e.seq \in folded PROVE FALSE
      OBVIOUS
    <3>1. e \in feed /\ e.seq <= wm /\ wm < c.seq /\ c.seq <= e.seq
      BY <1>2, <1>4, <2>1 DEF Of
    <3> QED BY <1>3, <2>1, <3>1
  <2>5. \A e, f \in batch : e.seq = f.seq => e = f
    BY DEF WriterInv, SeqsAreDistinct
  <2>6. \A e \in batch : e.run = r => e.locked /\ e.delta.kind \in {"full", "state"}
    BY DEF Of, WriterInv, OwnDeltas
  <2>7. \A d, e \in batch : d.run = r /\ e.run = r /\ d.delta.kind = "full" => d.seq <= e.seq
    BY <2>6 DEF Of, WriterInv, CreatedFirst, Creates
  <2>8. board[r].live \/ \E d \in batch : d.run = r /\ d.delta.kind = "full"
    BY <2>1, <2>2, <2>3 DEF Creates
  <2>9. board'[r].live /\ \A e \in batch : e.run = r => e.seq <= board'[r].seq
    BY <1>2, <1>3, <2>5, <2>6, <2>7, <2>8, ReplayShows
  <2>10. ASSUME NEW e \in Of(r), e.seq \in folded PROVE e.seq <= board'[r].seq
    <3>1. board[r].live /\ e.seq <= board[r].seq
      BY <2>2, <2>3, <2>4, <2>10
    <3>2. board[r].seq <= board'[r].seq
      BY <1>2, <1>3, <2>9, <3>1, ReplayNeverRegresses
    <3>3. board[r].seq \in Nat /\ board'[r].seq \in Nat /\ e.seq \in Nat
      BY <1>3 DEF TypeOK, Rows, Of
    <3> QED BY <3>1, <3>2, <3>3
  <2>11. \A e \in Of(r) : e.seq \in folded' => e.seq \in folded \/ (e \in batch /\ e.run = r)
    BY <1>2 DEF Of
  <2> QED BY <2>9, <2>10, <2>11
<1>11. RebuiltRowsAreTrue'
  <2> SUFFICES ASSUME feed = baseline, NEW r \in Runs \ survivors
               PROVE  Same(board'[r], FoldRun(NoRow, r, FoldedEvents'))
    BY <1>1 DEF RebuiltRowsAreTrue
  <2>0. PICK done \in SUBSET feed : done = FoldedEvents
    BY DEF FoldedEvents
  <2>1. FoldedEvents' = done \cup batch
    BY <1>1, <1>2, <2>0 DEF FoldedEvents
  <2>2. /\ done \in SUBSET Events /\ \A e \in done : e.seq <= wm
        /\ \A e \in batch : wm < e.seq
    BY <1>2, <1>3, <1>4, <2>0 DEF FoldedEvents, TypeOK
  <2>3. FoldRun(NoRow, r, done \cup batch) = FoldRun(FoldRun(NoRow, r, done), r, batch)
    BY <1>3, <2>2, ReplayInTwo
  <2>4. Same(board[r], FoldRun(NoRow, r, done))
    BY <2>0 DEF RebuiltRowsAreTrue
  <2>5. FoldRun(NoRow, r, done) \in Rows
    <3>1. NoRow \in Rows
      BY <1>3 DEF NoRow, Rows, RunStates
    <3>2. PICK after : /\ Replays(after, MaxSeq, NoRow, r, done)
                       /\ FoldRun(NoRow, r, done) = after[MaxSeq]
      BY FoldRunReplays
    <3>3. MaxSeq \in 0 .. MaxSeq
      BY <1>3
    <3> QED BY <2>2, <3>1, <3>2, <3>3, ReplayRows
  <2>6. Same(FoldRun(board[r], r, batch), FoldRun(FoldRun(NoRow, r, done), r, batch))
    BY <1>3, <2>4, <2>5, ReplaySame
  <2> QED BY <1>2, <2>1, <2>3, <2>6
<1> QED BY <1>6, <1>7, <1>8, <1>9, <1>10, <1>11

LEMMA ResetKeepsProjectionInv ==
  ASSUME ProjectionInv, RebuildReset, TypeOK', WriterInv'
  PROVE  ProjectionInv'
<1> USE DEF ProjectionInv
<1>1. /\ board' = [r \in Runs |-> Hidden(r)] /\ wm' = 0 /\ folded' = {} /\ baseline' = feed
      /\ survivors' = {r \in Runs : board[r].live} \ hiding
      /\ UNCHANGED <<nextSeq, open, feed, runState>>
  BY DEF RebuildReset, ResetTo, feedVars
<1>2. \A r \in Runs : Of(r)' = Of(r)
  BY <1>1 DEF Of
<1>3. \A r \in Runs : /\ board'[r] = board[r] \/ ~board'[r].live
                      /\ r \notin survivors' => ~board'[r].live
  BY <1>1 DEF Hidden, TypeOK
<1>4. baseline' \subseteq feed' /\ FoldedIsPassed'
  BY <1>1 DEF FoldedIsPassed
<1>5. RebuildForgetsNothing'
  <2>1. \A e \in feed : ~(e.seq <= 0)
    BY FeedAssumption DEF TypeOK, Events
  <2> QED BY <1>1, <2>1 DEF RebuildForgetsNothing, Missed
<1>6. BoardRowWasCreated' /\ CreatedRunsAreShown'
  BY <1>1, <1>2, <1>3 DEF BoardRowWasCreated, CreatedRunsAreShown
<1>7. RowsStandOnEvents'
  BY <1>2, <1>3 DEF RowsStandOnEvents
<1>8. RebuiltRowsAreTrue'
  <2>1. FoldedEvents' = {}
    BY <1>1 DEF FoldedEvents
  <2>2. \A r \in Runs : FoldRun(NoRow, r, {}) = NoRow
    BY ReplayOfNothing
  <2>4. \A r \in Runs \ survivors' : board'[r].live = FALSE
    BY <1>1, <1>3 DEF TypeOK
  <2>5. NoRow.live = FALSE
    BY DEF NoRow
  <2>6. \A r \in Runs \ survivors' : Same(board'[r], FoldRun(NoRow, r, FoldedEvents'))
    BY <2>1, <2>2, <2>4, <2>5 DEF Same
  <2> QED BY <2>6 DEF RebuiltRowsAreTrue
<1> QED BY <1>4, <1>5, <1>6, <1>7, <1>8

\* A commit is of an event no reader has seen.
LEMMA CommitKeepsProjectionInv ==
  ASSUME ProjectionInv, NEW w \in Writers, Commit(w), TypeOK', WriterInv'
  PROVE  ProjectionInv'
<1> USE DEF ProjectionInv
<1>0. PICK e : e = open[w]
  OBVIOUS
<1>1. /\ feed' = feed \cup {e}
      /\ UNCHANGED <<board, wm, rebuilding, hiding, rebuilds, folded, baseline, survivors>>
  BY <1>0 DEF Commit, boardVars, rebuildVars, history
<1>2. e \notin feed /\ \A f \in feed : e.seq # f.seq
  BY <1>0, OpenIsEvent DEF Commit, WriterInv, FeedInv, SeqsAreDistinct
<1>3. \A r \in Runs : Of(r) \subseteq Of(r)' /\ Of(r)' \subseteq Of(r) \cup {e}
  BY <1>1 DEF Of
<1>4. baseline' \subseteq feed' /\ FoldedIsPassed'
  BY <1>1 DEF FoldedIsPassed
<1>5. RebuildForgetsNothing'
  BY <1>1, <1>2 DEF RebuildForgetsNothing, Missed
<1>6. BoardRowWasCreated' /\ RowsStandOnEvents'
  BY <1>1, <1>3 DEF BoardRowWasCreated, RowsStandOnEvents
<1>7. CreatedRunsAreShown'
  <2> SUFFICES ASSUME NEW r \in Runs, \A f \in Of(r)' : f.locked,
                      NEW c \in Of(r)', Creates(c), c.seq \in folded
               PROVE  board[r].live /\ \A f \in Of(r)' : f.seq \in folded => f.seq <= board[r].seq
    BY <1>1 DEF CreatedRunsAreShown, Creates
  <2>1. e.seq \notin folded
    BY <1>2 DEF FoldedIsPassed
  <2> QED BY <1>3, <2>1 DEF CreatedRunsAreShown
<1>8. RebuiltRowsAreTrue'
  BY <1>1, <1>2 DEF RebuiltRowsAreTrue
<1> QED BY <1>4, <1>5, <1>6, <1>7, <1>8

LEMMA StepProjectionInv == ProjectionInv /\ [Next]_vars => ProjectionInv'
<1> SUFFICES ASSUME ProjectionInv, [Next]_vars PROVE ProjectionInv'
  OBVIOUS
<1>1. TypeOK' /\ WriterInv'
  BY StepTypeOK, StepWriterInv DEF ProjectionInv
<1>2. ASSUME UNCHANGED <<feed, board, wm, folded, baseline, survivors>> PROVE ProjectionInv'
  <2>1. \A r \in Runs : Of(r)' = Of(r)
    BY <1>2 DEF Of
  <2>2. Missed' = Missed /\ FoldedEvents' = FoldedEvents
    BY <1>2 DEF Missed, FoldedEvents
  <2>3. FoldedIsPassed' /\ RebuildForgetsNothing' /\ RowsStandOnEvents' /\ BoardRowWasCreated'
    BY <1>2, <2>1, <2>2 DEF ProjectionInv, FoldedIsPassed, RebuildForgetsNothing,
       RowsStandOnEvents,
       BoardRowWasCreated
  <2>4. CreatedRunsAreShown' /\ RebuiltRowsAreTrue'
    BY <1>2, <2>1, <2>2 DEF ProjectionInv, CreatedRunsAreShown, RebuiltRowsAreTrue
  <2> QED BY <1>1, <1>2, <2>3, <2>4 DEF ProjectionInv
<1>3. CASE \E w \in Writers : Commit(w)
  BY <1>1, <1>3, CommitKeepsProjectionInv
<1>4. CASE Drain
  BY <1>1, <1>4, DrainKeepsProjectionInv
<1>5. CASE RebuildReset
  BY <1>1, <1>5, ResetKeepsProjectionInv
<1>6. CASE \E w \in Writers, r \in Runs :
             \/ CreateRun(w, r)
             \/ \E s \in NextStates : MoveRun(w, r, s)
             \/ \E d \in DeviceDeltas : SyncAction(w, r, d)
  BY <1>2, <1>6 DEF CreateRun, MoveRun, SyncAction, AppendEvent, boardVars, rebuildVars, history
<1>7. CASE \/ \E w \in Writers : Rollback(w)
           \/ RebuildHide \/ RebuildAborts \/ Pull \/ UNCHANGED vars
  BY <1>2, <1>7 DEF Rollback, RebuildHide, RebuildAborts, Pull, vars, feedVars, boardVars,
     rebuildVars, history
<1> QED BY <1>3, <1>4, <1>5, <1>6, <1>7 DEF Next

LEMMA InitProjectionInv == Init => ProjectionInv
<1> SUFFICES ASSUME Init PROVE ProjectionInv
  OBVIOUS
<1>1. TypeOK /\ WriterInv
  BY InitTypeOK, InitWriterInv
<1>2. /\ feed = {} /\ baseline = {} /\ folded = {} /\ board = [r \in Runs |-> NoRow]
  BY DEF Init
<1>3. \A r \in Runs : ~board[r].live /\ board[r] = NoRow
  BY <1>2 DEF NoRow
<1>4. baseline \subseteq feed /\ FoldedIsPassed /\ RebuildForgetsNothing
  BY <1>2 DEF FoldedIsPassed, RebuildForgetsNothing
<1>5. BoardRowWasCreated /\ RowsStandOnEvents /\ CreatedRunsAreShown
  BY <1>2, <1>3 DEF BoardRowWasCreated, RowsStandOnEvents, CreatedRunsAreShown, Of
<1>6. RebuiltRowsAreTrue
  <2>1. FoldedEvents = {}
    BY <1>2 DEF FoldedEvents
  <2> QED BY <1>3, <2>1, ReplayOfNothing DEF RebuiltRowsAreTrue, Same
<1> QED BY <1>1, <1>4, <1>5, <1>6 DEF ProjectionInv

\* The types, and what the feed, the projection and a rebuild owe each other.
THEOREM ProjectionInvariance == Spec => []ProjectionInv
<1> QED BY InitProjectionInv, StepProjectionInv, PTL DEF Spec

\* Once every event of a run that no device wrote to is folded, its row is the run.
LEMMA ShownRunsAgree == ProjectionInv => BoardAgreesWithRoadRun
<1> SUFFICES ASSUME ProjectionInv, NEW r \in Runs, runState[r] # "absent",
                    \A e \in Of(r) : e.locked /\ e.seq \in folded
             PROVE  board[r].live /\ board[r].state = runState[r]
  BY DEF BoardAgreesWithRoadRun
<1> USE DEF ProjectionInv
<1>1. \E c \in Of(r) : Creates(c)
  BY DEF WriterInv, CreatedOnce
<1>2. board[r].live /\ \A e \in Of(r) : e.seq <= board[r].seq
  BY <1>1 DEF CreatedRunsAreShown
<1>3. PICK e \in Of(r) : e.seq = board[r].seq /\ e.delta.state = board[r].state
  BY <1>2 DEF RowsStandOnEvents
<1>4. e \in feed /\ e.run = r /\ e.locked /\ \A f \in Of(r) : f.seq <= e.seq
  BY <1>2, <1>3 DEF Of
<1>5. runState[r] = e.delta.state
  BY <1>4 DEF WriterInv, StateIsLatest
<1> QED BY <1>2, <1>3, <1>5

LEMMA QuietRebuildsHeal == ProjectionInv => RebuildHeals
<1> SUFFICES ASSUME ProjectionInv, feed = baseline, \A e \in feed : e.seq \in folded,
                    NEW r \in Runs \ survivors
             PROVE  /\ board[r].live = FoldRun(NoRow, r, feed).live
                    /\ FoldRun(NoRow, r, feed).live => board[r] = FoldRun(NoRow, r, feed)
  BY DEF RebuildHeals
<1>1. FoldedEvents = feed
  BY DEF FoldedEvents
<1>2. Same(board[r], FoldRun(NoRow, r, feed))
  BY <1>1 DEF ProjectionInv, RebuiltRowsAreTrue
<1> QED BY <1>2 DEF Same

\* BoardIsTrue: a row on the board stands on a folded event that created it, and is where its run
\* is once the run's events are folded, through any interleaving of transactions, drains and rebuilds.
THEOREM BoardShowsTheTruth == Spec => []BoardIsTrue
<1>1. ProjectionInv => BoardIsTrue
  BY ShownRunsAgree DEF ProjectionInv, BoardIsTrue
<1> QED BY <1>1, ProjectionInvariance, PTL

\* RebuildIsSound: a rebuild over a live feed passes no event that was committed before it, and
\* makes of each row it hid what a replay from nothing makes of it.
THEOREM RebuildsAreSound == Spec => []RebuildIsSound
<1>1. ProjectionInv => RebuildIsSound
  BY QuietRebuildsHeal DEF ProjectionInv, RebuildIsSound
<1> QED BY <1>1, ProjectionInvariance, PTL

-----------------------------------------------------------------------------
(* The board of a tab *)

\* What the document shows has been listed: an optimistic row that is dropped because its real
\* row is on the page is not forgotten.
BoardInv == KnownOnce /\ shown \subseteq listed

LEMMA BoardStep == BoardInv /\ [BoardNext]_viewVars => BoardInv'
<1> SUFFICES ASSUME BoardInv, [BoardNext]_viewVars PROVE BoardInv'
  OBVIOUS
<1> USE DEF BoardInv, KnownOnce
<1>1. ASSUME UNCHANGED <<heard, sticky, listed, shown>> PROVE BoardInv'
  BY <1>1
<1>2. CASE \E v \in Views : Browse(v)
  BY <1>2 DEF Browse, FreshDocument
<1>3. CASE ApplyRefresh
  BY <1>3 DEF ApplyRefresh, Pruned
<1>4. CASE HearCreated
  BY <1>4 DEF HearCreated, AfterCreate, Pruned
<1>5. CASE Focus \/ OpenDrawer \/ CloseDrawer \/ Submit \/ Refuse
           \/ HearRefused \/ AnswerUnheard
  BY <1>1, <1>5 DEF Focus, OpenDrawer, CloseDrawer, Submit, Refuse,
     HearRefused, AnswerUnheard
<1>6. CASE \E o \in Orders : ServeCreate(o) \/ OtherCreates(o) \/ EndRun(o) \/ Project(o)
  BY <1>1, <1>6 DEF ServeCreate, OtherCreates, EndRun, Project
<1>7. CASE UNCHANGED viewVars
  BY <1>1, <1>7 DEF viewVars
<1> QED BY <1>2, <1>3, <1>4, <1>5, <1>6, <1>7 DEF BoardNext

\* An order that the form told the board of stays on the screen until its real row has been
\* there, and is never there twice, for any orders, searches, pages and router queues.
THEOREM OrdersAreShownOnce == BoardSpec => []KnownOnce
<1>1. BoardInit => BoardInv
  BY DEF BoardInit, BoardInv, KnownOnce
<1>2. BoardInv => KnownOnce
  BY DEF BoardInv
<1> QED BY <1>1, <1>2, BoardStep, PTL DEF BoardSpec

\* Entries of the router's queue.
Calls == [does : {"refresh", "create", "refused"}, form : 0 .. MaxForms, made : Orders \cup {NoOrder}]

\* A page has orders that match.
LEMMA SliceIsOfOrders ==
  ASSUME NEW v \in Views, NEW rows \in Slices(v)
  PROVE  rows \subseteq Orders
<1> DEFINE S == Matching(v)
<1>1. S \subseteq Orders /\ IsFiniteSet(S)
  <2>1. v.match \in SUBSET Orders
    BY BoardAssumption DEF Views
  <2>2. S \subseteq Orders
    BY <2>1 DEF Matching
  <2>3. IsFiniteSet(Orders)
    BY BoardAssumption DEF IsFiniteSet
  <2> HIDE DEF S
  <2> QED BY <2>2, <2>3, FS_Subset
<1>2. PICK q \in Orderings(S) : rows = Slice(q, v.page)
  BY DEF Slices
<1>3. Cardinality(S) = Cardinality(S)
  BY DEF Cardinality, Cardinality, IsFiniteSet
<1>4. q \in Seq(Orders)
  <2>1. q \in [1 .. Cardinality(S) -> S] /\ Cardinality(S) \in Nat
    BY <1>1, <1>2, <1>3, FS_CardinalityType DEF Orderings, SetToSeqs
  <2> HIDE DEF S
  <2> QED BY <1>1, <2>1
<1>5. PICK a, b \in Int : rows = ToSet(SubSeq(q, a, b)) /\ 1 <= a /\ b <= Len(q)
  <2> DEFINE a == (v.page - 1) * PageSize + 1
             b == IF Len(q) < v.page * PageSize THEN Len(q) ELSE v.page * PageSize
  <2>1. v.page \in Nat \ {0} /\ PageSize \in Nat \ {0}
    BY BoardAssumption DEF Views
  <2>2. v.page * PageSize \in Nat /\ (v.page - 1) * PageSize \in Nat
    BY <2>1
  <2>3. a \in Int /\ b \in Int /\ 1 <= a /\ b <= Len(q)
    BY <1>4, <2>2
  <2>4. rows = ToSet(SubSeq(q, a, b))
    BY <1>2 DEF Slice
  <2> HIDE DEF a, b
  <2> QED BY <2>3, <2>4
<1>6. \A i \in a .. b : q[i] \in Orders
  BY <1>4, <1>5
<1>7. SubSeq(q, a, b) \in Seq(Orders)
  BY <1>4, <1>5, <1>6
<1>8. \A i \in DOMAIN SubSeq(q, a, b) : SubSeq(q, a, b)[i] \in Orders
  BY <1>7
<1> QED BY <1>5, <1>8 DEF ToSet

LEMMA BoardTypesInit == BoardInit => BoardTypeOK
BY BoardAssumption DEF BoardInit, BoardTypeOK, RowStates, Groups

LEMMA BoardTypesStep ==
  ASSUME BoardTypeOK, [BoardNext]_viewVars
  PROVE  BoardTypeOK'
<1> USE DEF BoardTypeOK, dataVars, formVars
<1>0. /\ MaxForms \in Nat /\ forms \in 0 .. MaxForms /\ NoOrder \notin Orders
      /\ queue \in Seq(Calls)
      /\ Refresh \in Calls
      /\ \A n \in 0 .. MaxForms, o \in Orders \cup {NoOrder} :
           Create(n, o) \in Calls /\ Refusal(n) \in Calls
  BY BoardAssumption DEF Calls, Refresh, Create, Refusal
<1>1. queue # <<>> => /\ Head(queue) \in Calls /\ Tail(queue) \in Seq(Calls)
                      /\ Head(queue).form \in 0 .. MaxForms
                      /\ Head(queue).made \in Orders \cup {NoOrder}
                      /\ 1 \in 1 .. Len(queue) /\ Head(queue) = queue[1]
  <2> SUFFICES ASSUME queue # <<>> PROVE <1>1!2
    OBVIOUS
  <2>1. Head(queue) \in Calls /\ Tail(queue) \in Seq(Calls) /\ 1 \in 1 .. Len(queue) /\ Head(queue) = queue[1]
    <3> HIDE DEF Calls
    <3> QED BY <1>0
  <2> QED BY <2>1 DEF Calls
<1>2. ASSUME NEW c \in Calls, queue # <<>> PROVE [queue EXCEPT ![1] = c] \in Seq(Calls)
  BY <1>0, <1>1, <1>2, ExceptSeq
<1>3. ASSUME queue' \in Seq(Calls) PROVE queue' \in Seq([does : {"refresh", "create", "refused"}, form : 0 .. MaxForms,
                    made : Orders \cup {NoOrder}])
  BY <1>3 DEF Calls
<1>4. CASE \E v \in Views : Browse(v)
  BY <1>4, SliceIsOfOrders DEF Browse, FreshDocument
<1>5. CASE ApplyRefresh
  BY <1>1, <1>3, <1>5, SliceIsOfOrders DEF ApplyRefresh, Pruned
<1>6. CASE Focus
  <2>1. queue' \in Seq(Calls)
    BY <1>0, <1>6 DEF Focus
  <2> QED BY <1>3, <1>6, <2>1 DEF Focus
<1>7. CASE OpenDrawer \/ CloseDrawer
  BY <1>0, <1>7 DEF OpenDrawer, CloseDrawer
<1>8. CASE Submit
  <2>1. queue' \in Seq(Calls)
    BY <1>0, <1>8 DEF Submit
  <2> QED BY <1>3, <1>8, <2>1 DEF Submit
<1>9. CASE \E o \in Orders : ServeCreate(o)
  <2>1. PICK o \in Orders : ServeCreate(o)
    BY <1>9
  <2>2. queue # <<>> /\ queue' = [queue EXCEPT ![1] = Create(Head(queue).form, o)]
    BY <1>1, <2>1 DEF ServeCreate, UnderWay
  <2>3. queue' \in Seq(Calls)
    BY <1>0, <1>1, <1>2, <2>2
  <2> QED BY <1>3, <2>1, <2>3 DEF ServeCreate, RowStates, Groups
<1>10. CASE Refuse
  <2>1. queue # <<>> /\ queue' = [queue EXCEPT ![1] = Refusal(Head(queue).form)]
    BY <1>1, <1>10 DEF Refuse, UnderWay
  <2>2. queue' \in Seq(Calls)
    BY <1>0, <1>1, <1>2, <2>1
  <2> QED BY <1>3, <1>10, <2>2 DEF Refuse
<1>11. CASE HearCreated
  <2>1. queue' \in Seq(Calls) /\ Head(queue).made \in Orders
    BY <1>0, <1>1, <1>11 DEF HearCreated
  <2> QED BY <1>3, <1>11, <2>1 DEF HearCreated, AfterCreate, Pruned
<1>12. CASE HearRefused \/ AnswerUnheard
  BY <1>1, <1>3, <1>12 DEF HearRefused, AnswerUnheard
<1>13. CASE \E o \in Orders : OtherCreates(o) \/ EndRun(o) \/ Project(o)
  BY <1>13 DEF OtherCreates, EndRun, Project, RowStates, Groups
<1>14. CASE UNCHANGED viewVars
  BY <1>14 DEF viewVars
<1> QED BY <1>4, <1>5, <1>6, <1>7, <1>8, <1>9, <1>10, <1>11, <1>12, <1>13, <1>14 DEF BoardNext

\* Whatever the router's queue holds, the screen shows orders and the answers it hears are those of
\* forms that were opened (DispatchView, the create action).
THEOREM BoardTypes == BoardSpec => []BoardTypeOK
<1> QED BY BoardTypesInit, BoardTypesStep, PTL DEF BoardSpec
=============================================================================
