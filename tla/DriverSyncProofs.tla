-------------------------- MODULE DriverSyncProofs --------------------------
(***************************************************************************)
(* What the offline queue keeps for every set of actions, every number of  *)
(* loops and every budget of faults, and what it takes for one action of   *)
(* an aggregate to reach the feed before an earlier one.                   *)
(***************************************************************************)
EXTENDS QueueOrder, TLAPS

\* Nothing refers to a row the feed does not have.
Feed ==
  /\ \A a \in Actions : position[a] <= rows
  /\ \A l \in Loops : from[l] <= rows /\ answer[l].cursor <= rows

\* What a request has handled without a refusal is applied, and an answer covers its batch.
Handled ==
  \A l \in Loops :
    /\ done[l] \subseteq batch[l]
    /\ \A a \in done[l] \ refused[l] : Applied(a)
    /\ pc[l] = "answered" => done[l] = batch[l]

\* The blocker of a is in the feed.
Released(a) == Blocker[a] = NoAction \/ Applied(Blocker[a])

\* What has been sent has its blocker in the feed.
Sent ==
  /\ \A l \in Loops : \A a \in batch[l] : Released(a)
  /\ \A rest \in late : \A a \in rest : Released(a)

\* A run is under way only while the circuit breaker is closed.
Closed == \A l \in Loops : pc[l] \in {"off", "idle"} \/ failures[l] < MaxFailures

IInv ==
  /\ TypeOK
  /\ Closed
  /\ SyncedIsApplied
  /\ BlockerFirst
  /\ CursorIsKnown
  /\ Feed
  /\ Handled
  /\ Sent

\* TypeOK with the functions of loops that a run's end rewrites, and without them.
RequestTypes ==
  /\ batch \in [Loops -> SUBSET Actions]
  /\ from \in [Loops -> Nat]
  /\ done \in [Loops -> SUBSET Actions]
  /\ refused \in [Loops -> SUBSET Actions]
  /\ answer \in [Loops -> Answer]

LEMMA NoAnswerType == NoAnswer \in Answer
BY DEF NoAnswer, Answer, AnswerKinds

LEMMA ZeroFailures == 0 \in 0 .. MaxFailures
BY SyncAssumption

\* A fault spends its budget and stays within the type.
LEMMA FaultType ==
  ASSUME faults \in [FaultKinds -> Nat], NEW k \in FaultKinds, Fault(k)
  PROVE  faults' \in [FaultKinds -> Nat]
BY DEF Fault

\* Applying an action whose blocker is in the feed appends at most one row, moves no
\* action that has one, and leaves every blocker ahead of what it blocks.
LEMMA ApplyStep ==
  ASSUME IInv, NEW a \in Actions, Released(a), Apply(a)
  PROVE  /\ rows' \in Nat /\ position' \in [Actions -> Nat]
         /\ rows <= rows'
         /\ position'[a] > 0
         /\ \A b \in Actions : position[b] > 0 => position'[b] = position[b]
         /\ \A b \in Actions : position'[b] <= rows'
         /\ BlockerFirst'
<1> USE SyncAssumption
<1> USE DEF IInv, TypeOK, Feed
<1>1. CASE position[a] > 0
  BY <1>1 DEF Apply, Server, BlockerFirst, Applied
<1>2. CASE ~ (position[a] > 0)
  <2>1. rows' = rows + 1 /\ position' = [position EXCEPT ![a] = rows + 1]
    BY <1>2 DEF Apply
  <2>2. \A b \in Actions : position'[b] = IF b = a THEN rows + 1 ELSE position[b]
    BY <2>1
  <2>3. \A b \in Actions : position[b] > 0 => position'[b] = position[b] /\ b # a
    BY <1>2, <2>2
  <2>4. BlockerFirst'
    <3> SUFFICES ASSUME NEW b \in Actions, position'[b] > 0, Blocker[b] # NoAction
                 PROVE  position'[Blocker[b]] > 0 /\ position'[Blocker[b]] < position'[b]
      BY DEF BlockerFirst, Applied
    <3>1. Blocker[b] \in Actions
      OBVIOUS
    <3>2. CASE b = a
      <4>1. position[Blocker[a]] > 0
        BY <3>2 DEF Released, Applied
      <4> QED BY <2>2, <2>3, <3>1, <3>2, <4>1
    <3>3. CASE b # a
      <4>1. position[Blocker[b]] > 0 /\ position[Blocker[b]] < position[b]
        BY <2>2, <3>3 DEF BlockerFirst, Applied
      <4> QED BY <2>2, <2>3, <3>1, <3>3, <4>1
    <3> QED BY <3>2, <3>3
  <2> QED BY <2>1, <2>2, <2>3, <2>4
<1> QED BY <1>1, <1>2

\* A step that leaves the feed's past as it is keeps what depends on the feed alone.
LEMMA FeedOnlyGrows ==
  ASSUME IInv, NEW b \in Actions, position' \in [Actions -> Nat], Released(b),
         \A c \in Actions : position[c] > 0 => position'[c] = position[c]
  PROVE  Released(b)'
BY SyncAssumption DEF Released, Applied, IInv, TypeOK

\* What the queue may send has its blocker in the feed.
LEMMA DispatchableIsReleased ==
  ASSUME IInv, NEW a \in Dispatchable
  PROVE  a \in Actions /\ Released(a)
BY SyncAssumption DEF Dispatchable, Eligible, Released, IInv, SyncedIsApplied

LEMMA InitIInv == Init => IInv
<1> SUFFICES ASSUME Init PROVE IInv
  OBVIOUS
<1> USE SyncAssumption, NoAnswerType DEF Init
<1>1. TypeOK
  BY DEF TypeOK, Statuses, Stages
<1>2. SyncedIsApplied /\ BlockerFirst /\ CursorIsKnown
  BY DEF SyncedIsApplied, BlockerFirst, CursorIsKnown, Applied
<1>3. Feed /\ Handled /\ Sent /\ Closed
  BY DEF Feed, Handled, Sent, NoAnswer, Closed
<1> QED BY <1>1, <1>2, <1>3 DEF IInv

-----------------------------------------------------------------------------
(* Steps of the queue and of the loop before the answer *)

LEMMA EnqueueStep == ASSUME IInv, NEW a \in Actions, Enqueue(a) PROVE IInv'
<1> USE DEF IInv, Enqueue, Request, Server
<1>1. TypeOK'
  BY DEF TypeOK, Statuses
<1>2. SyncedIsApplied'
  BY DEF SyncedIsApplied, Applied, TypeOK
<1>3. BlockerFirst' /\ CursorIsKnown' /\ Feed' /\ Handled' /\ Sent' /\ Closed'
  BY DEF BlockerFirst, CursorIsKnown, Feed, Handled, Sent, Released, Applied, Closed
<1> QED BY <1>1, <1>2, <1>3

LEMMA ClaimStep == ASSUME IInv, NEW l \in Loops, Claim(l) PROVE IInv'
<1> USE DEF IInv, Claim, Request, Server
<1>1. TypeOK'
  BY DEF TypeOK, Statuses, Stages
<1>2. SyncedIsApplied'
  BY DEF SyncedIsApplied, Applied
<1>3. Handled' /\ Closed'
  BY DEF Handled, Closed, Applied, TypeOK
<1>4. BlockerFirst' /\ CursorIsKnown' /\ Feed' /\ Sent'
  BY DEF BlockerFirst, CursorIsKnown, Feed, Sent, Released, Applied
<1> QED BY <1>1, <1>2, <1>3, <1>4

\* The loop is started, stopped, or its run comes to a halt: nothing it holds changes.
LEMMA StageStep ==
  ASSUME IInv, NEW l \in Loops, NEW s \in Stages \ {"answered"}, pc' = [pc EXCEPT ![l] = s],
         s \in {"off", "idle"} \/ pc[l] = "wait",
         failures' = failures \/ failures' = [failures EXCEPT ![l] = 0],
         faults' \in [FaultKinds -> Nat],
         UNCHANGED <<Local, Request, Server>>,
         late' \subseteq SUBSET Actions,
         \A rest \in late' : rest \in late \/ rest \subseteq batch[l]
  PROVE  IInv'
<1> USE DEF IInv, Local, Request, Server
<1>1. TypeOK'
  BY ZeroFailures DEF TypeOK
<1>2. Handled'
  BY DEF Handled, Applied, TypeOK
<1>3. Sent'
  BY DEF Sent, Released, Applied
<1>4. SyncedIsApplied' /\ BlockerFirst' /\ CursorIsKnown' /\ Feed'
  BY DEF SyncedIsApplied, BlockerFirst, CursorIsKnown, Feed, Applied
<1>5. Closed'
  <2>1. \A k \in Loops : failures'[k] = failures[k] \/ (k = l /\ failures'[k] = 0)
    BY DEF TypeOK
  <2>2. \A k \in Loops : pc'[k] = IF k = l THEN s ELSE pc[k]
    BY DEF TypeOK
  <2>3. 0 < MaxFailures
    BY SyncAssumption
  <2> QED BY <2>1, <2>2, <2>3 DEF Closed
<1> QED BY <1>1, <1>2, <1>3, <1>4, <1>5

LEMMA ReadStep == ASSUME IInv, NEW l \in Loops, Read(l) PROVE IInv'
<1> USE DEF IInv, Read, Locals, Local, Server
<1>1. \A a \in Dispatchable : a \in Actions /\ Released(a)
  BY DispatchableIsReleased
<1>2. TypeOK'
  <2>1. batch' \in [Loops -> SUBSET Actions]
    BY <1>1 DEF TypeOK
  <2> QED BY <2>1, NoAnswerType DEF TypeOK, Stages
<1>3. Handled' /\ Closed'
  BY DEF Handled, Closed, Applied, TypeOK
<1>4. Sent'
  BY <1>1 DEF Sent, Released, Applied, TypeOK
<1>5. Feed'
  BY DEF Feed, CursorIsKnown, NoAnswer, TypeOK
<1>6. SyncedIsApplied' /\ BlockerFirst' /\ CursorIsKnown'
  BY DEF SyncedIsApplied, BlockerFirst, CursorIsKnown, Applied
<1> QED BY <1>2, <1>3, <1>4, <1>5, <1>6

-----------------------------------------------------------------------------
(* Steps of the server *)

\* The action of a request, or of one given up, is applied: only the two sets that say
\* what is left to handle change beside the feed.
LEMMA ApplyKeeps ==
  ASSUME IInv, NEW a \in Actions, Released(a), Apply(a),
         UNCHANGED <<Local, pc, batch, from, refused, answer, failures, faults>>
  PROVE  /\ rows' \in Nat /\ position' \in [Actions -> Nat]
         /\ \A b \in Actions : Applied(b) => Applied(b)'
         /\ \A b \in Actions : Released(b) => Released(b)'
         /\ Applied(a)'
         /\ SyncedIsApplied' /\ BlockerFirst' /\ CursorIsKnown' /\ Feed'
<1>1. /\ rows' \in Nat /\ position' \in [Actions -> Nat]
      /\ rows <= rows'
      /\ position'[a] > 0
      /\ \A b \in Actions : position[b] > 0 => position'[b] = position[b]
      /\ \A b \in Actions : position'[b] <= rows'
      /\ BlockerFirst'
  BY ApplyStep
<1>2. \A b \in Actions : Released(b) => Released(b)'
  BY <1>1, FeedOnlyGrows
<1>3. \A b \in Actions : Applied(b) => Applied(b)'
  BY <1>1 DEF Applied
<1>4. SyncedIsApplied'
  BY <1>3 DEF SyncedIsApplied, Local, IInv
<1>5. CursorIsKnown'
  BY <1>1 DEF CursorIsKnown, Local, IInv, TypeOK
<1>6. Feed'
  BY <1>1 DEF Feed, IInv, TypeOK, Answer
<1> QED BY <1>1, <1>2, <1>3, <1>4, <1>5, <1>6 DEF Applied

LEMMA ApplyActionStep ==
  ASSUME IInv, NEW l \in Loops, NEW a \in Actions, ApplyAction(l, a)
  PROVE  IInv'
<1>1. Released(a)
  BY DEF ApplyAction, IInv, Sent
<1>2. /\ rows' \in Nat /\ position' \in [Actions -> Nat]
      /\ \A b \in Actions : Applied(b) => Applied(b)'
      /\ \A b \in Actions : Released(b) => Released(b)'
      /\ Applied(a)'
      /\ SyncedIsApplied' /\ BlockerFirst' /\ CursorIsKnown' /\ Feed'
  BY <1>1, ApplyKeeps DEF ApplyAction
<1> USE DEF IInv, ApplyAction, Local
<1>3. TypeOK'
  BY <1>2 DEF TypeOK
<1>4. \A k \in Loops : done'[k] = IF k = l THEN done[l] \cup {a} ELSE done[k]
  BY DEF TypeOK
<1>5. Handled'
  <2> SUFFICES ASSUME NEW k \in Loops
               PROVE  /\ done'[k] \subseteq batch[k]
                      /\ \A b \in done'[k] \ refused[k] : Applied(b)'
                      /\ pc[k] = "answered" => done'[k] = batch[k]
    BY DEF Handled
  <2>1. done[k] \subseteq batch[k] /\ done[k] \subseteq Actions
    BY DEF Handled, TypeOK
  <2>2. \A b \in done[k] \ refused[k] : Applied(b)'
    BY <1>2, <2>1 DEF Handled
  <2> QED BY <1>2, <1>4, <2>1, <2>2 DEF Handled
<1>6. Sent' /\ Closed'
  BY <1>2 DEF Sent, Closed, TypeOK
<1> QED BY <1>2, <1>3, <1>5, <1>6

LEMMA RejectActionStep ==
  ASSUME IInv, NEW l \in Loops, NEW a \in Actions, RejectAction(l, a)
  PROVE  IInv'
<1> USE DEF IInv, RejectAction, Local, Server
<1>1. TypeOK'
  BY DEF TypeOK
<1>2. Handled'
  BY DEF Handled, Applied, TypeOK
<1>3. SyncedIsApplied' /\ BlockerFirst' /\ CursorIsKnown' /\ Feed' /\ Sent' /\ Closed'
  BY DEF SyncedIsApplied, BlockerFirst, CursorIsKnown, Feed, Sent, Released, Applied, Closed
<1> QED BY <1>1, <1>2, <1>3

LEMMA RespondStep == ASSUME IInv, NEW l \in Loops, Respond(l) PROVE IInv'
<1> USE DEF IInv, Local, Server
<1>1. PICK s \in Answers :
        answer' = [answer EXCEPT ![l] = [status |-> s, cursor |-> Pulled(from[l])]]
  BY DEF Respond
<1>2. Pulled(from[l]) \in Nat /\ Pulled(from[l]) <= rows
  BY SyncAssumption DEF Pulled, Feed, TypeOK
<1>3. TypeOK'
  <2>1. [status |-> s, cursor |-> Pulled(from[l])] \in Answer
    BY <1>2, SyncAssumption DEF Answer
  <2>2. answer' \in [Loops -> Answer]
    BY <1>1, <2>1 DEF TypeOK
  <2> QED BY <2>2 DEF TypeOK, Respond, Stages
<1>4. Feed'
  BY <1>1, <1>2 DEF Feed, Respond, TypeOK
<1>5. Handled' /\ Closed'
  BY DEF Handled, Closed, Applied, Respond, TypeOK
<1>6. SyncedIsApplied' /\ BlockerFirst' /\ CursorIsKnown' /\ Sent'
  BY DEF SyncedIsApplied, BlockerFirst, CursorIsKnown, Sent, Released, Applied, Respond
<1> QED BY <1>3, <1>4, <1>5, <1>6

LEMMA LateActionStep ==
  ASSUME IInv, NEW rest \in late, NEW a \in rest, LateAction(rest, a)
  PROVE  IInv'
<1>1. a \in Actions /\ Released(a)
  BY DEF IInv, Sent, TypeOK
<1>2. /\ rows' \in Nat /\ position' \in [Actions -> Nat]
      /\ \A b \in Actions : Applied(b) => Applied(b)'
      /\ \A b \in Actions : Released(b) => Released(b)'
      /\ Applied(a)'
      /\ SyncedIsApplied' /\ BlockerFirst' /\ CursorIsKnown' /\ Feed'
  BY <1>1, ApplyKeeps DEF LateAction, Request
<1> USE DEF IInv, LateAction, Local, Request
<1>3. late' \subseteq SUBSET Actions /\ \A r \in late' : r \in late \/ r \subseteq rest
  BY DEF TypeOK
<1>4. TypeOK'
  BY <1>2, <1>3 DEF TypeOK
<1>5. Handled'
  BY <1>2 DEF Handled, TypeOK
<1>6. Sent' /\ Closed'
  BY <1>2, <1>3 DEF Sent, Closed, TypeOK
<1> QED BY <1>2, <1>4, <1>5, <1>6

LEMMA OtherRowStep == ASSUME IInv, OtherRow PROVE IInv'
<1> USE DEF IInv, OtherRow, Local, Request
<1>1. faults' \in [FaultKinds -> Nat]
  BY FaultType DEF FaultKinds, TypeOK
<1>2. TypeOK'
  BY <1>1 DEF TypeOK
<1>3. Feed' /\ CursorIsKnown'
  BY DEF Feed, CursorIsKnown, TypeOK, Answer
<1>4. SyncedIsApplied' /\ BlockerFirst' /\ Handled' /\ Sent' /\ Closed'
  BY DEF SyncedIsApplied, BlockerFirst, Handled, Sent, Released, Applied, Closed
<1> QED BY <1>2, <1>3, <1>4

-----------------------------------------------------------------------------
(* Steps that end a run *)

\* A run that ends forgets its request and leaves the feed alone.
LEMMA EndRunKeeps ==
  ASSUME IInv, NEW l \in Loops, NEW n \in 0 .. MaxFailures, EndRun(l, n),
         UNCHANGED <<late, Server>>
  PROVE  /\ RequestTypes'
         /\ pc' \in [Loops -> Stages] /\ failures' \in [Loops -> 0 .. MaxFailures]
         /\ BlockerFirst' /\ Feed' /\ Handled' /\ Sent' /\ Closed'
<1> USE DEF IInv, EndRun, Locals, Server
<1>1. RequestTypes'
  BY NoAnswerType DEF RequestTypes, TypeOK
<1>2. pc' \in [Loops -> Stages] /\ failures' \in [Loops -> 0 .. MaxFailures]
  BY DEF TypeOK, Stages
<1>3. Feed'
  BY DEF Feed, TypeOK, NoAnswer
<1>4. Handled'
  BY DEF Handled, Applied, TypeOK
<1>5. Sent' /\ BlockerFirst' /\ Closed'
  BY DEF Closed, Sent, Released, BlockerFirst, Applied, TypeOK
<1> QED BY <1>1, <1>2, <1>3, <1>4, <1>5

LEMMA CommitStep == ASSUME IInv, NEW l \in Loops, Commit(l) PROVE IInv'
<1>1. /\ RequestTypes'
      /\ pc' \in [Loops -> Stages] /\ failures' \in [Loops -> 0 .. MaxFailures]
      /\ BlockerFirst' /\ Feed' /\ Handled' /\ Sent' /\ Closed'
  BY EndRunKeeps, ZeroFailures DEF Commit
<1> USE DEF IInv, Commit, Server
<1>2. answer[l].cursor \in Nat /\ answer[l].cursor <= rows
  BY DEF TypeOK, Answer, Feed
<1>3. TypeOK'
  <2>1. status' \in [Actions -> Statuses]
    BY DEF TypeOK, ResultStatus, Statuses
  <2>2. cursor' \in Nat /\ lastSeen' \in Nat
    BY <1>2 DEF Advance, TypeOK
  <2> QED BY <1>1, <2>1, <2>2 DEF TypeOK, RequestTypes
<1>4. SyncedIsApplied'
  <2> SUFFICES ASSUME NEW a \in Actions, status'[a] = "synced" PROVE Applied(a)
    BY DEF SyncedIsApplied, Applied
  <2>1. CASE status[a] = "synced"
    BY <2>1 DEF SyncedIsApplied
  <2>2. CASE status[a] # "synced"
    <3>1. a \in batch[l] /\ a \notin refused[l]
      BY <2>2 DEF ResultStatus
    <3> QED BY <3>1 DEF Handled
  <2> QED BY <2>1, <2>2
<1>5. CursorIsKnown'
  BY <1>2 DEF CursorIsKnown, Advance, TypeOK
<1> QED BY <1>1, <1>3, <1>4, <1>5

LEMMA ResetStep == ASSUME IInv, NEW l \in Loops, Reset(l) PROVE IInv'
<1>1. /\ RequestTypes'
      /\ pc' \in [Loops -> Stages] /\ failures' \in [Loops -> 0 .. MaxFailures]
      /\ BlockerFirst' /\ Feed' /\ Handled' /\ Sent' /\ Closed'
  BY EndRunKeeps, ZeroFailures DEF Reset
<1> USE DEF IInv, Reset, Server
<1>2. TypeOK'
  BY <1>1 DEF TypeOK, RequestTypes, Statuses
<1>3. SyncedIsApplied' /\ CursorIsKnown'
  BY DEF SyncedIsApplied, CursorIsKnown, Applied, TypeOK
<1> QED BY <1>1, <1>2, <1>3

\* A batch that is rolled back is not synced.
LEMMA RollbackStep ==
  ASSUME IInv, NEW l \in Loops, NEW n \in 0 .. MaxFailures, EndRun(l, n),
         status' = RolledBack(l), UNCHANGED <<cursor, lastSeen, late, Server, faults>>
  PROVE  IInv'
<1>1. /\ RequestTypes'
      /\ pc' \in [Loops -> Stages] /\ failures' \in [Loops -> 0 .. MaxFailures]
      /\ BlockerFirst' /\ Feed' /\ Handled' /\ Sent' /\ Closed'
  BY EndRunKeeps
<1> USE DEF IInv, RolledBack, Server
<1>2. TypeOK'
  BY <1>1 DEF TypeOK, RequestTypes, Statuses
<1>3. SyncedIsApplied' /\ CursorIsKnown'
  BY DEF SyncedIsApplied, CursorIsKnown, Applied
<1> QED BY <1>1, <1>2, <1>3

LEMMA StorageFailsStep == ASSUME IInv, NEW l \in Loops, StorageFails(l) PROVE IInv'
<1>1. /\ RequestTypes'
      /\ pc' \in [Loops -> Stages] /\ failures' \in [Loops -> 0 .. MaxFailures]
      /\ BlockerFirst' /\ Feed' /\ Handled' /\ Sent' /\ Closed'
  BY EndRunKeeps, ZeroFailures DEF StorageFails
<1>2. faults' \in [FaultKinds -> Nat]
  BY FaultType DEF StorageFails, FaultKinds, IInv, TypeOK
<1> USE DEF IInv, StorageFails, Local, Server
<1>3. TypeOK'
  BY <1>1, <1>2 DEF TypeOK, RequestTypes
<1>4. SyncedIsApplied' /\ CursorIsKnown'
  BY DEF SyncedIsApplied, CursorIsKnown, Applied
<1> QED BY <1>1, <1>3, <1>4

LEMMA CrashStep == ASSUME IInv, Crash PROVE IInv'
<1> USE DEF IInv, Crash, Local, Server
<1>1. faults' \in [FaultKinds -> Nat]
  BY FaultType DEF FaultKinds, TypeOK
<1>2. TypeOK'
  BY <1>1, NoAnswerType, ZeroFailures DEF TypeOK, Stages
<1>3. Feed' /\ Handled' /\ Sent' /\ Closed'
  BY DEF Feed, Handled, Sent, Closed, Released, Applied, TypeOK, NoAnswer
<1>4. SyncedIsApplied' /\ BlockerFirst' /\ CursorIsKnown'
  BY DEF SyncedIsApplied, BlockerFirst, CursorIsKnown, Applied
<1> QED BY <1>2, <1>3, <1>4

-----------------------------------------------------------------------------
(* The invariant *)

\* The steps of loop l that Next names.
LoopStep(l) ==
  \/ Run(l) \/ Start(l) \/ Stop(l) \/ ReadFails(l) \/ StorageFails(l)
  \/ TransportFails(l) \/ TransportGivesUp(l)
  \/ \E a \in Actions : RejectAction(l, a)

LEMMA LoopStepKeepsIInv == ASSUME IInv, NEW l \in Loops, LoopStep(l) PROVE IInv'
<1>1. "off" \in Stages \ {"answered"} /\ "idle" \in Stages \ {"answered"}
      /\ "failed" \in Stages \ {"answered"}
  BY DEF Stages
<1>2. ASSUME NEW k \in FaultKinds, Fault(k) PROVE faults' \in [FaultKinds -> Nat]
  BY <1>2, FaultType DEF IInv, TypeOK
<1>3. {"stop", "storage", "loss", "late"} \subseteq FaultKinds
  BY DEF FaultKinds
<1>4. faults \in [FaultKinds -> Nat] /\ failures \in [Loops -> 0 .. MaxFailures]
      /\ late \subseteq SUBSET Actions /\ batch \in [Loops -> SUBSET Actions]
  BY DEF IInv, TypeOK
<1>5. CASE Start(l)
  BY <1>1, <1>4, <1>5, StageStep DEF Start
<1>6. CASE Stop(l)
  BY <1>1, <1>2, <1>3, <1>4, <1>6, StageStep DEF Stop
<1>7. CASE ReadFails(l)
  BY <1>1, <1>2, <1>3, <1>4, <1>7, StageStep DEF ReadFails
<1>8. CASE TransportFails(l)
  BY <1>1, <1>2, <1>3, <1>4, <1>8, StageStep DEF TransportFails
<1>9. CASE TransportGivesUp(l)
  <2>1. /\ late' \subseteq SUBSET Actions
        /\ \A rest \in late' : rest \in late \/ rest \subseteq batch[l]
    BY <1>4, <1>9 DEF TransportGivesUp
  <2> QED BY <1>1, <1>2, <1>3, <1>4, <1>9, <2>1, StageStep DEF TransportGivesUp
<1>10. CASE \E a \in Actions : RejectAction(l, a)
  BY <1>10, RejectActionStep
<1>11. CASE StorageFails(l)
  BY <1>11, StorageFailsStep
<1>12. CASE Read(l) \/ Claim(l) \/ Respond(l) \/ Commit(l) \/ Reset(l)
  BY <1>12, ReadStep, ClaimStep, RespondStep, CommitStep, ResetStep
<1>13. CASE \E a \in Actions : ApplyAction(l, a)
  BY <1>13, ApplyActionStep
<1>14. CASE RollbackViolation(l)
  BY <1>14, RollbackStep, ZeroFailures DEF RollbackViolation
<1>15. CASE RollbackTransport(l)
  <2>1. failures[l] + 1 \in 0 .. MaxFailures
    BY <1>4, <1>15, SyncAssumption DEF RollbackTransport, IInv, Closed
  <2> QED BY <1>15, <2>1, RollbackStep DEF RollbackTransport
<1> QED BY <1>5, <1>6, <1>7, <1>8, <1>9, <1>10, <1>11, <1>12, <1>13, <1>14, <1>15
        DEF LoopStep, Run

LEMMA StutterKeepsIInv == ASSUME IInv, UNCHANGED vars PROVE IInv'
<1> USE DEF vars, Local, Request, Server
<1>1. TypeOK' /\ Closed'
  BY DEF IInv, TypeOK, Closed
<1>2. SyncedIsApplied' /\ BlockerFirst' /\ CursorIsKnown'
  BY DEF IInv, SyncedIsApplied, BlockerFirst, CursorIsKnown, Applied
<1>3. Feed' /\ Handled' /\ Sent'
  BY DEF IInv, Feed, Handled, Sent, Released, Applied
<1> QED BY <1>1, <1>2, <1>3 DEF IInv

LEMMA NextKeepsIInv == IInv /\ [Next]_vars => IInv'
<1> SUFFICES ASSUME IInv, [Next]_vars PROVE IInv'
  OBVIOUS
<1>1. CASE \E a \in Actions : Enqueue(a)
  BY <1>1, EnqueueStep
<1>2. CASE \E l \in Loops : LoopStep(l)
  BY <1>2, LoopStepKeepsIInv
<1>3. CASE \E rest \in late : \E a \in rest : LateAction(rest, a)
  BY <1>3, LateActionStep
<1>4. CASE OtherRow \/ Crash
  BY <1>4, OtherRowStep, CrashStep
<1>5. CASE UNCHANGED vars
  BY <1>5, StutterKeepsIInv
<1> QED BY <1>1, <1>2, <1>3, <1>4, <1>5 DEF Next, LoopStep

\* Whatever loops, losses, late requests, kills and storage failures do, the queue, the
\* requests under way and the feed stay related as IInv says.
THEOREM QueueInvariance == Spec => []IInv
<1> QED BY InitIInv, NextKeepsIInv, PTL DEF Spec

\* The variables of the queue, the loops and the server keep their types; in particular a
\* loop never counts beyond the circuit breaker.
THEOREM QueueTypes == Spec => []TypeOK
<1>1. IInv => TypeOK
  BY DEF IInv
<1> QED BY <1>1, QueueInvariance, PTL

\* An action the queue calls synced is in the server's feed.
THEOREM SyncedActionsAreApplied == Spec => []SyncedIsApplied
<1>1. IInv => SyncedIsApplied
  BY DEF IInv
<1> QED BY <1>1, QueueInvariance, PTL

\* A blocked action is in the feed only behind its blocker.
THEOREM BlockersComeFirst == Spec => []BlockerFirst
<1>1. IInv => BlockerFirst
  BY DEF IInv
<1> QED BY <1>1, QueueInvariance, PTL

\* Both, whatever loops, losses and late requests do.
THEOREM FeedTruth == Spec => []FeedIsTrue
<1>1. IInv => FeedIsTrue
  BY DEF IInv, FeedIsTrue
<1> QED BY <1>1, QueueInvariance, PTL

\* The cursor never runs ahead of last_seen_seq, nor last_seen_seq of the feed.
THEOREM CursorsAreKnown == Spec => []CursorIsKnown
<1>1. IInv => CursorIsKnown
  BY DEF IInv
<1> QED BY <1>1, QueueInvariance, PTL

-----------------------------------------------------------------------------
(* The order of an aggregate *)

\* Some request, under way or late, holds b.
InHand(b) == (\E l \in Loops : b \in batch[l]) \/ (\E rest \in late : b \in rest)

Queued == \A a, b \in Actions : Earlier(a, b) /\ status[b] # "absent" => status[a] # "absent"

SentIsQueued == \A b \in Actions : InHand(b) => status[b] # "absent"

\* a is in the feed, or was held back when b was read.
Passed(a, b) == Applied(a) \/ <<a, b>> \in skipped

SentIsPassed == \A a, b \in Actions : Earlier(a, b) /\ InHand(b) => Passed(a, b)

OrderInv == Queued /\ SentIsQueued /\ SentIsPassed /\ OvertakenIsHeldBack

\* An action enters the queue behind the earlier ones of its aggregate and stays in it.
QueueGrows ==
  \A b \in Actions :
    /\ status[b] # "absent" => status'[b] # "absent"
    /\ status[b] = "absent" /\ status'[b] # "absent"
         => \A a \in Actions : Earlier(a, b) => status[a] # "absent"

\* Only a read of the queue puts an action into a request.
HandsGrow == \A b \in Actions : InHand(b)' => InHand(b) \/ (b \in Dispatchable /\ b \in Taken)

\* Only what a request holds enters the feed, at its end.
FeedGrows ==
  \A b \in Actions :
    /\ Applied(b) => position'[b] = position[b]
    /\ ~Applied(b) /\ Applied(b)' =>
         InHand(b) /\ \A c \in Actions : Applied(c) => position[c] < position'[b]

\* What a read takes has behind it, of the earlier actions, only those in the feed and
\* those it held back.
LEMMA ReadSkips ==
  ASSUME IInv, Queued, NEW a \in Actions, NEW b \in Dispatchable, Earlier(a, b)
  PROVE  Applied(a) \/ a \in HeldBack
<1>1. b \in Eligible /\ status[b] = "pending"
  BY DEF Dispatchable, Eligible
<1>2. a \notin Eligible
  <2>1. b \in Actions /\ Rank[a] \in Nat /\ Rank[b] \in Nat
    BY SyncAssumption DEF Dispatchable, Eligible
  <2> QED BY <2>1 DEF Dispatchable, Earlier
<1>3. status[a] \in {"pending", "syncing", "synced", "rejected"}
  BY <1>1 DEF Queued, IInv, TypeOK, Statuses, Dispatchable, Eligible
<1> QED BY <1>2, <1>3 DEF HeldBack, IInv, SyncedIsApplied

\* The three growths are all the order needs.
LEMMA GrowthKeepsOrder ==
  ASSUME IInv, OrderInv, QueueGrows, HandsGrow, FeedGrows, position' \in [Actions -> Nat],
         skipped' = skipped \cup {p \in HeldBack \X Taken : Earlier(p[1], p[2])}
  PROVE  OrderInv'
<1>1. Queued'
  BY DEF OrderInv, Queued, QueueGrows, Earlier
<1>2. SentIsQueued'
  <2> SUFFICES ASSUME NEW b \in Actions, InHand(b)' PROVE status'[b] # "absent"
    BY DEF SentIsQueued
  <2>1. status[b] # "absent"
    BY DEF HandsGrow, OrderInv, SentIsQueued, Dispatchable, Eligible
  <2> QED BY <2>1 DEF QueueGrows
<1>3. SentIsPassed'
  <2> SUFFICES ASSUME NEW a \in Actions, NEW b \in Actions, Earlier(a, b), InHand(b)'
               PROVE  Passed(a, b)'
    BY DEF SentIsPassed, Earlier
  <2>1. Applied(a) => Applied(a)'
    BY DEF FeedGrows, Applied
  <2>2. CASE InHand(b)
    BY <2>1, <2>2 DEF OrderInv, SentIsPassed, Passed
  <2>3. CASE b \in Dispatchable /\ b \in Taken
    <3>1. Applied(a) \/ a \in HeldBack
      BY <2>3, ReadSkips DEF OrderInv
    <3>2. a \in HeldBack => <<a, b>> \in skipped'
      BY <2>3
    <3> QED BY <2>1, <3>1, <3>2 DEF Passed
  <2> QED BY <2>2, <2>3 DEF HandsGrow
<1>4. OvertakenIsHeldBack'
  <2> SUFFICES ASSUME NEW a \in Actions, NEW b \in Actions, Earlier(a, b), Applied(b)',
                      <<a, b>> \notin skipped'
               PROVE  Applied(a)' /\ position'[a] < position'[b]
    BY DEF OvertakenIsHeldBack, Earlier
  <2>1. <<a, b>> \notin skipped
    OBVIOUS
  <2>2. Applied(a) /\ (Applied(b) => position[a] < position[b])
    <3>1. CASE Applied(b)
      BY <2>1, <3>1 DEF OrderInv, OvertakenIsHeldBack
    <3>2. CASE ~Applied(b)
      BY <2>1, <3>2 DEF FeedGrows, OrderInv, SentIsPassed, Passed
    <3> QED BY <3>1, <3>2
  <2> QED BY <2>2 DEF FeedGrows, Applied
<1> QED BY <1>1, <1>2, <1>3, <1>4 DEF OrderInv

\* A step that leaves the queue, the requests and the feed alone.
LEMMA IdleGrows ==
  ASSUME UNCHANGED <<status, batch, late, position>>
  PROVE  QueueGrows /\ HandsGrow /\ FeedGrows
BY DEF QueueGrows, HandsGrow, FeedGrows, InHand, Applied

LEMMA EnqueueGrows ==
  ASSUME IInv, NEW a \in Actions, Enqueue(a)
  PROVE  QueueGrows /\ HandsGrow /\ FeedGrows
<1> USE DEF Enqueue, Request, Server
<1>1. QueueGrows
  BY DEF QueueGrows, Earlier, IInv, TypeOK
<1>2. HandsGrow /\ FeedGrows
  BY DEF HandsGrow, FeedGrows, InHand, Applied
<1> QED BY <1>1, <1>2

LEMMA ReadGrows ==
  ASSUME IInv, NEW l \in Loops, Read(l)
  PROVE  QueueGrows /\ HandsGrow /\ FeedGrows
<1> USE DEF Read, Locals, Local, Server
<1>1. QueueGrows /\ FeedGrows
  BY DEF QueueGrows, FeedGrows, Applied
<1>2. HandsGrow
  <2> SUFFICES ASSUME NEW b \in Actions, InHand(b)', ~InHand(b)
               PROVE  b \in Dispatchable /\ b \in Taken
    BY DEF HandsGrow
  <2>1. b \in batch'[l] \ batch[l] /\ batch'[l] = Dispatchable
    BY DEF InHand, IInv, TypeOK
  <2> QED BY <2>1 DEF Taken
<1> QED BY <1>1, <1>2

LEMMA ClaimGrows ==
  ASSUME IInv, NEW l \in Loops, Claim(l), SentIsQueued
  PROVE  QueueGrows /\ HandsGrow /\ FeedGrows
<1> USE DEF Claim, Request, Server
<1>1. QueueGrows
  BY DEF QueueGrows, SentIsQueued, InHand, IInv, TypeOK
<1>2. HandsGrow /\ FeedGrows
  BY DEF HandsGrow, FeedGrows, InHand, Applied
<1> QED BY <1>1, <1>2

\* The server applies an action that some request holds.
LEMMA ApplyGrows ==
  ASSUME IInv, NEW a \in Actions, InHand(a), Apply(a)
  PROVE  FeedGrows
<1>1. Released(a)
  BY DEF InHand, IInv, Sent
<1>2. rows \in Nat /\ position \in [Actions -> Nat] /\ \A b \in Actions : position[b] <= rows
  BY DEF IInv, TypeOK, Feed
<1> QED BY <1>1, <1>2 DEF Apply, Server, FeedGrows, Applied

\* A run ends: its batch is given up, and what it changes in the queue is not absent.
LEMMA EndGrows ==
  ASSUME IInv, NEW l \in Loops, NEW n, EndRun(l, n), UNCHANGED <<late, position>>,
         \A c \in Actions : status'[c] = status[c]
                              \/ (status'[c] # "absent" /\ (c \in batch[l] \/ status[c] = "syncing")),
         SentIsQueued
  PROVE  QueueGrows /\ HandsGrow /\ FeedGrows
<1> USE DEF EndRun, Locals
<1>1. QueueGrows
  BY DEF QueueGrows, SentIsQueued, InHand
<1>2. HandsGrow /\ FeedGrows
  BY DEF HandsGrow, FeedGrows, InHand, Applied, IInv, TypeOK
<1> QED BY <1>1, <1>2

LEMMA LoopStepGrows ==
  ASSUME IInv, SentIsQueued, NEW l \in Loops, LoopStep(l)
  PROVE  QueueGrows /\ HandsGrow /\ FeedGrows
<1> USE DEF Local, Request, Server
<1>1. CASE \/ Start(l) \/ Stop(l) \/ ReadFails(l) \/ TransportFails(l) \/ Respond(l)
           \/ \E a \in Actions : RejectAction(l, a)
  BY <1>1, IdleGrows DEF Start, Stop, ReadFails, TransportFails, Respond, RejectAction
<1>2. CASE TransportGivesUp(l)
  <2>1. QueueGrows /\ FeedGrows
    BY <1>2 DEF TransportGivesUp, QueueGrows, FeedGrows, Applied
  <2>2. HandsGrow
    BY <1>2 DEF TransportGivesUp, HandsGrow, InHand
  <2> QED BY <2>1, <2>2
<1>3. CASE Read(l) \/ Claim(l)
  BY <1>3, ReadGrows, ClaimGrows
<1>4. CASE \E a \in Actions : ApplyAction(l, a)
  <2> PICK a \in Actions : ApplyAction(l, a)
    BY <1>4
  <2>1. InHand(a)
    BY DEF ApplyAction, InHand
  <2>2. FeedGrows
    BY <2>1, ApplyGrows DEF ApplyAction
  <2>3. QueueGrows /\ HandsGrow
    BY DEF ApplyAction, QueueGrows, HandsGrow, InHand
  <2> QED BY <2>2, <2>3
<1>5. CASE Commit(l)
  <2>1. \A c \in Actions : status'[c] = status[c] \/ (status'[c] # "absent" /\ c \in batch[l])
    BY <1>5 DEF Commit, ResultStatus
  <2> QED BY <1>5, <2>1, EndGrows DEF Commit
<1>6. CASE Reset(l)
  <2>1. \A c \in Actions :
          status'[c] = status[c] \/ (status'[c] # "absent" /\ status[c] = "syncing")
    BY <1>6 DEF Reset
  <2> QED BY <1>6, <2>1, EndGrows DEF Reset
<1>7. CASE RollbackViolation(l) \/ RollbackTransport(l)
  <2>1. \A c \in Actions : status'[c] = status[c] \/ (status'[c] # "absent" /\ c \in batch[l])
    BY <1>7 DEF RollbackViolation, RollbackTransport, RolledBack
  <2> QED BY <1>7, <2>1, EndGrows DEF RollbackViolation, RollbackTransport
<1>8. CASE StorageFails(l)
  BY <1>8, EndGrows DEF StorageFails
<1> QED BY <1>1, <1>2, <1>3, <1>4, <1>5, <1>6, <1>7, <1>8 DEF LoopStep, Run

LEMMA NextGrows ==
  ASSUME IInv, SentIsQueued, Next
  PROVE  QueueGrows /\ HandsGrow /\ FeedGrows
<1> USE DEF Local, Request, Server
<1>1. CASE \E a \in Actions : Enqueue(a)
  BY <1>1, EnqueueGrows
<1>2. CASE \E l \in Loops : LoopStep(l)
  BY <1>2, LoopStepGrows
<1>3. CASE \E rest \in late : \E a \in rest : LateAction(rest, a)
  <2> PICK rest \in late : \E a \in rest : LateAction(rest, a)
    BY <1>3
  <2> PICK a \in rest : LateAction(rest, a)
    OBVIOUS
  <2>1. a \in Actions /\ InHand(a)
    BY DEF InHand, IInv, TypeOK
  <2>2. FeedGrows
    BY <2>1, ApplyGrows DEF LateAction
  <2>3. QueueGrows /\ HandsGrow
    BY DEF LateAction, QueueGrows, HandsGrow, InHand
  <2> QED BY <2>2, <2>3
<1>4. CASE OtherRow
  BY <1>4, IdleGrows DEF OtherRow
<1>5. CASE Crash
  <2>1. QueueGrows /\ FeedGrows
    BY <1>5 DEF Crash, QueueGrows, FeedGrows, Applied
  <2>2. HandsGrow
    BY <1>5 DEF Crash, HandsGrow, InHand
  <2> QED BY <2>1, <2>2
<1> QED BY <1>1, <1>2, <1>3, <1>4, <1>5 DEF Next, LoopStep

LEMMA InitOrder == OrderInit => OrderInv
BY DEF OrderInit, Init, OrderInv, Queued, SentIsQueued, SentIsPassed, OvertakenIsHeldBack,
       InHand, Applied

LEMMA NextKeepsOrder == IInv /\ IInv' /\ OrderInv /\ [OrderNext]_orderVars => OrderInv'
<1> SUFFICES ASSUME IInv, IInv', OrderInv, [OrderNext]_orderVars PROVE OrderInv'
  OBVIOUS
<1>1. CASE OrderNext
  <2>1. position' \in [Actions -> Nat]
    BY DEF IInv, TypeOK
  <2> QED BY <1>1, <2>1, NextGrows, GrowthKeepsOrder DEF OrderNext, OrderInv
<1>2. CASE UNCHANGED orderVars
  BY <1>2 DEF orderVars, vars, OrderInv, Queued, SentIsQueued, SentIsPassed, Passed,
              OvertakenIsHeldBack, InHand, Applied, Earlier
<1> QED BY <1>1, <1>2

\* With any loops, losses, late requests, storage failures, kills, refusals and blockers,
\* an action is in the feed without an earlier one of its aggregate before it only if that
\* one was claimed, refused or behind its blocker when the later one was read.
THEOREM OvertakingHasACause == OrderSpec => []OvertakenIsHeldBack
<1>1. OrderInv => OvertakenIsHeldBack
  BY DEF OrderInv
<1>2. OrderInit => Init
  BY DEF OrderInit
<1>3. [OrderNext]_orderVars => [Next]_vars
  BY DEF OrderNext, orderVars
<1>4. OrderSpec => []IInv
  BY <1>2, <1>3, InitIInv, NextKeepsIInv, PTL DEF OrderSpec
<1> QED BY InitOrder, NextKeepsOrder, <1>1, <1>4, PTL DEF OrderSpec
=============================================================================
