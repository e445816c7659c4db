-------------------------- MODULE OutboxRelayProofs --------------------------
(***************************************************************************)
(* Proofs about OutboxRelay, for every set of rows and relays, every batch *)
(* size and every attempt limit, and about the alerts and the monitor that *)
(* DriverAlerts puts on top of it, for every set of drivers and devices.   *)
(* The last part is about the other monitor that a timer drives, the       *)
(* break-glass tripwire of LoginWatch, for any number of logins and        *)
(* overlapping polls.                                                      *)
(***************************************************************************)
EXTENDS DriverAlerts, LoginWatch, WellFoundedInduction, TLAPS

-----------------------------------------------------------------------------
\* The strengthening: what the columns of a row say about its past.
RowHistory ==
  \A r \in Rows :
    /\ status[r] \in {"absent", "pending"} => attempts[r] = 0 /\ ~Enqueued(r)
    /\ status[r] = "failed" => attempts[r] < MaxAttempts
    /\ jobs[r] \in {"completed", "failed"} => runs[r] > 0

\* A failed add belongs to a row the relay still holds.
FailingIsHeld == \A p \in Relays : failing[p] \subseteq held[p]

\* A job that has run is retained until no relay can add it again.
JobHistory ==
  ~JobsExpire => \A r \in Rows :
    \/ runs[r] = 0
    \/ runs[r] = 1 /\ jobs[r] \in {"completed", "failed"}
    \/ runs[r] = 1 /\ jobs[r] = "none" /\ ~InRetry(r) /\ status[r] \in {"sent", "dead_letter"}

IInv ==
  /\ TypeOK
  /\ RowHistory
  /\ FailingIsHeld
  /\ ClaimIsExclusive
  /\ DeadLetterEarned
  /\ SentIsEnqueuedOrAbandoned
  /\ JobHistory

\* Initially no row exists and no relay holds anything.
LEMMA InitIInv == Init => IInv
  BY RelayAssumption
  DEF Init, IInv, TypeOK, RowHistory, FailingIsHeld, ClaimIsExclusive, DeadLetterEarned,
      SentIsEnqueuedOrAbandoned, JobHistory, Enqueued, RowStatus, JobState

\* Every step of the relay keeps its variables in their types; the bound on
\* attempts needs the history of the row that is claimed.
LEMMA StepTypeOK == IInv /\ [Next]_vars => TypeOK'
  <1> SUFFICES ASSUME IInv, [Next]_vars PROVE TypeOK'
    OBVIOUS
  <1> USE RelayAssumption DEF IInv, TypeOK, RowStatus, JobState, relayVars, rowVars, brokerVars,
          crashVars
  <1>1. ASSUME NEW r \in Rows, InsertRow(r) PROVE TypeOK'
    BY <1>1 DEF InsertRow
  <1>2. ASSUME NEW r \in Rows, BackoffElapses(r) PROVE TypeOK'
    BY <1>2 DEF BackoffElapses
  <1>3. ASSUME NEW r \in Rows, RunJob(r) PROVE TypeOK'
    BY <1>3 DEF RunJob
  <1>4. ASSUME NEW r \in Rows, ExpireJob(r) PROVE TypeOK'
    BY <1>4 DEF ExpireJob
  <1>5. ASSUME NEW p \in Relays, Claim(p) PROVE TypeOK'
    <2>1. ClaimBatch \subseteq Rows
      BY DEF ClaimBatch
    <2>2. \A r \in ClaimBatch : attempts[r] + 1 \in 0..MaxAttempts
      BY DEF ClaimBatch, Eligible, RowHistory
    <2>3. attempts' \in [Rows -> 0..MaxAttempts]
      BY <1>5, <2>1, <2>2 DEF Claim
    <2>4. seen' \in [Relays -> [Rows -> 0..MaxAttempts]]
      BY <1>5, <2>1 DEF Claim
    <2> QED BY <1>5, <2>1, <2>3, <2>4 DEF Claim
  <1>6. ASSUME NEW p \in Relays, NEW r \in Rows, DeadLetterUnroutable(p, r) PROVE TypeOK'
    <2>1. seen[p][r] + 1 \in 0..MaxAttempts
      BY <1>6 DEF DeadLetterUnroutable, Current, ClaimIsExclusive
    <2> QED BY <1>6, <2>1 DEF DeadLetterUnroutable, Finish, NextAttempts
  <1>7. ASSUME NEW p \in Relays, NEW r \in Rows, Publish(p, r) PROVE TypeOK'
    BY <1>7 DEF Publish, Finish, AddJob
  <1>8. ASSUME NEW p \in Relays, NEW r \in Rows, PublishFails(p, r) PROVE TypeOK'
    BY <1>8 DEF PublishFails, AddJob
  <1>9. ASSUME NEW p \in Relays, NEW r \in Rows, RecordFailure(p, r) PROVE TypeOK'
    <2>1. seen[p][r] + 1 \in 0..MaxAttempts
      BY <1>9 DEF RecordFailure, Current, ClaimIsExclusive
    <2>2. attempts' \in [Rows -> 0..MaxAttempts]
      BY <1>9, <2>1 DEF RecordFailure, NextAttempts
    <2>3. \/ status' = [status EXCEPT ![r] = "dead_letter"] /\ due' = due
          \/ status' = [status EXCEPT ![r] = "failed"] /\ due' = [due EXCEPT ![r] = FALSE]
      BY <1>9 DEF RecordFailure
    <2>4. status' \in [Rows -> RowStatus]
      <3>1. CASE status' = [status EXCEPT ![r] = "dead_letter"]
        BY <3>1
      <3>2. CASE status' = [status EXCEPT ![r] = "failed"]
        BY <3>2
      <3> QED BY <2>3, <3>1, <3>2
    <2>5. due' \in [Rows -> BOOLEAN]
      BY <2>3, Zenon
    <2>6. Finish(p, r) /\ UNCHANGED <<payload, brokerVars, crashVars>>
      BY <1>9 DEF RecordFailure
    <2> QED BY <2>2, <2>4, <2>5, <2>6 DEF Finish
  <1>10. ASSUME NEW p \in Relays, Abandon(p) PROVE TypeOK'
    <2>1. seen' \in [Relays -> [Rows -> 0..MaxAttempts]]
      BY <1>10 DEF Abandon
    <2>2. crashes' \in 0..MaxCrashes
      BY <1>10 DEF Abandon
    <2>3. abandoned' \subseteq Rows
      BY <1>10 DEF Abandon
    <2> QED BY <1>10, <2>1, <2>2, <2>3 DEF Abandon
  <1>11. CASE UNCHANGED vars
    BY <1>11 DEF vars
  <1> QED
    BY <1>1, <1>2, <1>3, <1>4, <1>5, <1>6, <1>7, <1>8, <1>9, <1>10, <1>11 DEF Next, RelayStep

\* The columns of a row keep telling its past.
LEMMA StepRowHistory == IInv /\ TypeOK' /\ [Next]_vars => RowHistory'
  <1> SUFFICES ASSUME IInv, TypeOK', [Next]_vars PROVE RowHistory'
    OBVIOUS
  <1> USE RelayAssumption DEF IInv, TypeOK, rowVars, relayVars, brokerVars, crashVars,
          RowHistory, Enqueued
  <1>1. ASSUME NEW r \in Rows, InsertRow(r) PROVE RowHistory'
    BY <1>1 DEF InsertRow
  <1>2. ASSUME NEW r \in Rows, BackoffElapses(r) PROVE RowHistory'
    BY <1>2 DEF BackoffElapses
  <1>3. ASSUME NEW r \in Rows, RunJob(r) PROVE RowHistory'
    BY <1>3 DEF RunJob
  <1>4. ASSUME NEW r \in Rows, ExpireJob(r) PROVE RowHistory'
    BY <1>4 DEF ExpireJob, InRetry
  <1>5. ASSUME NEW p \in Relays, Claim(p) PROVE RowHistory'
    BY <1>5 DEF Claim, ClaimBatch, Eligible
  <1>6. ASSUME NEW p \in Relays, NEW r \in Rows, DeadLetterUnroutable(p, r) PROVE RowHistory'
    BY <1>6 DEF DeadLetterUnroutable, Current, Finish, NextAttempts
  <1>7. ASSUME NEW p \in Relays, NEW r \in Rows, Publish(p, r) PROVE RowHistory'
    <2>1. status[r] = "sent"
      BY <1>7 DEF Publish, Current, ClaimIsExclusive
    <2> QED BY <1>7, <2>1 DEF Publish, Finish, AddJob
  <1>8. ASSUME NEW p \in Relays, NEW r \in Rows, PublishFails(p, r) PROVE RowHistory'
    <2>1. status[r] = "sent"
      BY <1>8 DEF PublishFails, Current, ClaimIsExclusive
    <2> QED BY <1>8, <2>1 DEF PublishFails, AddJob
  <1>9. ASSUME NEW p \in Relays, NEW r \in Rows, RecordFailure(p, r) PROVE RowHistory'
    BY <1>9 DEF RecordFailure, Current, Finish, NextAttempts, GivesUp
  <1>10. ASSUME NEW p \in Relays, Abandon(p) PROVE RowHistory'
    BY <1>10 DEF Abandon
  <1>11. CASE UNCHANGED vars
    BY <1>11 DEF vars
  <1> QED
    BY <1>1, <1>2, <1>3, <1>4, <1>5, <1>6, <1>7, <1>8, <1>9, <1>10, <1>11 DEF Next, RelayStep

\* A relay forgets a failed add no later than the row.
LEMMA StepFailingIsHeld == IInv /\ TypeOK' /\ [Next]_vars => FailingIsHeld'
  <1> SUFFICES ASSUME IInv, TypeOK', [Next]_vars PROVE FailingIsHeld'
    OBVIOUS
  <1> USE RelayAssumption DEF IInv, TypeOK, rowVars, relayVars, brokerVars, crashVars, FailingIsHeld
  <1>1. ASSUME NEW r \in Rows, InsertRow(r) PROVE FailingIsHeld'
    BY <1>1 DEF InsertRow
  <1>2. ASSUME NEW r \in Rows, BackoffElapses(r) PROVE FailingIsHeld'
    BY <1>2 DEF BackoffElapses
  <1>3. ASSUME NEW r \in Rows, RunJob(r) PROVE FailingIsHeld'
    BY <1>3 DEF RunJob
  <1>4. ASSUME NEW r \in Rows, ExpireJob(r) PROVE FailingIsHeld'
    BY <1>4 DEF ExpireJob, InRetry
  <1>5. ASSUME NEW p \in Relays, Claim(p) PROVE FailingIsHeld'
    BY <1>5 DEF Claim, ClaimBatch, Eligible
  <1>6. ASSUME NEW p \in Relays, NEW r \in Rows, DeadLetterUnroutable(p, r) PROVE FailingIsHeld'
    BY <1>6 DEF DeadLetterUnroutable, Current, Finish, NextAttempts
  <1>7. ASSUME NEW p \in Relays, NEW r \in Rows, Publish(p, r) PROVE FailingIsHeld'
    BY <1>7 DEF Publish, Current, Finish, AddJob
  <1>8. ASSUME NEW p \in Relays, NEW r \in Rows, PublishFails(p, r) PROVE FailingIsHeld'
    BY <1>8 DEF PublishFails, Current, AddJob
  <1>9. ASSUME NEW p \in Relays, NEW r \in Rows, RecordFailure(p, r) PROVE FailingIsHeld'
    BY <1>9 DEF RecordFailure, Current, Finish, NextAttempts, GivesUp
  <1>10. ASSUME NEW p \in Relays, Abandon(p) PROVE FailingIsHeld'
    BY <1>10 DEF Abandon
  <1>11. CASE UNCHANGED vars
    BY <1>11 DEF vars
  <1> QED
    BY <1>1, <1>2, <1>3, <1>4, <1>5, <1>6, <1>7, <1>8, <1>9, <1>10, <1>11 DEF Next, RelayStep

\* A claim takes only rows no relay holds, because a held row is 'sent'.
LEMMA StepClaimIsExclusive == IInv /\ TypeOK' /\ [Next]_vars => ClaimIsExclusive'
  <1> SUFFICES ASSUME IInv, TypeOK', [Next]_vars PROVE ClaimIsExclusive'
    OBVIOUS
  <1> USE RelayAssumption DEF IInv, TypeOK, rowVars, relayVars, brokerVars, crashVars,
          ClaimIsExclusive
  <1>1. ASSUME NEW r \in Rows, InsertRow(r) PROVE ClaimIsExclusive'
    BY <1>1 DEF InsertRow
  <1>2. ASSUME NEW r \in Rows, BackoffElapses(r) PROVE ClaimIsExclusive'
    BY <1>2 DEF BackoffElapses
  <1>3. ASSUME NEW r \in Rows, RunJob(r) PROVE ClaimIsExclusive'
    BY <1>3 DEF RunJob
  <1>4. ASSUME NEW r \in Rows, ExpireJob(r) PROVE ClaimIsExclusive'
    BY <1>4 DEF ExpireJob, InRetry
  <1>5. ASSUME NEW p \in Relays, Claim(p) PROVE ClaimIsExclusive'
    BY <1>5 DEF Claim, ClaimBatch, Eligible
  <1>6. ASSUME NEW p \in Relays, NEW r \in Rows, DeadLetterUnroutable(p, r) PROVE ClaimIsExclusive'
    <2>1. \A q \in Relays : r \notin held'[q] /\ held'[q] \subseteq held[q]
      BY <1>6 DEF DeadLetterUnroutable, Current, Finish
    <2>2. \A q \in Relays : \A x \in held'[q] : x # r /\ seen'[q][x] = seen[q][x]
      BY <1>6, <2>1 DEF DeadLetterUnroutable, Finish
    <2>3. \A x \in Rows \ {r} : status'[x] = status[x] /\ attempts'[x] = attempts[x]
      BY <1>6 DEF DeadLetterUnroutable
    <2> QED BY <2>1, <2>2, <2>3
  <1>7. ASSUME NEW p \in Relays, NEW r \in Rows, Publish(p, r) PROVE ClaimIsExclusive'
    BY <1>7 DEF Publish, Current, Finish, AddJob
  <1>8. ASSUME NEW p \in Relays, NEW r \in Rows, PublishFails(p, r) PROVE ClaimIsExclusive'
    BY <1>8 DEF PublishFails, Current, AddJob
  <1>9. ASSUME NEW p \in Relays, NEW r \in Rows, RecordFailure(p, r) PROVE ClaimIsExclusive'
    BY <1>9 DEF RecordFailure, Current, Finish, NextAttempts, GivesUp
  <1>10. ASSUME NEW p \in Relays, Abandon(p) PROVE ClaimIsExclusive'
    BY <1>10 DEF Abandon
  <1>11. CASE UNCHANGED vars
    BY <1>11 DEF vars
  <1> QED
    BY <1>1, <1>2, <1>3, <1>4, <1>5, <1>6, <1>7, <1>8, <1>9, <1>10, <1>11 DEF Next, RelayStep

\* Only the last attempt dead-letters a routable row.
LEMMA StepDeadLetterEarned == IInv /\ TypeOK' /\ [Next]_vars => DeadLetterEarned'
  <1> SUFFICES ASSUME IInv, TypeOK', [Next]_vars PROVE DeadLetterEarned'
    OBVIOUS
  <1> USE RelayAssumption DEF IInv, TypeOK, rowVars, relayVars, brokerVars, crashVars,
          DeadLetterEarned, ClaimIsExclusive
  <1>1. ASSUME NEW r \in Rows, InsertRow(r) PROVE DeadLetterEarned'
    BY <1>1 DEF InsertRow
  <1>2. ASSUME NEW r \in Rows, BackoffElapses(r) PROVE DeadLetterEarned'
    BY <1>2 DEF BackoffElapses
  <1>3. ASSUME NEW r \in Rows, RunJob(r) PROVE DeadLetterEarned'
    BY <1>3 DEF RunJob
  <1>4. ASSUME NEW r \in Rows, ExpireJob(r) PROVE DeadLetterEarned'
    BY <1>4 DEF ExpireJob, InRetry
  <1>5. ASSUME NEW p \in Relays, Claim(p) PROVE DeadLetterEarned'
    BY <1>5 DEF Claim, ClaimBatch, Eligible
  <1>6. ASSUME NEW p \in Relays, NEW r \in Rows, DeadLetterUnroutable(p, r) PROVE DeadLetterEarned'
    BY <1>6 DEF DeadLetterUnroutable, Current, Finish, NextAttempts
  <1>7. ASSUME NEW p \in Relays, NEW r \in Rows, Publish(p, r) PROVE DeadLetterEarned'
    BY <1>7 DEF Publish, Current, Finish, AddJob
  <1>8. ASSUME NEW p \in Relays, NEW r \in Rows, PublishFails(p, r) PROVE DeadLetterEarned'
    BY <1>8 DEF PublishFails, Current, AddJob
  <1>9. ASSUME NEW p \in Relays, NEW r \in Rows, RecordFailure(p, r) PROVE DeadLetterEarned'
    BY <1>9 DEF RecordFailure, Current, Finish, NextAttempts, GivesUp
  <1>10. ASSUME NEW p \in Relays, Abandon(p) PROVE DeadLetterEarned'
    BY <1>10 DEF Abandon
  <1>11. CASE UNCHANGED vars
    BY <1>11 DEF vars
  <1> QED
    BY <1>1, <1>2, <1>3, <1>4, <1>5, <1>6, <1>7, <1>8, <1>9, <1>10, <1>11 DEF Next, RelayStep

\* A relay lets go of a sent row by publishing it or by dying.
LEMMA StepSentIsEnqueuedOrAbandoned == IInv /\ TypeOK' /\ [Next]_vars => SentIsEnqueuedOrAbandoned'
  <1> SUFFICES ASSUME IInv, TypeOK', [Next]_vars PROVE SentIsEnqueuedOrAbandoned'
    OBVIOUS
  <1> USE RelayAssumption DEF IInv, TypeOK, rowVars, relayVars, brokerVars, crashVars,
          SentIsEnqueuedOrAbandoned, Enqueued, RowHistory
  <1>1. ASSUME NEW r \in Rows, InsertRow(r) PROVE SentIsEnqueuedOrAbandoned'
    BY <1>1 DEF InsertRow
  <1>2. ASSUME NEW r \in Rows, BackoffElapses(r) PROVE SentIsEnqueuedOrAbandoned'
    BY <1>2 DEF BackoffElapses
  <1>3. ASSUME NEW r \in Rows, RunJob(r) PROVE SentIsEnqueuedOrAbandoned'
    <2>1. status' = status /\ held' = held /\ abandoned' = abandoned
      BY <1>3 DEF RunJob
    <2>2. runs'[r] > 0 /\ \A x \in Rows \ {r} : jobs'[x] = jobs[x] /\ runs'[x] = runs[x]
      BY <1>3 DEF RunJob
    <2> QED BY <2>1, <2>2
  <1>4. ASSUME NEW r \in Rows, ExpireJob(r) PROVE SentIsEnqueuedOrAbandoned'
    BY <1>4 DEF ExpireJob, InRetry
  <1>5. ASSUME NEW p \in Relays, Claim(p) PROVE SentIsEnqueuedOrAbandoned'
    BY <1>5 DEF Claim, ClaimBatch, Eligible
  <1>6. ASSUME NEW p \in Relays, NEW r \in Rows, DeadLetterUnroutable(p, r) PROVE SentIsEnqueuedOrAbandoned'
    <2>1. jobs' = jobs /\ runs' = runs /\ abandoned' = abandoned
      BY <1>6 DEF DeadLetterUnroutable
    <2>2. \A x \in Rows \ {r}, q \in Relays : status'[x] = status[x] /\ (x \in held[q] => x \in held'[q])
      BY <1>6 DEF DeadLetterUnroutable, Finish
    <2>3. status'[r] = "dead_letter"
      BY <1>6 DEF DeadLetterUnroutable
    <2> QED BY <2>1, <2>2, <2>3
  <1>7. ASSUME NEW p \in Relays, NEW r \in Rows, Publish(p, r) PROVE SentIsEnqueuedOrAbandoned'
    BY <1>7 DEF Publish, Current, Finish, AddJob
  <1>8. ASSUME NEW p \in Relays, NEW r \in Rows, PublishFails(p, r) PROVE SentIsEnqueuedOrAbandoned'
    BY <1>8 DEF PublishFails, Current, AddJob
  <1>9. ASSUME NEW p \in Relays, NEW r \in Rows, RecordFailure(p, r) PROVE SentIsEnqueuedOrAbandoned'
    BY <1>9 DEF RecordFailure, Current, Finish, NextAttempts, GivesUp
  <1>10. ASSUME NEW p \in Relays, Abandon(p) PROVE SentIsEnqueuedOrAbandoned'
    BY <1>10 DEF Abandon
  <1>11. CASE UNCHANGED vars
    BY <1>11 DEF vars
  <1> QED
    BY <1>1, <1>2, <1>3, <1>4, <1>5, <1>6, <1>7, <1>8, <1>9, <1>10, <1>11 DEF Next, RelayStep

\* A job that ran is forgotten only when its row is finished.
LEMMA StepJobHistory == IInv /\ TypeOK' /\ [Next]_vars => JobHistory'
  <1> SUFFICES ASSUME IInv, TypeOK', [Next]_vars PROVE JobHistory'
    OBVIOUS
  <1> USE RelayAssumption DEF IInv, TypeOK, rowVars, relayVars, brokerVars, crashVars,
          JobHistory, RowHistory, InRetry, ClaimIsExclusive, Enqueued
  <1>1. ASSUME NEW r \in Rows, InsertRow(r) PROVE JobHistory'
    BY <1>1 DEF InsertRow
  <1>2. ASSUME NEW r \in Rows, BackoffElapses(r) PROVE JobHistory'
    BY <1>2 DEF BackoffElapses
  <1>3. ASSUME NEW r \in Rows, RunJob(r) PROVE JobHistory'
    BY <1>3 DEF RunJob
  <1>4. ASSUME NEW r \in Rows, ExpireJob(r) PROVE JobHistory'
    <2> SUFFICES ASSUME ~JobsExpire PROVE JobHistory'
      OBVIOUS
    <2>1. ~InRetry(r) /\ jobs[r] = "completed"
      BY <1>4 DEF ExpireJob
    <2>4. status[r] \in {"sent", "dead_letter"}
      BY <2>1 DEF RowStatus
    <2>5. runs[r] = 1
      BY <2>1
    <2>2. runs'[r] = 1 /\ jobs'[r] = "none"
      BY <1>4, <2>5 DEF ExpireJob
    <2>3. \A x \in Rows \ {r} : jobs'[x] = jobs[x] /\ runs'[x] = runs[x]
      BY <1>4 DEF ExpireJob
    <2> QED BY <1>4, <2>1, <2>2, <2>3, <2>4 DEF ExpireJob
  <1>5. ASSUME NEW p \in Relays, Claim(p) PROVE JobHistory'
    BY <1>5 DEF Claim, ClaimBatch, Eligible
  <1>6. ASSUME NEW p \in Relays, NEW r \in Rows, DeadLetterUnroutable(p, r) PROVE JobHistory'
    <2>1. jobs' = jobs /\ runs' = runs
      BY <1>6 DEF DeadLetterUnroutable
    <2>2. \A q \in Relays : held'[q] \subseteq held[q]
      BY <1>6 DEF DeadLetterUnroutable, Finish
    <2>3. \A x \in Rows : status'[x] = status[x] \/ status'[x] = "dead_letter"
      BY <1>6 DEF DeadLetterUnroutable
    <2>4. \A x \in Rows : ~InRetry(x) => ~InRetry(x)'
      BY <2>2, <2>3
    <2> QED BY <2>1, <2>3, <2>4
  <1>7. ASSUME NEW p \in Relays, NEW r \in Rows, Publish(p, r) PROVE JobHistory'
    BY <1>7 DEF Publish, Current, Finish, AddJob
  <1>8. ASSUME NEW p \in Relays, NEW r \in Rows, PublishFails(p, r) PROVE JobHistory'
    BY <1>8 DEF PublishFails, Current, AddJob
  <1>9. ASSUME NEW p \in Relays, NEW r \in Rows, RecordFailure(p, r) PROVE JobHistory'
    BY <1>9 DEF RecordFailure, Current, Finish, NextAttempts, GivesUp
  <1>10. ASSUME NEW p \in Relays, Abandon(p) PROVE JobHistory'
    BY <1>10 DEF Abandon
  <1>11. CASE UNCHANGED vars
    BY <1>11 DEF vars
  <1> QED
    BY <1>1, <1>2, <1>3, <1>4, <1>5, <1>6, <1>7, <1>8, <1>9, <1>10, <1>11 DEF Next, RelayStep

\* The invariant is inductive.
THEOREM Invariance == Spec => []IInv
  <1>1. IInv /\ [Next]_vars => IInv'
    BY StepTypeOK, StepRowHistory, StepFailingIsHeld, StepClaimIsExclusive, StepDeadLetterEarned,
       StepSentIsEnqueuedOrAbandoned, StepJobHistory DEF IInv
  <1> QED BY InitIInv, <1>1, PTL DEF Spec

\* Two drains that overlap in any way never hold the same row, and what each
\* remembers of a row it holds is current (drainOnce's claim transaction).
THEOREM ClaimSafety == Spec => []ClaimIsExclusive
  BY Invariance, PTL DEF IInv

\* The variables stay in their types; in particular no row is attempted more
\* often than MAX_ATTEMPTS_BEFORE_DEAD_LETTER.
THEOREM TypeSafety == Spec => []TypeOK
  BY Invariance, PTL DEF IInv

\* drainOnce dead-letters a row some queue consumes only after the last attempt.
THEOREM DeadLetterSafety == Spec => []DeadLetterEarned
  BY Invariance, PTL DEF IInv

\* Marking rows 'sent' before publishing loses only rows whose drain died.
THEOREM LossWindow == Spec => []SentIsEnqueuedOrAbandoned
  BY Invariance, PTL DEF IInv

\* A status the relay writes last is earned: a routable row is dead-lettered by
\* all its failures, and sent means a job, a live relay or a death.
THEOREM StatusIsTrue == Spec => []StatusIsEarned
  <1>1. IInv => StatusIsEarned
    BY DEF IInv, StatusIsEarned
  <1> QED BY Invariance, <1>1, PTL

\* As long as completed jobs outlive the retries of their row, jobId = outboxId
\* makes every job run at most once, and its row's status is earned.
THEOREM EarnedOnce == ASSUME ~JobsExpire PROVE Spec => []DeliveryIsEarned
  <1>1. IInv => RunsAtMostOnce
    BY DEF IInv, TypeOK, JobHistory, RunsAtMostOnce
  <1>2. IInv => DeliveryIsEarned
    BY <1>1 DEF IInv, StatusIsEarned, DeliveryIsEarned
  <1> QED BY Invariance, <1>2, PTL

-----------------------------------------------------------------------------
\* The abstract step a relay step takes: the row whose outcome it changes.
LEMMA OutcomeStep ==
  ASSUME IInv, IInv', NEW r \in Rows, payload' = payload,
         \A x \in Rows \ {r} : Outcome(x)' = Outcome(x),
         \/ Outcome(r)' = Outcome(r)
         \/ Outcome(r) = "none" /\ Outcome(r)' = "owed"
         \/ Outcome(r) = "owed" /\ Outcome(r)' = "dead"
         \/ Outcome(r) = "owed" /\ Outcome(r)' = "enqueued" /\ Routable(payload[r])
  PROVE  [Delivery!Next]_<<{x \in Rows : Routable(payload[x])}, [x \in Rows |-> Outcome(x)]>>
  <1> DEFINE D == {x \in Rows : Routable(payload[x])}
             O == [x \in Rows |-> Outcome(x)]
  <1>1. D' = D
    BY DEF Routable, Decision, ValidPayload, RouteOutboxRow
  <1>2. CASE Outcome(r)' = Outcome(r)
    BY <1>1, <1>2
  <1>3. O' = [O EXCEPT ![r] = Outcome(r)']
    OBVIOUS
  <1>4. CASE Outcome(r) = "none" /\ Outcome(r)' = "owed"
    BY <1>1, <1>3, <1>4 DEF Delivery!Next, Delivery!Commit
  <1>5. CASE Outcome(r) = "owed" /\ Outcome(r)' = "dead"
    BY <1>1, <1>3, <1>5 DEF Delivery!Next, Delivery!GiveUp, Delivery!Settle
  <1>6. CASE Outcome(r) = "owed" /\ Outcome(r)' = "enqueued" /\ Routable(payload[r])
    BY <1>1, <1>3, <1>6 DEF Delivery!Next, Delivery!Enqueue, Delivery!Settle
  <1> QED BY <1>2, <1>4, <1>5, <1>6

\* Every relay step is an abstract step or leaves every outcome alone.
LEMMA StepImplements ==
  IInv /\ IInv' /\ [Next]_vars =>
    [Delivery!Next]_<<{r \in Rows : Routable(payload[r])}, [r \in Rows |-> Outcome(r)]>>
  <1> SUFFICES ASSUME IInv, IInv', [Next]_vars
               PROVE  [Delivery!Next]_<<{r \in Rows : Routable(payload[r])}, [r \in Rows |-> Outcome(r)]>>
    OBVIOUS
  <1> DEFINE Goal == [Delivery!Next]_<<{r \in Rows : Routable(payload[r])}, [r \in Rows |-> Outcome(r)]>>
             Changes(r) == \/ Outcome(r)' = Outcome(r)
                           \/ Outcome(r) = "none" /\ Outcome(r)' = "owed"
                           \/ Outcome(r) = "owed" /\ Outcome(r)' = "dead"
                           \/ Outcome(r) = "owed" /\ Outcome(r)' = "enqueued" /\ Routable(payload[r])
             Keeps(r) == \A x \in Rows \ {r} : Outcome(x)' = Outcome(x)
  <1>a. ASSUME NEW r \in Rows, payload' = payload, Keeps(r), Changes(r) PROVE Goal
    BY <1>a, OutcomeStep
  <1>b. ASSUME payload' = payload, \A x \in Rows : Outcome(x)' = Outcome(x) PROVE Goal
    <2>1. {x \in Rows : Routable(payload[x])}' = {x \in Rows : Routable(payload[x])}
      BY <1>b DEF Routable, Decision, ValidPayload, RouteOutboxRow
    <2> QED BY <1>b, <2>1
  <1> HIDE DEF Goal
  <1> USE DEF IInv, TypeOK, RowHistory, ClaimIsExclusive, Outcome, Enqueued,
              rowVars, relayVars, brokerVars, crashVars
  <1>1. ASSUME NEW r \in Rows, InsertRow(r) PROVE Goal
    <2>1. Keeps(r)
      BY <1>1 DEF InsertRow
    <2>2. Outcome(r) = "none" /\ Outcome(r)' = "owed"
      BY <1>1 DEF InsertRow
    <2> QED BY <1>1, <2>1, <2>2, <1>a DEF InsertRow
  <1>2. ASSUME NEW r \in Rows, BackoffElapses(r) PROVE Goal
    <2>1. \A x \in Rows : Outcome(x)' = Outcome(x)
      BY <1>2 DEF BackoffElapses
    <2> QED BY <1>2, <2>1, <1>b DEF BackoffElapses
  <1>3. ASSUME NEW r \in Rows, RunJob(r) PROVE Goal
    <2>1. \A x \in Rows : Outcome(x)' = Outcome(x)
      BY <1>3 DEF RunJob
    <2> QED BY <1>3, <2>1, <1>b DEF RunJob
  <1>4. ASSUME NEW r \in Rows, ExpireJob(r) PROVE Goal
    <2>1. \A x \in Rows : Outcome(x)' = Outcome(x)
      BY <1>4 DEF ExpireJob
    <2> QED BY <1>4, <2>1, <1>b DEF ExpireJob
  <1>5. ASSUME NEW p \in Relays, Claim(p) PROVE Goal
    <2>1. \A x \in ClaimBatch : /\ x \in Rows /\ status[x] \in {"pending", "failed"}
                                /\ status'[x] = "sent" /\ x \in held'[p]
      BY <1>5 DEF Claim, ClaimBatch, Eligible
    <2>2. \A x \in Rows \ ClaimBatch : status'[x] = status[x]
      BY <1>5 DEF Claim
    <2>3. \A x \in Rows \ ClaimBatch, q \in Relays : x \in held'[q] <=> x \in held[q]
      BY <1>5 DEF Claim
    <2>4. jobs' = jobs /\ runs' = runs /\ payload' = payload
      BY <1>5 DEF Claim
    <2>5. ASSUME NEW x \in Rows PROVE Outcome(x)' = Outcome(x)
      <3>1. CASE x \in ClaimBatch
        BY <3>1, <2>1, <2>4
      <3>2. CASE x \notin ClaimBatch
        BY <3>2, <2>2, <2>3, <2>4
      <3> QED BY <3>1, <3>2
    <2> QED BY <2>4, <2>5, <1>b
  <1>6. ASSUME NEW p \in Relays, NEW r \in Rows, DeadLetterUnroutable(p, r) PROVE Goal
    <2>1. Keeps(r)
      BY <1>6 DEF DeadLetterUnroutable, Current, Finish
    <2>2. Outcome(r)' = IF Enqueued(r) THEN Outcome(r) ELSE "dead"
      BY <1>6 DEF DeadLetterUnroutable, Current, Finish
    <2>3. Outcome(r) \in {"enqueued", "owed"} /\ (~Enqueued(r) => Outcome(r) = "owed")
      BY <1>6 DEF DeadLetterUnroutable, Current
    <2>4. Changes(r)
      BY <2>2, <2>3
    <2>5. payload' = payload
      BY <1>6 DEF DeadLetterUnroutable
    <2> QED BY <2>1, <2>4, <2>5, <1>a
  <1>7. ASSUME NEW p \in Relays, NEW r \in Rows, Publish(p, r) PROVE Goal
    <2>1. Keeps(r)
      BY <1>7 DEF Publish, Current, Finish, AddJob
    <2>2. Outcome(r) \in {"enqueued", "owed"}
      BY <1>7 DEF Publish, Current
    <2>3. Outcome(r)' = "enqueued" /\ Routable(payload[r])
      BY <1>7 DEF Publish, Current, Finish, AddJob
    <2> QED BY <1>7, <2>1, <2>2, <2>3, <1>a DEF Publish
  <1>8. ASSUME NEW p \in Relays, NEW r \in Rows, PublishFails(p, r) PROVE Goal
    <2>1. Keeps(r)
      BY <1>8 DEF PublishFails, Current, AddJob
    <2>2. Outcome(r) \in {"enqueued", "owed"}
      BY <1>8 DEF PublishFails, Current
    <2>3. Outcome(r)' \in {Outcome(r), "enqueued"} /\ Routable(payload[r])
      BY <1>8 DEF PublishFails, Current, AddJob
    <2> QED BY <1>8, <2>1, <2>2, <2>3, <1>a DEF PublishFails
  <1>9. ASSUME NEW p \in Relays, NEW r \in Rows, RecordFailure(p, r) PROVE Goal
    <2>1. Keeps(r)
      BY <1>9 DEF RecordFailure, Current, Finish
    <2>2. /\ Outcome(r) = IF Enqueued(r) THEN "enqueued" ELSE "owed"
          /\ Outcome(r)' \in {Outcome(r), IF Enqueued(r) THEN "enqueued" ELSE "dead"}
      BY <1>9 DEF RecordFailure, Current, Finish
    <2> QED BY <1>9, <2>1, <2>2, <1>a DEF RecordFailure
  <1>10. ASSUME NEW p \in Relays, Abandon(p) PROVE Goal
    <2> DEFINE S == {x \in held[p] : Outcome(x) = "owed"}
    <2>1. \A x \in S : Outcome(x)' = "lost"
      BY <1>10 DEF Abandon
    <2>2. \A x \in Rows \ S : Outcome(x)' = Outcome(x)
      BY <1>10 DEF Abandon
    <2>3. {x \in Rows : Routable(payload[x])}' = {x \in Rows : Routable(payload[x])}
      BY <1>10 DEF Abandon, Routable, Decision, ValidPayload, RouteOutboxRow
    <2>4. S \in SUBSET Rows
      OBVIOUS
    <2> HIDE DEF S
    <2> HIDE DEF Outcome
    <2>7. \A x \in S : x \in Rows /\ Outcome(x) = "owed"
      BY DEF S
    <2>5. \A x \in S : [y \in Rows |-> Outcome(y)][x] = "owed"
      BY <2>7
    <2>6. [y \in Rows |-> Outcome(y)]' =
            [y \in Rows |-> IF y \in S THEN "lost" ELSE [z \in Rows |-> Outcome(z)][y]]
      BY <2>1, <2>2
    <2> QED BY <2>3, <2>4, <2>5, <2>6 DEF Goal, Delivery!Next, Delivery!Lose
  <1>11. CASE UNCHANGED vars
    <2>1. \A x \in Rows : Outcome(x)' = Outcome(x)
      BY <1>11 DEF vars
    <2> QED BY <1>11, <2>1, <1>b DEF vars
  <1> QED
    BY <1>1, <1>2, <1>3, <1>4, <1>5, <1>6, <1>7, <1>8, <1>9, <1>10, <1>11
       DEF Next, RelayStep, Goal

\* Two drains, retries, duplicate adds and deaths together implement the
\* outbox's promise: each committed event gets one outcome, for good.
THEOREM Refinement == Spec => ImplementsEventDelivery
  <1>1. Init => Delivery!Init
    BY DEF Init, Delivery!Init, Outcome
  <1>2. IInv /\ IInv' /\ [Next]_vars =>
          [Delivery!Next]_<<{r \in Rows : Routable(payload[r])}, [r \in Rows |-> Outcome(r)]>>
    BY StepImplements
  <1> QED BY Invariance, <1>1, <1>2, PTL DEF Spec, ImplementsEventDelivery, Delivery!Spec
-----------------------------------------------------------------------------
(***************************************************************************)
(* The alert monitor.  Its steps leave the outbox to the relay, but a death *)
(* of the api takes all relays at once, which no step of OutboxRelay does: *)
(* IInv is carried over that step first, and then used for what the        *)
(* monitor's two reads may rely on: a dead letter stays one, and only a    *)
(* claim takes a row out of the unsent ones.                               *)
(***************************************************************************)

\* What a death of the api leaves of the outbox is what any death leaves.
LEMMA DeathKeepsIInv == IInv /\ ApiDies => IInv'
  <1> SUFFICES ASSUME IInv, ApiDies PROVE IInv'
    OBVIOUS
  <1> USE RelayAssumption DEF IInv
  <1>1. /\ \A p \in Relays : held'[p] = {} /\ failing'[p] = {}
        /\ UNCHANGED <<payload, status, attempts, due, jobs, runs>>
        /\ abandoned' = abandoned \cup UNION {held[p] : p \in Relays}
    BY DEF ApiDies, rowVars, brokerVars
  <1>2. TypeOK'
    <2>5. abandoned \subseteq Rows /\ \A p \in Relays : held[p] \subseteq Rows
      BY DEF TypeOK
    <2>1. abandoned' \subseteq Rows
      BY <1>1, <2>5
    <2>2. held' \in [Relays -> SUBSET Rows] /\ failing' \in [Relays -> SUBSET Rows]
      BY DEF ApiDies
    <2>3. seen' \in [Relays -> [Rows -> 0..MaxAttempts]]
      BY DEF ApiDies
    <2>4. crashes' \in 0..MaxCrashes
      BY DEF ApiDies, TypeOK
    <2> QED BY <1>1, <2>1, <2>2, <2>3, <2>4 DEF TypeOK
  <1>3. RowHistory' /\ FailingIsHeld' /\ ClaimIsExclusive' /\ DeadLetterEarned'
    BY <1>1 DEF RowHistory, FailingIsHeld, ClaimIsExclusive, DeadLetterEarned, Enqueued
  <1>4. SentIsEnqueuedOrAbandoned'
    BY <1>1 DEF SentIsEnqueuedOrAbandoned, Enqueued
  <1>5. JobHistory'
    BY <1>1 DEF JobHistory, InRetry
  <1> QED BY <1>2, <1>3, <1>4, <1>5

\* Every other step of the alerts is a step of the outbox, or leaves it alone.
LEMMA AlertStepIsRelayStep == [AlertNext]_allVars => [Next]_vars \/ ApiDies
  BY DEF AlertNext, OutboxStep, Enroll, ConsumeJob, GrowOld, ReadDead, Decide, Next, allVars

\* The outbox's invariant holds under the alerts' specification as well.
THEOREM OutboxUnderAlerts == AlertSpec => []IInv
  <1>1. IInv /\ [Next]_vars => IInv'
    BY StepTypeOK, StepRowHistory, StepFailingIsHeld, StepClaimIsExclusive, StepDeadLetterEarned,
       StepSentIsEnqueuedOrAbandoned, StepJobHistory DEF IInv
  <1>2. IInv /\ [AlertNext]_allVars => IInv'
    BY <1>1, DeathKeepsIInv, AlertStepIsRelayStep
  <1> QED BY InitIInv, <1>2, PTL DEF AlertSpec, AlertInit

\* No step changes what a row is an alert of, and a dead letter stays one.
LEMMA DeadLettersStay == IInv /\ [AlertNext]_allVars => Alerts' = Alerts /\ Dead \subseteq Dead'
  <1> SUFFICES ASSUME IInv, [AlertNext]_allVars PROVE Alerts' = Alerts /\ Dead \subseteq Dead'
    OBVIOUS
  <1>1. payload' = payload
    BY AlertStepIsRelayStep
    DEF Next, RelayStep, InsertRow, BackoffElapses, RunJob, ExpireJob, Claim, DeadLetterUnroutable,
        Publish, PublishFails, RecordFailure, Abandon, ApiDies, rowVars, vars
  <1> DEFINE Stays == \A r \in Rows : status[r] = "dead_letter" => status'[r] = "dead_letter"
  <1>2. ASSUME NEW r \in Rows, InsertRow(r) PROVE Stays
    BY <1>2 DEF InsertRow, IInv, TypeOK
  <1>3. ASSUME NEW p \in Relays, Claim(p) PROVE Stays
    BY <1>3 DEF Claim, ClaimBatch, Eligible
  <1>4. ASSUME NEW p \in Relays, NEW r \in Rows, DeadLetterUnroutable(p, r) PROVE Stays
    BY <1>4 DEF DeadLetterUnroutable, IInv, TypeOK
  <1>5. ASSUME NEW p \in Relays, NEW r \in Rows, RecordFailure(p, r) PROVE Stays
    <2>1. status[r] = "sent" /\ \A x \in Rows \ {r} : status'[x] = status[x]
      BY <1>5 DEF RecordFailure, Current, IInv, TypeOK, ClaimIsExclusive
    <2> QED BY <2>1
  <1>6. Stays
    BY <1>2, <1>3, <1>4, <1>5, AlertStepIsRelayStep
    DEF Next, RelayStep, BackoffElapses, RunJob, ExpireJob, Publish, PublishFails, Abandon, ApiDies, rowVars, vars
  <1> QED BY <1>1, <1>6 DEF Alerts, Dead

\* Only the relay's claim takes a row out of the unsent ones.
LEMMA UnsentStay == IInv /\ [AlertNext]_allVars => Unsent \subseteq Unsent' \/ \E p \in Relays : Claim(p)
  <1> SUFFICES ASSUME IInv, [AlertNext]_allVars, ~ \E p \in Relays : Claim(p)
               PROVE  Unsent \subseteq Unsent'
    OBVIOUS
  <1> DEFINE Stays == \A r \in Rows : status[r] \in {"pending", "failed"} => status'[r] \in {"pending", "failed"}
  <1>1. ASSUME NEW r \in Rows, InsertRow(r) PROVE Stays
    BY <1>1 DEF InsertRow, IInv, TypeOK
  <1>2. ASSUME NEW p \in Relays, NEW r \in Rows, DeadLetterUnroutable(p, r) PROVE Stays
    <2>1. status[r] = "sent" /\ \A x \in Rows \ {r} : status'[x] = status[x]
      BY <1>2 DEF DeadLetterUnroutable, Current, IInv, TypeOK, ClaimIsExclusive
    <2> QED BY <2>1
  <1>3. ASSUME NEW p \in Relays, NEW r \in Rows, RecordFailure(p, r) PROVE Stays
    <2>1. status[r] = "sent" /\ \A x \in Rows \ {r} : status'[x] = status[x]
      BY <1>3 DEF RecordFailure, Current, IInv, TypeOK, ClaimIsExclusive
    <2> QED BY <2>1
  <1>4. ASSUME status' = status PROVE Stays
    BY <1>4
  <1>5. Stays
    <2> HIDE DEF Stays
    <2> QED
      BY <1>1, <1>2, <1>3, <1>4, AlertStepIsRelayStep
      DEF Next, RelayStep, BackoffElapses, RunJob, ExpireJob, Publish, PublishFails, Abandon, ApiDies, rowVars, vars
  <1>6. Alerts' = Alerts
    BY DeadLettersStay
  <1>7. Alerts \subseteq Rows
    BY DEF Alerts
  <1> QED BY <1>5, <1>6, <1>7 DEF Unsent

\* What the first read of a check found dead still is when the second is made.
SeenStaysDead == look # <<>> => look[1] \subseteq Dead

\* After a page, until the stall ends or is hidden, the episode flag is up, a miss
\* is in sight, and no check under way can come to a clean verdict.
BellIsTrue ==
  /\ bell # "again"
  /\ bell \in {"rung", "repeated"} => stalled /\ Visible /\ (look # <<>> => look[1] # {} \/ Stuck)

AlertInv == IInv /\ AlertTypeOK /\ SeenStaysDead /\ BellIsTrue

LEMMA InitAlertInv == AlertInit => AlertInv
  <1> SUFFICES ASSUME AlertInit PROVE AlertInv
    OBVIOUS
  <1>1. IInv
    BY InitIInv DEF AlertInit
  <1>2. AlertTypeOK
    BY <1>1 DEF AlertInit, AlertTypeOK, IInv, Bells
  <1> QED BY <1>1, <1>2 DEF AlertInit, AlertInv, SeenStaysDead, BellIsTrue

\* The variables of the alerts keep their types.
LEMMA StepAlertTypeOK == AlertInv /\ IInv' /\ [AlertNext]_allVars => AlertTypeOK'
  <1> SUFFICES ASSUME AlertInv, IInv', [AlertNext]_allVars PROVE AlertTypeOK'
    OBVIOUS
  <1> USE DEF AlertTypeOK
  <1>a. TypeOK' /\ AlertTypeOK
    BY DEF AlertInv, IInv
  <1>1. CASE OutboxStep
    BY <1>a, <1>1 DEF OutboxStep, Follow, Bells
  <1>2. ASSUME NEW d \in Drivers, NEW f \in Platforms, Enroll(d, f) PROVE AlertTypeOK'
    BY <1>a, <1>2 DEF Enroll
  <1>3. ASSUME NEW r \in Rows, ConsumeJob(r) PROVE AlertTypeOK'
    BY <1>a, <1>3 DEF ConsumeJob, Deliver
  <1>4. CASE GrowOld
    BY <1>a, <1>4 DEF GrowOld, Follow, Bells
  <1>5. CASE ReadDead
    <2>1. Dead \subseteq Rows
      BY DEF Dead, Alerts
    <2> QED BY <1>a, <1>5, <2>1 DEF ReadDead
  <1>6. CASE Decide
    <2>1. Misses(look[1]) \subseteq Rows
      BY <1>6 DEF Decide, Misses, Unsent, Alerts, AlertInv
    <2>2. bell' \in Bells
      BY <1>a, <1>6 DEF Decide, PageOnce, Rung, Bells
    <2> QED BY <1>a, <1>6, <2>1, <2>2 DEF Decide
  <1>7. CASE ApiDies
    BY <1>a, <1>7 DEF ApiDies, Bells
  <1>8. CASE UNCHANGED allVars
    BY <1>a, <1>8 DEF allVars, alertVars
  <1> QED BY <1>1, <1>2, <1>3, <1>4, <1>5, <1>6, <1>7, <1>8 DEF AlertNext

\* A check under way is about letters that are still dead.
LEMMA StepSeenStaysDead == AlertInv /\ [AlertNext]_allVars => SeenStaysDead'
  <1> SUFFICES ASSUME AlertInv, [AlertNext]_allVars PROVE SeenStaysDead'
    OBVIOUS
  <1>1. Dead \subseteq Dead'
    BY DeadLettersStay DEF AlertInv
  <1>2. look' = look \/ look' = <<>> \/ look' = <<Dead>>
    BY DEF AlertNext, OutboxStep, Enroll, ConsumeJob, GrowOld, ReadDead, Decide, ApiDies,
       allVars, alertVars
  <1> QED BY <1>1, <1>2 DEF AlertInv, SeenStaysDead

\* The flag goes down only on a verdict without a miss, and by then the stall is over
\* or hidden: what was in sight was dead, and is, or was unsent and was claimed.
LEMMA StepBellIsTrue == AlertInv /\ IInv' /\ AlertTypeOK' /\ [AlertNext]_allVars => BellIsTrue'
  <1> SUFFICES ASSUME AlertInv, IInv', AlertTypeOK', [AlertNext]_allVars PROVE BellIsTrue'
    OBVIOUS
  <1>a. AlertTypeOK /\ SeenStaysDead /\ BellIsTrue /\ IInv
    BY DEF AlertInv
  <1>b. Alerts' = Alerts /\ Dead \subseteq Dead'
    BY <1>a, DeadLettersStay
  <1>c. aged \in Nat /\ aged' \in Nat /\ aged <= aged'
    <2>1. aged' = aged \/ aged' = aged + 1
      BY DEF AlertNext, OutboxStep, Enroll, ConsumeJob, GrowOld, ReadDead, Decide, ApiDies,
         allVars, alertVars
    <2>2. aged \in Nat
      BY <1>a DEF AlertTypeOK
    <2> QED BY <2>1, <2>2
  <1>d. ASSUME Stuck, ~ \E p \in Relays : Claim(p) PROVE Stuck'
    <2>1. PICK r \in Unsent : r <= aged
      BY <1>d DEF Stuck
    <2>2. r \in Unsent' /\ r \in Nat
      BY <1>a, <1>d, <2>1, UnsentStay, RelayAssumption DEF Unsent, Alerts
    <2>3. r <= aged'
      BY <1>c, <2>1, <2>2
    <2> QED BY <2>2, <2>3 DEF Stuck
  <1>1. CASE OutboxStep
    BY <1>1, <1>a, <1>d DEF OutboxStep, Follow, BellIsTrue, AlertTypeOK, Bells
  <1>2. CASE GrowOld
    <2>1. ~ \E p \in Relays : Claim(p)
      BY <1>2, <1>a DEF GrowOld, Claim, vars, relayVars, ClaimBatch, IInv, TypeOK
    <2> QED BY <1>2, <1>a, <1>d, <2>1 DEF GrowOld, Follow, BellIsTrue, AlertTypeOK, Bells
  <1>e. ASSUME UNCHANGED <<status, aged>> PROVE (Dead' = Dead /\ Stuck' = Stuck) /\ (Visible' = Visible)
    BY <1>b, <1>e DEF Dead, Stuck, Unsent, Visible
  <1>3. ASSUME NEW d \in Drivers, NEW f \in Platforms, Enroll(d, f) PROVE BellIsTrue'
    BY <1>3, <1>a, <1>e DEF Enroll, BellIsTrue, vars, rowVars
  <1>4. ASSUME NEW r \in Rows, ConsumeJob(r) PROVE BellIsTrue'
    BY <1>4, <1>a, <1>e DEF ConsumeJob, RunJob, BellIsTrue, rowVars
  <1>5. CASE ReadDead
    <2>1. look' = <<Dead>> /\ UNCHANGED <<status, aged, bell, stalled>>
      BY <1>5 DEF ReadDead, vars, rowVars
    <2> QED BY <2>1, <1>a, <1>e DEF BellIsTrue, Visible
  <1>6. CASE Decide
    <2>1. UNCHANGED <<status, aged>> /\ look' = <<>>
      BY <1>6 DEF Decide, vars, rowVars
    <2>2. CASE Misses(look[1]) = {} /\ stalled' = FALSE /\ bell' = bell
      <3>1. look[1] = {} /\ ~Stuck
        BY <2>2 DEF Misses, Stuck
      <3> QED BY <1>6, <1>a, <2>2, <3>1 DEF BellIsTrue, Decide
    <2>3. CASE Misses(look[1]) # {} /\ stalled' = TRUE /\ PageOnce
      <3>1. Visible
        BY <1>6, <1>a, <2>3 DEF Misses, Visible, SeenStaysDead, Decide
      <3>2. bell' # "again"
        BY <1>a, <2>3 DEF PageOnce, Rung, BellIsTrue, AlertTypeOK, Bells
      <3> QED BY <1>e, <2>1, <2>3, <3>1, <3>2 DEF BellIsTrue
    <2> QED BY <1>6, <2>2, <2>3 DEF Decide
  <1>7. CASE ApiDies
    BY <1>7 DEF ApiDies, BellIsTrue
  <1>8. CASE UNCHANGED allVars
    BY <1>8, <1>a, <1>e DEF allVars, alertVars, vars, rowVars, BellIsTrue
  <1> QED BY <1>1, <1>2, <1>3, <1>4, <1>5, <1>6, <1>7, <1>8 DEF AlertNext

\* The invariant of the alerts is inductive.
THEOREM AlertInvariance == AlertSpec => []AlertInv
  <1>1. AlertInv /\ IInv' /\ [AlertNext]_allVars => AlertInv'
    BY StepAlertTypeOK, StepSeenStaysDead, StepBellIsTrue DEF AlertInv
  <1> QED BY InitAlertInv, OutboxUnderAlerts, <1>1, PTL DEF AlertSpec

\* Whatever drains, retries and deaths move the rows between checkOnce's two reads, it
\* pages a second time only after the stall has ended, the process has restarted, the
\* relay has held all of the stall, or a claim has come between the two reads.  The
\* last two are pages within one stall (OnePagePerStall); there is no third way to one.
THEOREM SecondPagesHaveACause == AlertSpec => []SecondPageHasCause
  <1>1. AlertInv => SecondPageHasCause
    BY DEF AlertInv, BellIsTrue, SecondPageHasCause
  <1> QED BY AlertInvariance, <1>1, PTL

-----------------------------------------------------------------------------
(***************************************************************************)
(* The break-glass tripwire.  A login that was paged is behind the mark, or *)
(* behind the mark that a poll under way is about to set.                  *)
(***************************************************************************)

\* A nonempty bounded set of naturals has a greatest element.
LEMMA GreatestOf ==
  ASSUME NEW M \in Nat, NEW S \in SUBSET (0 .. M), S # {}
  PROVE  \E t \in S : \A u \in S : u <= t
  <1> DEFINE Gaps == {M - t : t \in S}
  <1>0. \A t \in S : t \in Nat /\ M - t \in Nat
    OBVIOUS
  <1>1. Gaps \subseteq Nat /\ Gaps # {}
    BY <1>0
  <1> HIDE DEF Gaps
  <1>2. PICK g \in Gaps : \A h \in Gaps : ~ (<<h, g>> \in OpToRel(<, Nat))
    BY <1>1, NatLessThanWellFounded, WFMin
  <1>3. ASSUME NEW h \in Gaps PROVE g <= h
    <2>1. g \in Nat /\ h \in Nat
      BY <1>1
    <2>3. ~ (h < g)
      BY <1>2, <2>1 DEF OpToRel
    <2> QED BY <2>1, <2>3
  <1>4. PICK t \in S : g = M - t
    BY DEF Gaps
  <1>5. \A u \in S : M - t <= M - u
    BY <1>3, <1>4 DEF Gaps
  <1> QED BY <1>0, <1>5

StoredHasTime == WatchTypeOK /\ \A l \in stored : time[l] <= MaxTime

\* The poll has paged what it fetched and has not moved the mark yet.
Ahead(a) == poll[a].at \in {"paged", "checked"}

PagedIsTracked ==
  failures = 0 /\ ~raced => \A l \in paged :
    time[l] <= cursor \/ \E a \in Pollers : Ahead(a) /\ time[l] <= poll[a].mark

WatchInv == StoredHasTime /\ paged \subseteq stored /\ PagedIsTracked

\* The newest time of an answer is one of its times, and none of them is later.
LEMMA NewestOfAnswer ==
  ASSUME WatchInv, NEW events \in SUBSET stored, events # {}
  PROVE  Newest(events) \in 0 .. MaxTime /\ \A l \in events : time[l] <= Newest(events)
  <1> DEFINE S == {time[l] : l \in events}
  <1>1. S \in SUBSET (0 .. MaxTime) /\ S # {} /\ MaxTime \in Nat
    BY LoginAssumption DEF WatchInv, StoredHasTime, WatchTypeOK, Unborn
  <1>2. \E t \in S : \A l \in events : time[l] <= t
    <2>1. \A l \in events : time[l] \in S
      OBVIOUS
    <2> HIDE DEF S
    <2> QED BY <1>1, <2>1, GreatestOf
  <1>3. Newest(events) \in S /\ \A l \in events : time[l] <= Newest(events)
    BY <1>2 DEF Newest
  <1> QED BY <1>1, <1>3

LEMMA WatchInitInv == WatchInit => WatchInv
  <1> SUFFICES ASSUME WatchInit PROVE WatchInv
    OBVIOUS
  <1>1. WatchTypeOK
    <2>1. MaxTime \in Nat /\ 0 \in 0 .. MaxTime /\ 0 \in 0 .. MaxFailures /\ MaxTime + 1 \in 0 .. MaxTime + 1
      BY LoginAssumption
    <2>2. Idle \in [at : Steps, mark : 0 .. MaxTime]
      BY <2>1 DEF Idle, Steps
    <2> QED BY <2>1, <2>2 DEF WatchInit, WatchTypeOK, Unborn
  <1> QED BY <1>1 DEF WatchInit, WatchInv, StoredHasTime, PagedIsTracked

\* Only an advance moves the mark, and unless two polls crossed it moves ahead.
LEMMA WatchStepInv ==
  ASSUME WatchInv, [WatchNext]_watchVars
  PROVE  WatchInv'
  <1> USE LoginAssumption
  <1>a. /\ WatchTypeOK /\ \A l \in stored : time[l] <= MaxTime
        /\ paged \subseteq stored /\ PagedIsTracked
    BY DEF WatchInv, StoredHasTime
  <1>1. CASE Tick
    BY <1>1, <1>a DEF Tick, WatchTypeOK, WatchInv, StoredHasTime, PagedIsTracked,
       Ahead
  <1>2. ASSUME NEW l \in Logins, Login(l) PROVE WatchInv'
    <2>1. l \notin stored
      BY <1>2, <1>a DEF Login, Unborn, WatchTypeOK
    <2>2. \A x \in stored : time'[x] = time[x]
      BY <1>2, <1>a, <2>1 DEF Login, WatchTypeOK
    <2>3. WatchTypeOK'
      BY <1>2, <1>a DEF Login, Unborn, WatchTypeOK
    <2> QED BY <1>2, <1>a, <2>2, <2>3 DEF Login, WatchInv, StoredHasTime, PagedIsTracked,
       Ahead
  <1>3. ASSUME NEW l \in Logins, Store(l) PROVE WatchInv'
    <2>1. time[l] <= MaxTime
      BY <1>3, <1>a DEF Store, Unborn, WatchTypeOK
    <2>2. WatchTypeOK'
      BY <1>3, <1>a DEF Store, WatchTypeOK
    <2> QED BY <1>3, <1>a, <2>1, <2>2 DEF Store, WatchInv, StoredHasTime, PagedIsTracked,
       Ahead
  <1>4. ASSUME NEW a \in Pollers, ReadCursor(a) PROVE WatchInv'
    <2>1. /\ ~Ahead(a) /\ UNCHANGED <<time, stored, cursor, paged, failures, raced>>
          /\ \A b \in Pollers \ {a} : poll'[b] = poll[b]
      BY <1>4, <1>a DEF ReadCursor, At, WatchTypeOK, Ahead
    <2>2. WatchTypeOK'
      BY <1>4, <1>a DEF ReadCursor, At, WatchTypeOK, Steps
    <2> QED BY <1>a, <2>1, <2>2 DEF WatchInv, StoredHasTime, PagedIsTracked, Ahead
  <1>5. ASSUME NEW a \in Pollers, Scan(a) PROVE WatchInv'
    <2> DEFINE events == Since(poll[a].mark)
               newest == Newest(events)
    <2>1. events \in SUBSET stored
      BY DEF Since
    <2>2. /\ ~Ahead(a) /\ UNCHANGED <<clock, time, stored, cursor, late, failures, raced>>
          /\ \A b \in Pollers \ {a} : poll'[b] = poll[b]
      BY <1>5, <1>a DEF Scan, At, WatchTypeOK, Ahead
    <2> HIDE DEF events
    <2>3. CASE events = {} /\ At(a, "idle", 0) /\ paged' = paged
      <3>1. WatchTypeOK'
        BY <1>a, <2>2, <2>3 DEF At, WatchTypeOK, Steps
      <3> QED BY <1>a, <2>2, <2>3, <3>1 DEF WatchInv, StoredHasTime, PagedIsTracked, Ahead
    <2>4. CASE events # {} /\ At(a, "paged", newest) /\ paged' = paged \cup (events \cap BreakGlass)
      <3>1. newest \in 0 .. MaxTime /\ \A l \in events : time[l] <= newest
        BY <2>1, <2>4, NewestOfAnswer
      <3>2. WatchTypeOK'
        BY <1>a, <2>1, <2>2, <2>4, <3>1 DEF At, WatchTypeOK, Steps
      <3>3. Ahead(a)' /\ poll'[a].mark = newest
        BY <1>a, <2>4 DEF At, WatchTypeOK, Ahead
      <3>4. PagedIsTracked'
        <4> SUFFICES ASSUME failures' = 0, ~raced', NEW l \in paged'
                     PROVE  time'[l] <= cursor' \/ \E b \in Pollers : Ahead(b)' /\ time'[l] <= poll'[b].mark
          BY DEF PagedIsTracked
        <4>1. CASE l \in events
          BY <2>2, <3>1, <3>3, <4>1
        <4>2. CASE l \in paged
          BY <1>a, <2>2, <4>2 DEF PagedIsTracked, Ahead
        <4> QED BY <2>4, <4>1, <4>2
      <3> QED BY <1>a, <2>1, <2>2, <2>4, <3>2, <3>4 DEF WatchInv, StoredHasTime
    <2> QED BY <1>5, <2>3, <2>4 DEF Scan, events
  <1>6. ASSUME NEW a \in Pollers, Check(a) PROVE WatchInv'
    <2>1. UNCHANGED <<clock, time, stored, cursor, paged, late, failures, raced>>
      BY <1>6 DEF Check
    <2>2. WatchTypeOK'
      BY <1>6, <1>a DEF Check, At, WatchTypeOK, Steps
    <2>3. /\ \A b \in Pollers \ {a} : poll'[b] = poll[b]
          /\ poll[a].mark <= cursor \/ (Ahead(a)' /\ poll'[a].mark = poll[a].mark)
      BY <1>6, <1>a DEF Check, At, WatchTypeOK, Ahead
    <2>4. \A l \in paged : time[l] \in Nat /\ poll[a].mark \in Nat /\ cursor \in Nat
      BY <1>a DEF WatchTypeOK, Unborn
    <2> QED BY <1>a, <2>1, <2>2, <2>3, <2>4 DEF WatchInv, StoredHasTime, PagedIsTracked, Ahead
  <1>7. ASSUME NEW a \in Pollers, Advance(a) PROVE WatchInv'
    <2>1. UNCHANGED <<clock, time, stored, paged, late, failures>> /\ cursor' = poll[a].mark
      BY <1>7 DEF Advance
    <2>2. WatchTypeOK'
      BY <1>7, <1>a DEF Advance, At, WatchTypeOK, Steps
    <2>3. \A b \in Pollers \ {a} : poll'[b] = poll[b]
      BY <1>7, <1>a DEF Advance, At, WatchTypeOK
    <2>4. ~raced' => ~raced /\ cursor <= cursor'
      <3>1. raced' = (raced \/ poll[a].mark < cursor)
        BY <1>7 DEF Advance
      <3>2. poll[a].mark \in Nat /\ cursor \in Nat
        BY <1>a DEF WatchTypeOK
      <3>3. ~raced' => ~raced /\ ~(poll[a].mark < cursor)
        BY <3>1, Zenon
      <3> QED BY <2>1, <3>2, <3>3
    <2>5. \A l \in paged : time[l] \in Nat /\ cursor' \in Nat /\ cursor \in Nat
      BY <1>a, <2>2 DEF WatchTypeOK, Unborn
    <2> QED BY <1>a, <2>1, <2>2, <2>3, <2>4, <2>5 DEF WatchInv, StoredHasTime, PagedIsTracked,
       Ahead
  <1>8. ASSUME NEW a \in Pollers, PollFails(a) PROVE WatchInv'
    <2>1. UNCHANGED <<clock, time, stored, cursor, paged, late, raced>> /\ failures' # 0
      BY <1>8, <1>a DEF PollFails, WatchTypeOK
    <2>2. WatchTypeOK'
      BY <1>8, <1>a DEF PollFails, At, WatchTypeOK, Steps
    <2> QED BY <1>a, <2>1, <2>2 DEF WatchInv, StoredHasTime, PagedIsTracked
  <1>9. CASE UNCHANGED watchVars
    BY <1>9, <1>a DEF watchVars, WatchTypeOK, WatchInv, StoredHasTime,
       PagedIsTracked, Ahead
  <1> QED BY <1>1, <1>2, <1>3, <1>4, <1>5, <1>6, <1>7, <1>8, <1>9 DEF WatchNext, Poll

\* Whatever is stored late and however polls overlap, a login that was paged is
\* behind the mark or at it between polls, unless a poll failed under way or two
\* polls moved the mark back (pollOnce, advanceCursor).
THEOREM PagedLoginsAreBehind == WatchSpec => []PagedIsBehindCursor
  <1>1. WatchInit => WatchInv
    BY WatchInitInv
  <1>2. WatchInv /\ [WatchNext]_watchVars => WatchInv'
    BY WatchStepInv
  <1>3. WatchInv => PagedIsBehindCursor
    BY DEF WatchInv, PagedIsTracked, Ahead, PagedIsBehindCursor
  <1> QED BY <1>1, <1>2, <1>3, PTL DEF WatchSpec
=============================================================================
