----------------------------- MODULE OutboxRelay -----------------------------
(***************************************************************************)
(* The transactional outbox between Postgres and BullMQ                    *)
(* (apps/api/src/outbox/outbox-relay.service.ts).                          *)
(*                                                                         *)
(* A row is named by its created_at rank, so the relay's ORDER BY is the   *)
(* order of the naturals; rows become visible in any order, because        *)
(* created_at is the start of the inserting transaction and not its        *)
(* commit.  drainOnce is split where the code awaits: the claim            *)
(* transaction, then for each claimed row the q.add and, if it failed, the *)
(* UPDATE in the catch block.  Between any two of these the process may    *)
(* die, or the await may throw out of the loop.                            *)
(***************************************************************************)
EXTENDS OutboxRouting, FiniteSets

CONSTANTS
  Rows,          \* outbox rows, by created_at rank
  Relays,        \* overlapping drainOnce calls (a deploy overlap has two)
  PollBatchSize,        \* POLL_BATCH_SIZE
  MaxAttempts,   \* MAX_ATTEMPTS_BEFORE_DEAD_LETTER
  Payloads,      \* payloads the business transactions insert
  MaxCrashes,    \* bound on process deaths and abandoned drains
  JobsExpire     \* whether a completed job may age out while its row is retried

ASSUME RelayAssumption ==
  /\ Rows \subseteq Nat
  /\ PollBatchSize \in Nat \ {0}
  /\ MaxAttempts \in Nat \ {0}
  /\ MaxCrashes \in Nat
  /\ JobsExpire \in BOOLEAN

VARIABLES
  payload,   \* payload[r], set when r is inserted
  status,    \* status[r]: "absent" before its transaction commits
  attempts,  \* attempts[r], the column
  due,       \* due[r]: next_attempt_at <= NOW()
  held,      \* held[p]: rows relay p has claimed and not finished
  seen,      \* seen[p][r]: attempts as p's claiming SELECT returned it
  failing,   \* failing[p]: rows of p whose q.add threw, catch not run yet
  jobs,      \* jobs[r]: the BullMQ job with jobId r
  runs,      \* runs[r]: times a worker ran the job of r
  crashes,
  abandoned  \* history: rows whose relay died before it finished them

rowVars == <<payload, status, attempts, due>>
relayVars == <<held, seen, failing>>
brokerVars == <<jobs, runs>>
crashVars == <<crashes, abandoned>>
vars == <<rowVars, relayVars, brokerVars, crashVars>>

RowStatus == {"absent", "pending", "failed", "sent", "dead_letter"}
JobState == {"none", "waiting", "completed", "failed"}

TypeOK ==
  /\ payload \in [Rows -> Payloads]
  /\ status \in [Rows -> RowStatus]
  /\ attempts \in [Rows -> 0..MaxAttempts]
  /\ due \in [Rows -> BOOLEAN]
  /\ held \in [Relays -> SUBSET Rows]
  /\ seen \in [Relays -> [Rows -> 0..MaxAttempts]]
  /\ failing \in [Relays -> SUBSET Rows]
  /\ jobs \in [Rows -> JobState]
  /\ runs \in [Rows -> Nat]
  /\ crashes \in 0..MaxCrashes
  /\ abandoned \subseteq Rows

Init ==
  /\ payload \in [Rows -> Payloads]
  /\ status = [r \in Rows |-> "absent"]
  /\ attempts = [r \in Rows |-> 0]
  /\ due = [r \in Rows |-> FALSE]
  /\ held = [p \in Relays |-> {}]
  /\ seen = [p \in Relays |-> [r \in Rows |-> 0]]
  /\ failing = [p \in Relays |-> {}]
  /\ jobs = [r \in Rows |-> "none"]
  /\ runs = [r \in Rows |-> 0]
  /\ crashes = 0
  /\ abandoned = {}

-----------------------------------------------------------------------------
\* A business transaction that inserted row r commits.
InsertRow(r) ==
  /\ status[r] = "absent"
  /\ status' = [status EXCEPT ![r] = "pending"]
  /\ UNCHANGED <<payload, attempts, due, relayVars, brokerVars, crashVars>>

\* next_attempt_at of a failed row passes.
BackoffElapses(r) ==
  /\ status[r] = "failed" /\ ~due[r]
  /\ due' = [due EXCEPT ![r] = TRUE]
  /\ UNCHANGED <<payload, status, attempts, relayVars, brokerVars, crashVars>>

\* Mutants of Eligible: failed rows never retried; dead-lettered rows polled again.
EligibleIfPending(r) == status[r] = "pending"
EligibleIfDead(r) == status[r] \in {"pending", "dead_letter"}

\* The WHERE clause of the claim.
Eligible(r) == status[r] = "pending" \/ (status[r] = "failed" /\ due[r])

\* The rows a claim takes: the oldest eligible ones, at most PollBatchSize of them.
ClaimBatch ==
  {r \in Rows : /\ Eligible(r)
                /\ Cardinality({q \in Rows : Eligible(q) /\ q < r}) < PollBatchSize}

\* The claim transaction: SELECT ... FOR UPDATE SKIP LOCKED, flip to 'sent'.
Claim(p) ==
  /\ held[p] = {} /\ ClaimBatch # {}
  /\ held' = [held EXCEPT ![p] = ClaimBatch]
  /\ seen' = [seen EXCEPT ![p] = [r \in Rows |-> IF r \in ClaimBatch THEN attempts[r] ELSE 0]]
  /\ status' = [r \in Rows |-> IF r \in ClaimBatch THEN "sent" ELSE status[r]]
  /\ attempts' = [r \in Rows |-> IF r \in ClaimBatch THEN attempts[r] + 1 ELSE attempts[r]]
  /\ UNCHANGED <<payload, due, failing, brokerVars, crashVars>>

\* r is the row relay p's loop has reached.
Current(p, r) == r \in held[p] /\ \A q \in held[p] : r <= q

\* The loop of p is done with r.
Finish(p, r) ==
  /\ held' = [held EXCEPT ![p] = @ \ {r}]
  /\ seen' = [seen EXCEPT ![p][r] = 0]
  /\ failing' = [failing EXCEPT ![p] = @ \ {r}]

NextAttempts(p, r) == seen[p][r] + 1
GivesUp(n) == n >= MaxAttempts

\* Invalid payload or unroutable: dead-letter without publishing.
DeadLetterUnroutable(p, r) ==
  /\ Current(p, r) /\ r \notin failing[p]
  /\ ~Routable(payload[r])
  /\ status' = [status EXCEPT ![r] = "dead_letter"]
  /\ attempts' = [attempts EXCEPT ![r] = NextAttempts(p, r)]
  /\ Finish(p, r)
  /\ UNCHANGED <<payload, due, brokerVars, crashVars>>

\* Mutant of AddJob: no jobId, so every add is a new job.
AddJobAnonymously(r) == jobs' = [jobs EXCEPT ![r] = "waiting"]

\* The broker side of q.add: BullMQ ignores a jobId it still retains.
AddJob(r) == jobs' = IF jobs[r] = "none" THEN [jobs EXCEPT ![r] = "waiting"] ELSE jobs

\* q.add resolves; the row stays 'sent'.
Publish(p, r) ==
  /\ Current(p, r) /\ r \notin failing[p]
  /\ Routable(payload[r])
  /\ AddJob(r)
  /\ Finish(p, r)
  /\ UNCHANGED <<rowVars, runs, crashVars>>

\* q.add throws, with or without the job having reached Redis.
PublishFails(p, r) ==
  /\ Current(p, r) /\ r \notin failing[p]
  /\ Routable(payload[r])
  /\ AddJob(r) \/ UNCHANGED jobs
  /\ failing' = [failing EXCEPT ![p] = @ \cup {r}]
  /\ UNCHANGED <<rowVars, held, seen, runs, crashVars>>

\* The catch block: reschedule with backoff, or give up at the last attempt.
RecordFailure(p, r) ==
  /\ Current(p, r) /\ r \in failing[p]
  /\ attempts' = [attempts EXCEPT ![r] = NextAttempts(p, r)]
  /\ \/ /\ GivesUp(NextAttempts(p, r))
        /\ status' = [status EXCEPT ![r] = "dead_letter"]
        /\ UNCHANGED due
     \/ /\ ~GivesUp(NextAttempts(p, r))
        /\ status' = [status EXCEPT ![r] = "failed"]
        /\ due' = [due EXCEPT ![r] = FALSE]
  /\ Finish(p, r)
  /\ UNCHANGED <<payload, brokerVars, crashVars>>

\* The process dies, or a status UPDATE throws out of the loop: what p still
\* holds is forgotten, and its rows keep the status the claim gave them.
Abandon(p) ==
  /\ held[p] # {} /\ crashes < MaxCrashes
  /\ held' = [held EXCEPT ![p] = {}]
  /\ seen' = [seen EXCEPT ![p] = [r \in Rows |-> 0]]
  /\ failing' = [failing EXCEPT ![p] = {}]
  /\ crashes' = crashes + 1
  /\ abandoned' = abandoned \cup held[p]
  /\ UNCHANGED <<rowVars, brokerVars>>

\* A worker runs the job.  q.add sets no attempts, so BullMQ runs it once: a job
\* that throws stays failed (removeOnFail: false).  The one thing that runs a job
\* again, the check for stalled jobs, is the subject of WeighSlips.
RunJob(r) ==
  /\ jobs[r] = "waiting"
  /\ \E end \in {"completed", "failed"} : jobs' = [jobs EXCEPT ![r] = end]
  /\ runs' = [runs EXCEPT ![r] = @ + 1]
  /\ UNCHANGED <<rowVars, relayVars, crashVars>>

\* removeOnComplete: a completed job is forgotten after an hour.  The retries
\* of a row span 30 seconds, so a row is retried later only after an outage.
InRetry(r) == status[r] = "failed" \/ \E p \in Relays : r \in held[p]

ExpireJob(r) ==
  /\ jobs[r] = "completed"
  /\ JobsExpire \/ ~InRetry(r)
  /\ jobs' = [jobs EXCEPT ![r] = "none"]
  /\ UNCHANGED <<rowVars, relayVars, runs, crashVars>>

RelayStep(p) ==
  \/ Claim(p)
  \/ \E r \in Rows : \/ DeadLetterUnroutable(p, r)
                     \/ Publish(p, r)
                     \/ PublishFails(p, r)
                     \/ RecordFailure(p, r)

Next ==
  \/ \E r \in Rows : InsertRow(r) \/ BackoffElapses(r) \/ RunJob(r) \/ ExpireJob(r)
  \/ \E p \in Relays : RelayStep(p) \/ Abandon(p)

Spec == Init /\ [][Next]_vars

\* The scheduler re-arms the relay after every run and the worker keeps
\* consuming; time passes.  Nothing makes a transaction commit or q.add work.
Fairness ==
  /\ \A p \in Relays : WF_vars(RelayStep(p))
  /\ \A r \in Rows : WF_vars(BackoffElapses(r)) /\ WF_vars(RunJob(r))

FairSpec == Spec /\ Fairness

-----------------------------------------------------------------------------
\* The job of r reached Redis at some time.
Enqueued(r) == jobs[r] # "none" \/ runs[r] > 0

\* No row is in the hands of two relays, and what a relay remembers of a row
\* it holds is not stale: nobody wrote the row since the claim.
ClaimIsExclusive ==
  \A p \in Relays : \A r \in held[p] :
    /\ \A q \in Relays \ {p} : r \notin held[q]
    /\ status[r] = "sent" /\ attempts[r] = seen[p][r] + 1

\* A row that can be routed is dead-lettered only once every attempt failed.
DeadLetterEarned ==
  \A r \in Rows : status[r] = "dead_letter" /\ Routable(payload[r]) => attempts[r] = MaxAttempts

\* 'sent' is written before the publish; it is a lie only about rows whose
\* relay died: every other sent row is still held or its job was enqueued.
SentIsEnqueuedOrAbandoned ==
  \A r \in Rows : status[r] = "sent" =>
    \/ Enqueued(r)
    \/ \E p \in Relays : r \in held[p]
    \/ r \in abandoned

\* A row's final status is earned: dead_letter by the failures, sent by the job.
StatusIsEarned == DeadLetterEarned /\ SentIsEnqueuedOrAbandoned

\* The jobId makes the retries of a row whose add was reported failed but
\* reached Redis harmless: its job runs at most once.
RunsAtMostOnce == \A r \in Rows : runs[r] <= 1

\* A final status is earned, and behind it the job has run at most once, whatever two drains,
\* a retry of an add that had reached Redis, or a death come between.
DeliveryIsEarned == StatusIsEarned /\ RunsAtMostOnce

\* Every committed row is enqueued, dead-lettered, or dropped by a death.
EventuallySettled ==
  \A r \in Rows : status[r] = "pending" ~>
    (Enqueued(r) \/ status[r] = "dead_letter" \/ r \in abandoned)

\* What the relay makes of each row, in the terms of EventDelivery.
Outcome(r) ==
  CASE status[r] = "absent" -> "none"
    [] status[r] # "absent" /\ Enqueued(r) -> "enqueued"
    [] status[r] = "dead_letter" /\ ~Enqueued(r) -> "dead"
    [] status[r] = "sent" /\ ~Enqueued(r) /\ (\A p \in Relays : r \notin held[p]) -> "lost"
    [] OTHER -> "owed"

Delivery == INSTANCE EventDelivery WITH
  Events <- Rows,
  deliverable <- {r \in Rows : Routable(payload[r])},
  outcome <- [r \in Rows |-> Outcome(r)]

\* Claims, retries, duplicate adds and deaths never give a row two outcomes:
\* a dead-lettered or lost row is never enqueued, an enqueued one never lost.
ImplementsEventDelivery == Delivery!Spec
=============================================================================
