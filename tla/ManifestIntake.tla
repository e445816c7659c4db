--------------------------- MODULE ManifestIntake ---------------------------
(***************************************************************************)
(* The intake of weigh-slip photos: the driver app negotiates an upload,   *)
(* puts the object and commits; the worker inspects the object and calls   *)
(* back with a verdict; the intake reconciler re-emits the request of      *)
(* manifests that stay in verifying (apps/api/src/manifest and             *)
(* workers/main-worker/src/intake).                                        *)
(*                                                                         *)
(* A retry of the app negotiates a new upload session for the same         *)
(* manifest, under the same object key and with the same file.  The outbox *)
(* and the queue are a count of jobs per session, any of which may be      *)
(* lost: a queue job has one attempt.                                      *)
(***************************************************************************)
EXTENDS Integers, FiniteSets

CONSTANTS
  Sessions,     \* upload sessions
  Manifests,
  ManifestOf,   \* the manifest of each session
  MaxAttempts,  \* INTAKE_RECONCILE_MAX_ATTEMPTS
  MaxLosses,    \* bound on jobs and callbacks that are lost
  MaxManual,    \* bound on runs of the manual redrive
  MaxRestarts   \* bound on restarts of the api

ASSUME IntakeAssumption ==
  /\ ManifestOf \in [Sessions -> Manifests]
  /\ MaxAttempts \in Nat \ {0}
  /\ MaxLosses \in Nat /\ MaxManual \in Nat /\ MaxRestarts \in Nat

VARIABLES
  session,   \* session[s]: upload_session.state, "none" before it is negotiated
  manifest,  \* manifest[m]: manifest.state
  object,    \* object[m]: what is stored under the manifest's key
  jobs,      \* jobs[s]: intake jobs in the outbox and the queue
  calls,     \* verdicts the worker is reporting, one call per session at a time
  attempts,  \* attempts[m]: manifest.intake_reconcile_attempts
  redrives,  \* redrives[m]: requests the reconciler has written to the outbox
  due,       \* manifests whose freshness and backoff intervals have passed
  tick,      \* what the reconciler's tick has read and not yet handled
  ticking,   \* a tick is under way
  episode,   \* the exhaustion of some manifest has been reported
  events,    \* events[m]: manifest.committed events written
  faults     \* losses, manual redrives and restarts so far

vars == <<session, manifest, object, jobs, calls, attempts, redrives, due, tick, ticking,
          episode, events, faults>>

UploadVars == <<session, manifest, object, events>>
RetryVars == <<attempts, redrives, due>>
TickVars == <<tick, ticking, episode>>

Final == {"committed", "rejected"}
SessionStates == {"none", "initiated", "verifying"} \cup Final
ManifestStates == {"none", "pending", "verifying"} \cup Final
Calls == [session : Sessions, accepted : BOOLEAN]
Candidates == [session : Sessions, attempts : 0 .. MaxAttempts - 1]

TypeOK ==
  /\ session \in [Sessions -> SessionStates]
  /\ manifest \in [Manifests -> ManifestStates]
  /\ object \in [Manifests -> {"absent", "sound", "unsound"}]
  /\ jobs \in [Sessions -> Nat]
  /\ calls \subseteq Calls
  /\ attempts \in [Manifests -> 0 .. MaxAttempts]
  /\ redrives \in [Manifests -> Nat]
  /\ due \subseteq Manifests
  /\ tick \subseteq Candidates
  /\ ticking \in BOOLEAN /\ episode \in BOOLEAN
  /\ events \in [Manifests -> Nat]
  /\ faults \in [{"loss", "manual", "restart"} -> Nat]

Init ==
  /\ session = [s \in Sessions |-> "none"]
  /\ manifest = [m \in Manifests |-> "none"]
  /\ object = [m \in Manifests |-> "absent"]
  /\ jobs = [s \in Sessions |-> 0]
  /\ calls = {}
  /\ attempts = [m \in Manifests |-> 0]
  /\ redrives = [m \in Manifests |-> 0]
  /\ due = {}
  /\ tick = {} /\ ticking = FALSE /\ episode = FALSE
  /\ events = [m \in Manifests |-> 0]
  /\ faults = [f \in {"loss", "manual", "restart"} |-> 0]

-----------------------------------------------------------------------------
(* Driver app and upload API *)

Committable == {"initiated"}

\* negotiateUpload: the first session of a manifest also creates it.
Negotiate(s) ==
  /\ session[s] = "none"
  /\ session' = [session EXCEPT ![s] = "initiated"]
  /\ manifest' = [manifest EXCEPT ![ManifestOf[s]] = IF @ = "none" THEN "pending" ELSE @]
  /\ UNCHANGED <<object, jobs, calls, RetryVars, TickVars, events, faults>>

\* PUT to the presigned URL; a retry puts the same file under the same key.
Put(s) ==
  LET m == ManifestOf[s] IN
  /\ session[s] = "initiated" /\ object[m] = "absent"
  /\ \E file \in {"sound", "unsound"} : object' = [object EXCEPT ![m] = file]
  /\ UNCHANGED <<session, manifest, jobs, calls, RetryVars, TickVars, events, faults>>

Verifiable == {"pending", "verifying"}

\* commitUpload: the session, its manifest unless that is final, and the job.
CommitUpload(s) ==
  LET m == ManifestOf[s] IN
  /\ session[s] \in Committable /\ object[m] # "absent"
  /\ session' = [session EXCEPT ![s] = "verifying"]
  /\ manifest' = [manifest EXCEPT ![m] = IF @ \in Verifiable THEN "verifying" ELSE @]
  /\ jobs' = [jobs EXCEPT ![s] = @ + 1]
  /\ UNCHANGED <<object, calls, RetryVars, TickVars, events, faults>>

-----------------------------------------------------------------------------
(* Worker *)

\* validateIntake over what HEAD returned.
ValidateIntake(stored) == stored = "sound"

\* routeJob up to the callback.
Inspect(s) ==
  /\ jobs[s] > 0
  /\ ~\E c \in calls : c.session = s
  /\ jobs' = [jobs EXCEPT ![s] = @ - 1]
  /\ calls' = calls \cup {[session |-> s, accepted |-> ValidateIntake(object[ManifestOf[s]])]}
  /\ UNCHANGED <<UploadVars, RetryVars, TickVars, faults>>

Finalizable(s) == session[s] = "verifying" /\ manifest[ManifestOf[s]] = "verifying"

Verdict(c) == IF c.accepted THEN "committed" ELSE "rejected"

\* Mutant of OnRefusal: the session's update survives the manifest's refusal.
OnRefusalSessionOnly(c) ==
  /\ session' = [session EXCEPT ![c.session] = IF @ = "verifying" THEN Verdict(c) ELSE @]
  /\ UNCHANGED <<manifest, events>>

\* A guard that finds nothing throws, and the whole transaction rolls back.
OnRefusal(c) == UNCHANGED <<session, manifest, events>>

\* finalizeIntake.
Finalize(c) ==
  LET m == ManifestOf[c.session] IN
  /\ c \in calls
  /\ \/ /\ Finalizable(c.session)
        /\ session' = [session EXCEPT ![c.session] = Verdict(c)]
        /\ manifest' = [manifest EXCEPT ![m] = Verdict(c)]
        /\ events' = [events EXCEPT ![m] = IF c.accepted THEN @ + 1 ELSE @]
     \/ ~Finalizable(c.session) /\ OnRefusal(c)
  /\ calls' = calls \ {c}
  /\ UNCHANGED <<object, jobs, RetryVars, TickVars, faults>>

\* A fault of some kind, at most bound times.
Fault(f, bound) ==
  /\ faults[f] < bound
  /\ faults' = [faults EXCEPT ![f] = @ + 1]

\* A job is dead-lettered or its worker dies.
LoseJob(s) ==
  /\ jobs[s] > 0 /\ Fault("loss", MaxLosses)
  /\ jobs' = [jobs EXCEPT ![s] = @ - 1]
  /\ UNCHANGED <<UploadVars, calls, RetryVars, TickVars>>

\* The callback never reaches the api, or is refused its credential.
LoseCall(c) ==
  /\ c \in calls /\ Fault("loss", MaxLosses)
  /\ calls' = calls \ {c}
  /\ UNCHANGED <<UploadVars, jobs, RetryVars, TickVars>>

-----------------------------------------------------------------------------
(* Reconciler *)

\* The join of a manifest with its sessions, whatever state those are in.
Rows == {s \in Sessions : session[s] # "none" /\ manifest[ManifestOf[s]] = "verifying"}

\* A manifest's interval since createdAt, or since its last redrive, passes.
FallsDue(m) ==
  /\ manifest[m] = "verifying" /\ m \notin due
  /\ due' = due \cup {m}
  /\ UNCHANGED <<UploadVars, jobs, calls, attempts, redrives, TickVars, faults>>

\* Mutant of Eligible: one attempt too few.
EligibleButLast(m) == m \in due /\ attempts[m] < MaxAttempts - 1

Eligible(m) == m \in due /\ attempts[m] < MaxAttempts

\* findEligible.
FindEligible ==
  /\ ~ticking
  /\ tick' = {[session |-> s, attempts |-> attempts[ManifestOf[s]]] :
                s \in {r \in Rows : Eligible(ManifestOf[r])}}
  /\ ticking' = TRUE
  /\ UNCHANGED <<UploadVars, jobs, calls, RetryVars, episode, faults>>

\* The optimistic guard of redriveOnce.
Claims(c) ==
  LET m == ManifestOf[c.session] IN
  manifest[m] = "verifying" /\ attempts[m] = c.attempts

\* redriveOnce: the rows of one manifest come in no particular order.
RedriveOnce(c) ==
  LET m == ManifestOf[c.session] IN
  /\ ticking /\ c \in tick
  /\ tick' = tick \ {c}
  /\ \/ /\ Claims(c)
        /\ attempts' = [attempts EXCEPT ![m] = c.attempts + 1]
        /\ redrives' = [redrives EXCEPT ![m] = @ + 1]
        /\ due' = due \ {m}
        /\ jobs' = [jobs EXCEPT ![c.session] = @ + 1]
     \/ ~Claims(c) /\ UNCHANGED <<RetryVars, jobs>>
  /\ UNCHANGED <<UploadVars, calls, ticking, episode, faults>>

Exhausted(m) == manifest[m] = "verifying" /\ attempts[m] = MaxAttempts

\* The end of reconcileOnce: the episode opens, with its report, or closes.
EndTick ==
  /\ ticking /\ tick = {}
  /\ ticking' = FALSE
  /\ episode' = (\E m \in Manifests : Exhausted(m))
  /\ UNCHANGED <<UploadVars, jobs, calls, RetryVars, tick, faults>>

\* A restart forgets the tick and the episode; the attempts are in the database.
Restart ==
  /\ Fault("restart", MaxRestarts)
  /\ tick' = {} /\ ticking' = FALSE /\ episode' = FALSE
  /\ UNCHANGED <<UploadVars, jobs, calls, RetryVars>>

\* The manual redrive emits for every row and leaves the attempts alone.
ManualRedrive ==
  /\ Fault("manual", MaxManual)
  /\ jobs' = [s \in Sessions |-> IF s \in Rows THEN jobs[s] + 1 ELSE jobs[s]]
  /\ UNCHANGED <<UploadVars, calls, RetryVars, TickVars>>

-----------------------------------------------------------------------------
Next ==
  \/ \E s \in Sessions :
       Negotiate(s) \/ Put(s) \/ CommitUpload(s) \/ Inspect(s) \/ LoseJob(s)
  \/ \E c \in Calls : Finalize(c) \/ LoseCall(c)
  \/ \E m \in Manifests : FallsDue(m)
  \/ FindEligible \/ (\E c \in Candidates : RedriveOnce(c)) \/ EndTick
  \/ Restart \/ ManualRedrive

Spec == Init /\ [][Next]_vars

\* The queue's consumers and the callback run; time passes; the scheduler re-arms
\* the reconciler's tick whatever its outcome, and a tick handles all it has read.
Fairness ==
  /\ \A s \in Sessions : WF_vars(Inspect(s))
  /\ \A c \in Calls : WF_vars(Finalize(c))
  /\ \A m \in Manifests : WF_vars(FallsDue(m))
  /\ WF_vars(FindEligible)
  /\ \A c \in Candidates : WF_vars(RedriveOnce(c))
  /\ WF_vars(EndTick)

FairSpec == Spec /\ Fairness

-----------------------------------------------------------------------------
\* A session's verdict is its manifest's, and is the only one: whatever mix of
\* retries, redrives and duplicates, at most one session of a manifest is final.
OneVerdict ==
  /\ \A s \in Sessions : session[s] \in Final => manifest[ManifestOf[s]] = session[s]
  /\ \A s, r \in Sessions :
       session[s] \in Final /\ session[r] \in Final /\ ManifestOf[s] = ManifestOf[r] => s = r

\* The invoice of a photo is requested exactly when it is committed, once.
OneEventPerCommit ==
  \A m \in Manifests : events[m] = IF manifest[m] = "committed" THEN 1 ELSE 0

\* A photo has one outcome, though its sessions, jobs and callbacks are several.
OneOutcome == OneVerdict /\ OneEventPerCommit

\* What the intake makes of sessions and manifests, in the terms of PhotoOutcome.
Decided(state) == IF state \in Final THEN state ELSE "open"

Outcome == INSTANCE PhotoOutcome WITH
  file <- object,
  outcome <- [m \in Manifests |-> Decided(manifest[m])],
  verdict <- [s \in Sessions |-> Decided(session[s])],
  invoices <- events

\* Retried uploads, duplicate jobs, late callbacks and redrives decide a photo once, as
\* its file deserves: no sound photo is rejected, no unsound one is committed, and the
\* photo, its session and the invoice change together.
ImplementsPhotoOutcome == Outcome!Spec

\* Only a sound object is committed, however often it was inspected.
CommittedIsSound == \A m \in Manifests : manifest[m] = "committed" => object[m] = "sound"

\* A verdict is final for the manifest: a late job, commit or redrive moves nothing.
VerdictIsFinal ==
  [][\A m \in Manifests : manifest[m] \in Final => manifest'[m] = manifest[m]]_vars

\* The reconciler writes one request per attempt it counts, and no more than
\* MaxAttempts, though a manifest is in a tick once per session it has and
\* restarts lose ticks.
RetryBudget ==
  \A m \in Manifests : redrives[m] = attempts[m] /\ redrives[m] <= MaxAttempts

\* A photo that is being verified gets its verdict, or is reported as exhausted:
\* none stays in verifying unnoticed.
VerdictOrReport ==
  \A m \in Manifests :
    manifest[m] = "verifying" ~> manifest[m] \in Final \/ (attempts[m] = MaxAttempts /\ episode)
=============================================================================
