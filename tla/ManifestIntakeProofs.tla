------------------------ MODULE ManifestIntakeProofs ------------------------
(***************************************************************************)
(* The safety properties of the photo intake, for any number of sessions,  *)
(* manifests, attempts, losses, redrives and restarts, and of the weights  *)
(* read from the photos it commits (WeighSlips).                           *)
(*                                                                         *)
(* OneVerdict, OneEventPerCommit and RetryBudget are inductive together    *)
(* with the type. CommittedIsSound needs to know of verdicts under way:    *)
(* one that accepts was reached on a sound object, which stays sound.      *)
(*                                                                         *)
(* A weight is what the slip says because a report under way is that of    *)
(* the slip it was read from; a typed weight holds because only the second *)
(* run of a stalled job still has anything to say.                         *)
(***************************************************************************)
EXTENDS ManifestIntake, WeighSlips, TLAPS

\* An accepting verdict under way was reached on a sound object.
VerdictsAreSound == \A c \in calls : c.accepted => object[ManifestOf[c.session]] = "sound"

IInv ==
  /\ TypeOK
  /\ OneVerdict
  /\ OneEventPerCommit
  /\ CommittedIsSound
  /\ RetryBudget
  /\ VerdictsAreSound

USE IntakeAssumption

LEMMA InitIInv == Init => IInv
<1> SUFFICES ASSUME Init PROVE IInv
  OBVIOUS
<1>1. TypeOK
  <2>1. attempts \in [Manifests -> 0 .. MaxAttempts] /\ redrives \in [Manifests -> Nat]
    BY DEF Init
  <2>2. session \in [Sessions -> SessionStates] /\ manifest \in [Manifests -> ManifestStates]
    BY DEF Init, SessionStates, ManifestStates
  <2> QED
    BY <2>1, <2>2 DEF Init, TypeOK
<1>2. OneVerdict /\ OneEventPerCommit /\ CommittedIsSound /\ RetryBudget /\ VerdictsAreSound
  BY DEF Init, OneVerdict, OneEventPerCommit, CommittedIsSound, RetryBudget, VerdictsAreSound,
         Final
<1> QED
  BY <1>1, <1>2 DEF IInv

-----------------------------------------------------------------------------
(* Uploads *)

LEMMA NegotiateKeeps ==
  ASSUME IInv, NEW s \in Sessions, Negotiate(s)
  PROVE  IInv'
<1> USE DEF Negotiate, IInv, TickVars, RetryVars
<1>1. TypeOK'
  BY DEF TypeOK, SessionStates, ManifestStates
<1>2. OneVerdict'
  BY DEF TypeOK, OneVerdict, SessionStates, ManifestStates, Final
<1>3. OneEventPerCommit' /\ CommittedIsSound' /\ RetryBudget' /\ VerdictsAreSound'
  BY DEF TypeOK, OneEventPerCommit, CommittedIsSound, RetryBudget, VerdictsAreSound
<1> QED
  BY <1>1, <1>2, <1>3

LEMMA PutKeeps ==
  ASSUME IInv, NEW s \in Sessions, Put(s)
  PROVE  IInv'
<1> USE DEF Put, IInv, TickVars, RetryVars
<1>1. TypeOK'
  BY DEF TypeOK
<1>2. OneVerdict' /\ OneEventPerCommit' /\ RetryBudget'
  BY DEF OneVerdict, OneEventPerCommit, RetryBudget
<1>3. CommittedIsSound' /\ VerdictsAreSound'
  BY DEF TypeOK, CommittedIsSound, VerdictsAreSound, Calls
<1> QED
  BY <1>1, <1>2, <1>3

LEMMA CommitKeeps ==
  ASSUME IInv, NEW s \in Sessions, CommitUpload(s)
  PROVE  IInv'
<1> USE DEF CommitUpload, IInv, TickVars, RetryVars, Committable, Verifiable
<1>1. TypeOK'
  BY DEF TypeOK, SessionStates, ManifestStates
<1>2. OneVerdict'
  BY DEF TypeOK, OneVerdict, SessionStates, ManifestStates, Final
<1>3. OneEventPerCommit' /\ CommittedIsSound' /\ RetryBudget' /\ VerdictsAreSound'
  BY DEF TypeOK, OneEventPerCommit, CommittedIsSound, RetryBudget, VerdictsAreSound
<1> QED
  BY <1>1, <1>2, <1>3

-----------------------------------------------------------------------------
(* Verdicts *)

LEMMA InspectKeeps ==
  ASSUME IInv, NEW s \in Sessions, Inspect(s)
  PROVE  IInv'
<1> USE DEF Inspect, IInv, UploadVars, TickVars, RetryVars, ValidateIntake
<1> DEFINE verdict == [session |-> s, accepted |-> object[ManifestOf[s]] = "sound"]
<1>0. verdict \in Calls /\ calls' = calls \cup {verdict} /\ UNCHANGED object
  BY DEF Calls
<1>1. TypeOK'
  <2>1. jobs' \in [Sessions -> Nat] /\ calls' \subseteq Calls
    BY <1>0 DEF TypeOK
  <2> QED
    BY <2>1 DEF TypeOK
<1>2. OneVerdict' /\ OneEventPerCommit' /\ RetryBudget' /\ CommittedIsSound'
  BY DEF OneVerdict, OneEventPerCommit, RetryBudget, CommittedIsSound
<1>3. VerdictsAreSound'
  <2>1. verdict.accepted => object[ManifestOf[verdict.session]] = "sound"
    OBVIOUS
  <2> HIDE DEF verdict
  <2> QED
    BY <1>0, <2>1 DEF VerdictsAreSound
<1> QED
  BY <1>1, <1>2, <1>3

LEMMA FinalizeKeeps ==
  ASSUME IInv, NEW c \in Calls, Finalize(c)
  PROVE  IInv'
<1> DEFINE m == ManifestOf[c.session]
<1>0. c.session \in Sessions /\ c.accepted \in BOOLEAN /\ m \in Manifests /\ c \in calls
  BY DEF Calls, Finalize
<1>1. CASE ~Finalizable(c.session)
  <2>1. UNCHANGED <<UploadVars, jobs, RetryVars, TickVars, faults>> /\ calls' = calls \ {c}
    BY <1>1 DEF Finalize, OnRefusal, UploadVars
  <2> QED
    BY <2>1 DEF IInv, UploadVars, TickVars, RetryVars, TypeOK, OneVerdict, OneEventPerCommit,
                CommittedIsSound, RetryBudget, VerdictsAreSound
<1>2. CASE Finalizable(c.session)
  <2>1. /\ session[c.session] = "verifying" /\ manifest[m] = "verifying"
        /\ session' = [session EXCEPT ![c.session] = Verdict(c)]
        /\ manifest' = [manifest EXCEPT ![m] = Verdict(c)]
        /\ events' = [events EXCEPT ![m] = IF c.accepted THEN @ + 1 ELSE @]
        /\ calls' = calls \ {c}
        /\ UNCHANGED <<object, jobs, attempts, redrives, due, tick, ticking, episode, faults>>
    BY <1>2 DEF Finalize, Finalizable, RetryVars, TickVars
  <2>2. Verdict(c) \in Final /\ (Verdict(c) = "committed" <=> c.accepted)
    BY <1>0 DEF Verdict, Final
  <2>3. TypeOK'
    BY <1>0, <2>1, <2>2 DEF IInv, TypeOK, SessionStates, ManifestStates
  <2>4. \A s \in Sessions : ManifestOf[s] = m => session[s] \notin Final
    BY <2>1 DEF IInv, OneVerdict, Final
  <2>5. OneVerdict'
    <3>1. \A s \in Sessions : session'[s] = IF s = c.session THEN Verdict(c) ELSE session[s]
      BY <1>0, <2>1 DEF IInv, TypeOK
    <3>2. \A n \in Manifests : manifest'[n] = IF n = m THEN Verdict(c) ELSE manifest[n]
      BY <1>0, <2>1 DEF IInv, TypeOK
    <3>3. \A s \in Sessions : ManifestOf[s] \in Manifests
      OBVIOUS
    <3>4. \A s \in Sessions : session'[s] \in Final => manifest'[ManifestOf[s]] = session'[s]
      BY <2>4, <3>1, <3>2, <3>3 DEF IInv, OneVerdict
    <3>5. \A s, r \in Sessions :
            session'[s] \in Final /\ session'[r] \in Final /\ ManifestOf[s] = ManifestOf[r]
            => s = r
      BY <2>4, <3>1 DEF IInv, OneVerdict
    <3> QED
      BY <3>4, <3>5 DEF OneVerdict
  <2>6. OneEventPerCommit'
    BY <1>0, <2>1, <2>2 DEF IInv, TypeOK, OneEventPerCommit
  <2>7. CommittedIsSound'
    BY <1>0, <2>1, <2>2 DEF IInv, TypeOK, CommittedIsSound, VerdictsAreSound
  <2>8. RetryBudget' /\ VerdictsAreSound'
    BY <2>1 DEF IInv, RetryBudget, VerdictsAreSound
  <2> QED
    BY <2>3, <2>5, <2>6, <2>7, <2>8 DEF IInv
<1> QED
  BY <1>1, <1>2

LEMMA LossesKeep ==
  ASSUME IInv,
         (\E s \in Sessions : LoseJob(s)) \/ (\E c \in Calls : LoseCall(c))
  PROVE  IInv'
<1> USE DEF IInv, UploadVars, RetryVars, TickVars, Fault
<1>1. TypeOK'
  BY DEF LoseJob, LoseCall, TypeOK
<1>2. OneVerdict' /\ OneEventPerCommit' /\ CommittedIsSound' /\ RetryBudget'
  BY DEF LoseJob, LoseCall, OneVerdict, OneEventPerCommit, CommittedIsSound, RetryBudget
<1>3. VerdictsAreSound'
  BY DEF LoseJob, LoseCall, VerdictsAreSound
<1> QED
  BY <1>1, <1>2, <1>3

-----------------------------------------------------------------------------
(* Reconciler *)

\* What a reconciler step leaves alone carries everything but the type and the budget.
LEMMA UploadsUntouched ==
  ASSUME IInv, UNCHANGED UploadVars, UNCHANGED calls, TypeOK', RetryBudget'
  PROVE  IInv'
  BY DEF IInv, UploadVars, OneVerdict, OneEventPerCommit, CommittedIsSound, VerdictsAreSound

LEMMA RedriveKeeps ==
  ASSUME IInv, NEW c \in Candidates, RedriveOnce(c)
  PROVE  IInv'
<1> DEFINE m == ManifestOf[c.session]
<1>0. c.session \in Sessions /\ m \in Manifests /\ c.attempts \in 0 .. MaxAttempts - 1
  BY DEF Candidates
<1>1. CASE Claims(c)
  <2>1. /\ attempts[m] = c.attempts
        /\ attempts' = [attempts EXCEPT ![m] = c.attempts + 1]
        /\ redrives' = [redrives EXCEPT ![m] = @ + 1]
        /\ due' = due \ {m}
        /\ jobs' = [jobs EXCEPT ![c.session] = @ + 1]
        /\ tick' = tick \ {c}
        /\ UNCHANGED <<UploadVars, calls, ticking, episode, faults>>
    BY <1>1 DEF RedriveOnce, Claims
  <2>2. TypeOK'
    BY <1>0, <2>1 DEF IInv, TypeOK, UploadVars
  <2>3. RetryBudget'
    BY <1>0, <2>1 DEF IInv, TypeOK, RetryBudget
  <2> QED
    BY <2>1, <2>2, <2>3, UploadsUntouched
<1>2. CASE ~Claims(c)
  <2>1. UNCHANGED <<RetryVars, jobs, UploadVars, calls, ticking, episode, faults>>
        /\ tick' = tick \ {c}
    BY <1>2 DEF RedriveOnce
  <2>2. TypeOK' /\ RetryBudget'
    BY <2>1 DEF IInv, TypeOK, RetryBudget, RetryVars, UploadVars
  <2> QED
    BY <2>1, <2>2, UploadsUntouched
<1> QED
  BY <1>1, <1>2

LEMMA TickKeeps ==
  ASSUME IInv,
         (\E m \in Manifests : FallsDue(m)) \/ FindEligible \/ EndTick \/ Restart \/ ManualRedrive
  PROVE  IInv'
<1>1. CASE \E m \in Manifests : FallsDue(m)
  <2>1. TypeOK' /\ RetryBudget'
    BY <1>1 DEF FallsDue, IInv, TypeOK, RetryBudget, UploadVars, TickVars
  <2> QED
    BY <1>1, <2>1, UploadsUntouched DEF FallsDue
<1>2. CASE FindEligible
  <2>1. tick' \subseteq Candidates
    <3> SUFFICES ASSUME NEW s \in Sessions, Eligible(ManifestOf[s])
                 PROVE  [session |-> s, attempts |-> attempts[ManifestOf[s]]] \in Candidates
      BY <1>2 DEF FindEligible, Rows
    <3>1. attempts[ManifestOf[s]] \in 0 .. MaxAttempts - 1
      BY DEF Eligible, IInv, TypeOK
    <3> QED
      BY <3>1 DEF Candidates
  <2>2. TypeOK' /\ RetryBudget'
    BY <1>2, <2>1 DEF FindEligible, IInv, TypeOK, RetryBudget, UploadVars, RetryVars
  <2> QED
    BY <1>2, <2>2, UploadsUntouched DEF FindEligible
<1>3. CASE EndTick
  <2>1. TypeOK' /\ RetryBudget'
    BY <1>3 DEF EndTick, IInv, TypeOK, RetryBudget, UploadVars, RetryVars
  <2> QED
    BY <1>3, <2>1, UploadsUntouched DEF EndTick
<1>4. CASE Restart
  <2>1. RetryBudget' /\ UNCHANGED <<UploadVars, jobs, calls, RetryVars>>
    BY <1>4 DEF Restart, IInv, RetryBudget, RetryVars
  <2>2. TypeOK'
    <3>1. faults' \in [{"loss", "manual", "restart"} -> Nat]
      BY <1>4 DEF Restart, Fault, IInv, TypeOK
    <3>2. tick' \subseteq Candidates /\ ticking' \in BOOLEAN /\ episode' \in BOOLEAN
      BY <1>4 DEF Restart
    <3> QED
      BY <2>1, <3>1, <3>2 DEF IInv, TypeOK, UploadVars, RetryVars
  <2> QED
    BY <2>1, <2>2, UploadsUntouched
<1>5. CASE ManualRedrive
  <2>1. TypeOK' /\ RetryBudget'
    BY <1>5 DEF ManualRedrive, Fault, IInv, TypeOK, RetryBudget, UploadVars, RetryVars, TickVars
  <2> QED
    BY <1>5, <2>1, UploadsUntouched DEF ManualRedrive
<1> QED
  BY <1>1, <1>2, <1>3, <1>4, <1>5

LEMMA StutterKeeps == ASSUME IInv, UNCHANGED vars PROVE IInv'
  BY DEF vars, IInv, TypeOK, OneVerdict, OneEventPerCommit, CommittedIsSound, RetryBudget,
         VerdictsAreSound

-----------------------------------------------------------------------------
\* All parts of the invariant hold in every state.
THEOREM IntakeInvariance == Spec => []IInv
<1>1. IInv /\ [Next]_vars => IInv'
  BY NegotiateKeeps, PutKeeps, CommitKeeps, InspectKeeps, FinalizeKeeps, LossesKeep,
     RedriveKeeps, TickKeeps, StutterKeeps DEF Next
<1> QED
  BY InitIInv, <1>1, PTL DEF Spec

\* The verdict of a manifest is that of one session and of no other.
THEOREM OneVerdictPerManifest == Spec => []OneVerdict
<1>1. IInv => OneVerdict
  BY DEF IInv
<1> QED
  BY <1>1, IntakeInvariance, PTL

\* finalizeIntake requests the invoice of a photo once, when it commits it.
THEOREM InvoiceOnce == Spec => []OneEventPerCommit
<1>1. IInv => OneEventPerCommit
  BY DEF IInv
<1> QED
  BY <1>1, IntakeInvariance, PTL

\* The outcome of a photo, verdict and invoice, is decided once.
THEOREM OutcomeOnce == Spec => []OneOutcome
<1>1. IInv => OneOutcome
  BY DEF IInv, OneOutcome
<1> QED
  BY <1>1, IntakeInvariance, PTL

\* No photo the worker would refuse is committed.
THEOREM SoundCommits == Spec => []CommittedIsSound
<1>1. IInv => CommittedIsSound
  BY DEF IInv
<1> QED
  BY <1>1, IntakeInvariance, PTL

\* The optimistic claim of redriveOnce keeps the retry budget.
THEOREM BudgetIsKept == Spec => []RetryBudget
<1>1. IInv => RetryBudget
  BY DEF IInv
<1> QED
  BY <1>1, IntakeInvariance, PTL

\* A final manifest stays as it is: commitUpload and finalizeIntake both guard it.
THEOREM VerdictStays == Spec => VerdictIsFinal
<1>1. ASSUME IInv, [Next]_vars, NEW m \in Manifests, manifest[m] \in Final
      PROVE  manifest'[m] = manifest[m]
  <2>1. ASSUME NEW s \in Sessions, Negotiate(s) \/ CommitUpload(s) PROVE manifest'[m] = manifest[m]
    BY <1>1, <2>1 DEF Negotiate, CommitUpload, Verifiable, Final, IInv, TypeOK
  <2>2. ASSUME NEW c \in Calls, Finalize(c) PROVE manifest'[m] = manifest[m]
    BY <1>1, <2>2 DEF Finalize, Finalizable, OnRefusal, Final, IInv, TypeOK
  <2>3. UNCHANGED manifest \/ (\E s \in Sessions : Negotiate(s) \/ CommitUpload(s))
                           \/ (\E c \in Calls : Finalize(c))
    BY <1>1 DEF Next, vars, UploadVars, Put, Inspect, LoseJob, LoseCall, FallsDue, FindEligible,
                RedriveOnce, EndTick, Restart, ManualRedrive
  <2> QED
    BY <2>1, <2>2, <2>3
<1>2. IInv /\ [Next]_vars =>
        [\A m \in Manifests : manifest[m] \in Final => manifest'[m] = manifest[m]]_vars
  BY <1>1
<1> QED
  BY <1>2, IntakeInvariance, PTL DEF Spec, VerdictIsFinal

-----------------------------------------------------------------------------
(* The intake implements PhotoOutcome *)

\* Nothing is verified, queued or reported before its file is stored, and a verdict under
\* way is the one that file deserves.
VerdictsAreRight ==
  /\ \A m \in Manifests : manifest[m] \in {"verifying"} \cup Final => object[m] # "absent"
  /\ \A s \in Sessions : jobs[s] > 0 => object[ManifestOf[s]] # "absent"
  /\ \A c \in calls : /\ object[ManifestOf[c.session]] # "absent"
                      /\ c.accepted <=> object[ManifestOf[c.session]] = "sound"

LEMMA SessionKeepsRight ==
  ASSUME IInv, VerdictsAreRight, NEW s \in Sessions,
         Negotiate(s) \/ Put(s) \/ CommitUpload(s) \/ Inspect(s) \/ LoseJob(s)
  PROVE  VerdictsAreRight'
<1>0. TypeOK /\ ManifestOf[s] \in Manifests
  BY DEF IInv
<1>1. CASE Negotiate(s)
  BY <1>0, <1>1 DEF Negotiate, VerdictsAreRight, TypeOK, Final
<1>2. CASE Put(s)
  <2>1. object[ManifestOf[s]] = "absent" /\ UNCHANGED <<manifest, jobs, calls>>
    BY <1>2 DEF Put
  <2>2. \A m \in Manifests : object'[m] = object[m] \/ (m = ManifestOf[s] /\ object'[m] # "absent")
    BY <1>0, <1>2 DEF Put, TypeOK
  <2>3. \A c \in calls : c.session \in Sessions
    BY <1>0 DEF TypeOK, Calls
  <2> QED
    BY <2>1, <2>2, <2>3 DEF VerdictsAreRight
<1>3. CASE CommitUpload(s)
  <2>1. object[ManifestOf[s]] # "absent" /\ UNCHANGED <<object, calls>>
    BY <1>3 DEF CommitUpload
  <2>2. \A m \in Manifests : manifest'[m] = manifest[m] \/ m = ManifestOf[s]
    BY <1>0, <1>3 DEF CommitUpload, TypeOK
  <2>3. \A r \in Sessions : jobs'[r] = jobs[r] \/ r = s
    BY <1>0, <1>3 DEF CommitUpload, TypeOK
  <2> QED
    BY <2>1, <2>2, <2>3 DEF VerdictsAreRight
<1>4. CASE Inspect(s)
  <2> DEFINE verdict == [session |-> s, accepted |-> object[ManifestOf[s]] = "sound"]
  <2>1. jobs[s] > 0 /\ calls' = calls \cup {verdict} /\ UNCHANGED <<manifest, object>>
    BY <1>4 DEF Inspect, ValidateIntake, UploadVars
  <2>2. \A r \in Sessions : jobs'[r] > 0 => jobs[r] > 0
    BY <1>0, <1>4 DEF Inspect, TypeOK
  <2>3. verdict.session = s /\ (verdict.accepted <=> object[ManifestOf[s]] = "sound")
    OBVIOUS
  <2> HIDE DEF verdict
  <2> QED
    BY <2>1, <2>2, <2>3 DEF VerdictsAreRight
<1>5. CASE LoseJob(s)
  <2>1. \A r \in Sessions : jobs'[r] > 0 => jobs[r] > 0
    BY <1>0, <1>5 DEF LoseJob, TypeOK
  <2> QED
    BY <1>5, <2>1 DEF LoseJob, UploadVars, VerdictsAreRight
<1> QED
  BY <1>1, <1>2, <1>3, <1>4, <1>5

LEMMA VerdictKeepsRight ==
  ASSUME IInv, VerdictsAreRight, NEW c \in Calls, Finalize(c) \/ LoseCall(c)
  PROVE  VerdictsAreRight'
<1>1. calls' = calls \ {c} /\ UNCHANGED <<object, jobs>> /\ c \in calls
  BY DEF Finalize, LoseCall, UploadVars
<1>2. \A m \in Manifests : manifest'[m] = manifest[m] \/ m = ManifestOf[c.session]
  BY DEF Finalize, OnRefusal, LoseCall, UploadVars, IInv, TypeOK
<1> QED
  BY <1>1, <1>2 DEF VerdictsAreRight

LEMMA ReconcilerKeepsRight ==
  ASSUME IInv, VerdictsAreRight,
         \/ \E m \in Manifests : FallsDue(m)
         \/ FindEligible \/ (\E c \in Candidates : RedriveOnce(c)) \/ EndTick
         \/ Restart \/ ManualRedrive \/ UNCHANGED vars
  PROVE  VerdictsAreRight'
<1>1. UNCHANGED <<object, manifest, calls>>
  BY DEF FallsDue, FindEligible, RedriveOnce, EndTick, Restart, ManualRedrive, UploadVars, vars
<1>2. \A s \in Sessions : jobs'[s] > 0 => jobs[s] > 0 \/ manifest[ManifestOf[s]] = "verifying"
  <2>1. ASSUME NEW c \in Candidates, RedriveOnce(c), NEW s \in Sessions, jobs'[s] > 0
        PROVE  jobs[s] > 0 \/ manifest[ManifestOf[s]] = "verifying"
    BY <2>1 DEF RedriveOnce, Claims, RetryVars, IInv, TypeOK
  <2>2. CASE ManualRedrive
    BY <2>2 DEF ManualRedrive, Rows
  <2>3. CASE (\E m \in Manifests : FallsDue(m)) \/ FindEligible \/ EndTick \/ Restart \/ UNCHANGED vars
    BY <2>3 DEF FallsDue, FindEligible, EndTick, Restart, vars
  <2> QED
    BY <2>1, <2>2, <2>3
<1> QED
  BY <1>1, <1>2 DEF VerdictsAreRight

\* A callback carries the verdict its file deserves, so the intake never rejects a sound photo.
THEOREM VerdictsAreDeserved == Spec => []VerdictsAreRight
<1>1. Init => VerdictsAreRight
  BY DEF Init, VerdictsAreRight, Final
<1>2. IInv /\ VerdictsAreRight /\ [Next]_vars => VerdictsAreRight'
  BY SessionKeepsRight, VerdictKeepsRight, ReconcilerKeepsRight DEF Next
<1> QED
  BY <1>1, <1>2, IntakeInvariance, PTL DEF Spec

mapped == <<object, [m \in Manifests |-> Decided(manifest[m])],
            [s \in Sessions |-> Decided(session[s])], events>>

\* Only Put and a finalizeIntake that is not refused are steps of PhotoOutcome.
LEMMA FinalizeDecides ==
  ASSUME IInv, VerdictsAreRight, NEW c \in Calls, Finalize(c)
  PROVE  [Outcome!Next]_mapped
<1> DEFINE m == ManifestOf[c.session]
<1>0. /\ c.session \in Sessions /\ c.accepted \in BOOLEAN /\ m \in Manifests /\ c \in calls
      /\ TypeOK /\ object' = object
  BY DEF Calls, Finalize, IInv
<1>1. CASE ~Finalizable(c.session)
  BY <1>0, <1>1 DEF Finalize, OnRefusal, mapped
<1>2. CASE Finalizable(c.session)
  <2>1. /\ session[c.session] = "verifying" /\ manifest[m] = "verifying"
        /\ session' = [session EXCEPT ![c.session] = Verdict(c)]
        /\ manifest' = [manifest EXCEPT ![m] = Verdict(c)]
        /\ events' = [events EXCEPT ![m] = IF c.accepted THEN @ + 1 ELSE @]
    BY <1>2 DEF Finalize, Finalizable
  <2>2. Verdict(c) \in Final /\ Verdict(c) = IF c.accepted THEN "committed" ELSE "rejected"
    BY DEF Verdict, Final
  <2>3. c.accepted <=> object[m] = "sound"
    BY <1>0 DEF VerdictsAreRight
  <2>4. object[m] \in {"sound", "unsound"}
    BY <1>0 DEF VerdictsAreRight, TypeOK
  <2>5. [n \in Manifests |-> Decided(manifest[n])]'
          = [[n \in Manifests |-> Decided(manifest[n])] EXCEPT ![m] = Verdict(c)]
    BY <1>0, <2>1, <2>2 DEF TypeOK, Decided
  <2>6. [s \in Sessions |-> Decided(session[s])]'
          = [[s \in Sessions |-> Decided(session[s])] EXCEPT ![c.session] = Verdict(c)]
    BY <1>0, <2>1, <2>2 DEF TypeOK, Decided
  <2>7. Decided(manifest[m]) = "open" /\ Decided(session[c.session]) = "open"
    BY <2>1 DEF Decided, Final
  <2>8. Outcome!Decide(c.session, Verdict(c))
    BY <1>0, <2>5, <2>6, <2>7 DEF Outcome!Decide
  <2>9. CASE c.accepted
    <3>1. Outcome!Commit(c.session)
      BY <1>0, <2>1, <2>2, <2>3, <2>8, <2>9 DEF Outcome!Commit
    <3> QED
      BY <1>0, <3>1 DEF Outcome!Next
  <2>10. CASE ~c.accepted
    <3>1. events' = events
      BY <1>0, <2>1, <2>10 DEF TypeOK
    <3>2. Outcome!Reject(c.session)
      BY <1>0, <2>2, <2>3, <2>4, <2>8, <2>10, <3>1 DEF Outcome!Reject
    <3> QED
      BY <1>0, <3>2 DEF Outcome!Next
  <2> QED
    BY <1>0, <2>9, <2>10
<1> QED
  BY <1>1, <1>2

LEMMA OthersDecideNothing ==
  ASSUME IInv, [Next]_vars, \A c \in Calls : ~Finalize(c)
  PROVE  [Outcome!Next]_mapped
<1>0. TypeOK /\ \A s \in Sessions : ManifestOf[s] \in Manifests
  BY DEF IInv
<1>1. ASSUME NEW s \in Sessions, Negotiate(s) \/ CommitUpload(s)
      PROVE  UNCHANGED mapped
  <2>1. UNCHANGED <<object, events>>
    BY <1>1 DEF Negotiate, CommitUpload
  <2>2. \A r \in Sessions : Decided(session'[r]) = Decided(session[r])
    BY <1>0, <1>1 DEF Negotiate, CommitUpload, Committable, Decided, Final, TypeOK
  <2>3. \A m \in Manifests : Decided(manifest'[m]) = Decided(manifest[m])
    BY <1>0, <1>1 DEF Negotiate, CommitUpload, Verifiable, Decided, Final, TypeOK
  <2> QED
    BY <2>1, <2>2, <2>3 DEF mapped
<1>2. ASSUME NEW s \in Sessions, Put(s)
      PROVE  Outcome!Store(ManifestOf[s])
  <2>1. UNCHANGED <<manifest, session, events>>
    BY <1>2 DEF Put
  <2> QED
    BY <1>2, <2>1 DEF Put, Outcome!Store
<1>3. CASE UNCHANGED UploadVars
  BY <1>3 DEF UploadVars, mapped
<1>4. \/ UNCHANGED UploadVars
      \/ \E s \in Sessions : Negotiate(s) \/ CommitUpload(s) \/ Put(s)
  BY DEF Next, vars, UploadVars, Inspect, LoseJob, LoseCall, FallsDue, FindEligible,
         RedriveOnce, EndTick, Restart, ManualRedrive
<1> QED
  BY <1>0, <1>1, <1>2, <1>3, <1>4 DEF Outcome!Next

\* The intake implements PhotoOutcome: whatever is retried, lost, redriven or restarted, a
\* photo is decided once, by one session, as its stored file deserves.
THEOREM IntakeRefinement == Spec => ImplementsPhotoOutcome
<1>1. Init => Outcome!Init
  BY DEF Init, Outcome!Init, Decided, Final
<1>2. IInv /\ VerdictsAreRight /\ [Next]_vars => [Outcome!Next]_(Outcome!photoVars)
  BY FinalizeDecides, OthersDecideNothing DEF mapped, Outcome!photoVars
<1> QED
  BY <1>1, <1>2, IntakeInvariance, VerdictsAreDeserved, PTL
     DEF Spec, ImplementsPhotoOutcome, Outcome!Spec

-----------------------------------------------------------------------------
(* Weights: reading a slip *)

\* The only weighing on a slip is its total.
LEMMA TotalOfOne == ASSUME NEW g \in Nat PROVE Total(<<g>>) = g
<1> DEFINE First(s) == CHOOSE x \in s : TRUE
           Sum(f) == [s \in SUBSET {1} |-> IF s = {} THEN 0 ELSE <<g>>[First(s)] + f[s \ {First(s)}]]
           sum == CHOOSE f : f = Sum(f)
           witness == [s \in SUBSET {1} |-> IF s = {} THEN 0 ELSE g]
<1>1. \A s \in SUBSET {1} : s = {} \/ s = {1}
  OBVIOUS
<1>2. First({1}) = 1 /\ {1} \ {1} = {} /\ <<g>>[1] = g
  OBVIOUS
<1>3. witness = Sum(witness)
  <2> SUFFICES ASSUME NEW s \in SUBSET {1} PROVE witness[s] = Sum(witness)[s]
    OBVIOUS
  <2>1. CASE s = {}
    BY <2>1
  <2>2. CASE s = {1}
    BY <1>2, <2>2
  <2> QED BY <1>1, <2>1, <2>2
<1>4. sum = Sum(sum)
  BY <1>3
<1>5. sum[{}] = 0
  BY <1>4
<1>6. sum[{1}] = <<g>>[First({1})] + sum[{1} \ {First({1})}]
  BY <1>4
<1>7. DOMAIN <<g>> = {1}
  OBVIOUS
<1>8. Total(<<g>>) = sum[{1}]
  BY <1>7 DEF Total, FoldFunction, FoldFunctionOnSet, MapThenFoldSet
<1> HIDE DEF First, sum
<1> QED BY <1>2, <1>5, <1>6, <1>8

\* What is parsed is the total, and within the bounds.
LEMMA ParsedIsTotal ==
  ASSUME NEW values, ParseNetWeight(values) # None
  PROVE  /\ ParseNetWeight(values) = Total(values)
         /\ ParseNetWeight(values) \in MinKg .. MaxKg
BY DEF ParseNetWeight

LEMMA ParsedIsRead ==
  ASSUME NEW kg \in Kilos, ParseNetWeight(<<kg>>) # None
  PROVE  ParseNetWeight(<<kg>>) = kg /\ kg \in MinKg .. MaxKg
<1>1. kg \in Nat
  <2>1. ASSUME kg = None PROVE None \in Range(<<kg>>)
    <3>1. <<kg>>[1] = None /\ 1 \in DOMAIN <<kg>>
      BY <2>1
    <3> QED BY <3>1 DEF Range
  <2>2. kg # None
    BY <2>1 DEF ParseNetWeight
  <2> QED BY <2>2 DEF Kilos
<1> QED BY <1>1, ParsedIsTotal, TotalOfOne

\* What the job makes of slip s is what is on it.
TrueOf(s, kg) ==
  /\ s.format \in {"goods_only", "truck_and_goods", "unreported"}
  /\ s.count = 1 \/ s.format = "unreported"
  /\ kg = GoodsOf(s) /\ kg \in MinKg .. MaxKg

LEMMA ExtractedOf ==
  ASSUME NEW values
  PROVE  /\ ParseAndBound(values) \in Results
         /\ ParseAndBound(values).status = "extracted" =>
              /\ ParseNetWeight(values) # None
              /\ ParseAndBound(values).kg = ParseNetWeight(values)
<1>1. CASE ParseNetWeight(values) = None
  BY <1>1 DEF ParseAndBound, Unreadable, Results, Kilos
<1>2. CASE ParseNetWeight(values) # None
  <2>1. ParseNetWeight(values) \in Nat
    BY <1>2, ParsedIsTotal, WeightAssumption
  <2>2. ParseAndBound(values) = [kg |-> ParseNetWeight(values), status |-> "extracted"]
    BY <1>2 DEF ParseAndBound
  <2> QED BY <1>2, <2>1, <2>2 DEF Results, Kilos
<1> QED BY <1>1, <1>2

LEMMA ExtractionIsTrue ==
  ASSUME NEW s \in Slips
  PROVE  /\ Extraction(s) \in Results
         /\ Extraction(s).status = "extracted" => TrueOf(s, Extraction(s).kg)
<1> DEFINE result == Extraction(s)
<1>1. /\ s.count \in Nat \ {0} /\ s.gross \in Kilos /\ s.tare \in Kilos
      /\ s.goods \in Kilos
  BY WeightAssumption DEF Slip
<1>2. NotFound \in Results /\ Unreadable \in Results
      /\ NotFound.status # "extracted" /\ Unreadable.status # "extracted"
  BY DEF NotFound, Unreadable, Results, Kilos
<1>3. CASE s.format = "unreported"
  <2>1. result = ParseAndBound(s.weighings)
    BY <1>3 DEF Extraction
  <2>2. GoodsOf(s) = Total(s.weighings)
    BY <1>3 DEF GoodsOf
  <2> QED BY <1>3, <2>1, <2>2, ExtractedOf, ParsedIsTotal DEF TrueOf
<1>4. CASE s.count = 1 /\ s.format = "goods_only"
  <2>1. result = ParseAndBound(<<s.goods>>)
    BY <1>4 DEF Extraction, Recognize
  <2>2. GoodsOf(s) = s.goods
    BY <1>4 DEF GoodsOf
  <2> QED BY <1>1, <1>4, <2>1, <2>2, ExtractedOf, ParsedIsRead DEF TrueOf
<1>5. CASE s.count = 1 /\ s.format = "truck_and_goods"
  <2> DEFINE gross == ParseNetWeight(<<s.gross>>)
             tare == ParseNetWeight(<<s.tare>>)
  <2>1. result = DerivedGoods(s)
    BY <1>5 DEF Extraction, Recognize
  <2>2. GoodsOf(s) = s.gross - s.tare
    BY <1>5 DEF GoodsOf
  <2>3. CASE None \in {gross, tare} \/ tare >= gross
    BY <1>2, <2>1, <2>3 DEF DerivedGoods
  <2>4. CASE None \notin {gross, tare} /\ ~(tare >= gross)
    <3>1. gross = s.gross /\ tare = s.tare /\ gross \in MinKg .. MaxKg /\ tare \in MinKg .. MaxKg
      BY <1>1, <2>4, ParsedIsRead
    <3>2. gross - tare \in Nat
      BY <2>4, <3>1, WeightAssumption
    <3>3. gross - tare \in Kilos
      BY <3>2 DEF Kilos
    <3>4. result = ParseAndBound(<<gross - tare>>)
      BY <2>1, <2>4 DEF DerivedGoods
    <3> HIDE DEF gross, tare
    <3> QED BY <1>5, <2>2, <3>1, <3>3, <3>4, ExtractedOf, ParsedIsRead DEF TrueOf
  <2> QED BY <2>3, <2>4
<1>6. CASE /\ s.format # "unreported"
           /\ ~(s.count = 1 /\ s.format \in {"goods_only", "truck_and_goods"})
  <2>1. result = NotFound \/ result = Unreadable
    BY <1>1, <1>6 DEF Extraction, Recognize
  <2> QED BY <1>2, <2>1
<1> QED BY <1>3, <1>4, <1>5, <1>6


-----------------------------------------------------------------------------
(* Weights: the invariant *)

\* A run reads a committed photo, and an extracted weight under way is that of its goods.
RunsAreTrue ==
  \A m \in Photos : \A i \in 1 .. 2 :
    /\ run[m][i] # None => slip[m] # None
    /\ run[m][i] \in Results /\ run[m][i].status = "extracted" =>
         TrueOf(slip[m], run[m][i].kg)

\* A job is taken at most twice, and a run that was not taken holds nothing.
Taken ==
  \A m \in Photos :
    /\ slip[m] = None => job[m] = "none" /\ runs[m] = 0
    /\ job[m] = "waiting" => runs[m] < 2
    /\ job[m] = "active" => runs[m] > 0
    /\ runs[m] = 0 => run[m][1] = None
    /\ runs[m] < 2 => run[m][2] = None

\* Somebody has reported on m, or a board has heard of it.
Touched(m) ==
  weight[m].status # "pending" \/ \E d \in Dispatchers : m \in offers[d] \/ editor[d] = m

\* Until the job is run a second time, nobody works on a photo that is touched.
TouchedRests == \A m \in Photos : Touched(m) => runs[m] = 2 \/ (runs[m] = 1 /\ run[m][1] = None)

WeighInv == WeighTypeOK /\ RunsAreTrue /\ Taken /\ TouchedRests /\ WeightIsRead

RunValues == Results \cup {Reading, None}

LEMMA InitWeighInv == WeighInit => WeighInv
<1> SUFFICES ASSUME WeighInit PROVE WeighInv
  OBVIOUS
<1> USE DEF WeighInit
<1>1. WeighTypeOK
  BY WeightAssumption DEF WeighTypeOK, Statuses
<1>2. RunsAreTrue
  BY WeightAssumption DEF RunsAreTrue
<1>3. Taken /\ TouchedRests /\ WeightIsRead
  BY WeightAssumption DEF Taken, TouchedRests, Touched, WeightIsRead
<1> QED BY <1>1, <1>2, <1>3 DEF WeighInv

LEMMA StopIsTyped ==
  ASSUME WeighTypeOK, NEW m \in Photos, NEW i \in 1 .. 2, NEW end \in {"done", "failed"},
         Ends(m, i, end)
  PROVE  /\ job' \in [Photos -> {"none", "waiting", "active", "done", "failed"}]
         /\ \A n \in Photos : job'[n] = job[n] \/ (job[n] = "active" /\ job'[n] = end)
BY DEF WeighTypeOK, Ends

\* What an ending run reports: a weight of the goods, or no weight and the one there was.
LEMMA RecordedIsTrue ==
  ASSUME WeighInv, NEW m \in Photos, NEW i \in 1 .. 2,
         run[m][i] \in Results
  PROVE  LET next == Recorded(m, run[m][i]) IN
         /\ next \in [Photos -> [kg : (Nat \ {0}) \cup {None}, status : Statuses]]
         /\ \A n \in Photos : n # m => next[n] = weight[n]
         /\ next[m].status = run[m][i].status
         /\ next[m].status = "extracted" => TrueOf(slip[m], next[m].kg)
         /\ next[m].kg = None => weight[m].kg = None
<1> DEFINE result == run[m][i]
<1>1. /\ weight \in [Photos -> [kg : (Nat \ {0}) \cup {None}, status : Statuses]]
      /\ result \in Results
      /\ None \notin Nat /\ MinKg \in Nat \ {0}
  BY WeightAssumption DEF WeighInv, WeighTypeOK
<1>2. result.status \in Statuses
  BY <1>1 DEF Results, Statuses
<1>3. CASE result.status = "extracted"
  <2>1. TrueOf(slip[m], result.kg)
    BY <1>1, <1>3 DEF WeighInv, RunsAreTrue
  <2>2. result.kg \in Nat \ {0}
    BY <1>1, <2>1 DEF TrueOf
  <2>3. Recorded(m, result) = [weight EXCEPT ![m] = result]
    BY <1>3 DEF Recorded
  <2>4. result \in [kg : (Nat \ {0}) \cup {None}, status : Statuses]
    BY <1>1, <1>2, <2>2 DEF Results
  <2> HIDE DEF result
  <2> QED BY <1>1, <1>3, <2>1, <2>2, <2>3, <2>4 DEF result
<1>4. CASE result.status # "extracted"
  <2>1. Recorded(m, result) = [weight EXCEPT ![m].status = result.status]
    BY <1>4 DEF Recorded
  <2> HIDE DEF result
  <2> QED BY <1>1, <1>2, <1>4, <2>1 DEF result
<1> QED BY <1>3, <1>4


-----------------------------------------------------------------------------
(* Weights: the steps *)

LEMMA CommitKeepsWeighInv ==
  ASSUME WeighInv, NEW m \in Photos, Commit(m)
  PROVE  WeighInv'
<1> USE DEF WeighInv, Commit, board
<1>1. PICK s \in Slips : slip' = [slip EXCEPT ![m] = s]
  OBVIOUS
<1>2. s # None /\ \A n \in Photos : n # m => slip'[n] = slip[n]
  BY <1>1, WeightAssumption DEF WeighTypeOK
<1>3. slip'[m] = s /\ job'[m] = "waiting" /\ \A n \in Photos : n # m => job'[n] = job[n]
  BY <1>1 DEF WeighTypeOK
<1>4. /\ slip[m] = None /\ runs[m] = 0
      /\ \A i \in 1 .. 2 : run[m][i] = None
      /\ ~Touched(m)
  BY DEF Taken, RunsAreTrue, TouchedRests, WeighTypeOK
<1>5. WeighTypeOK'
  BY <1>1 DEF WeighTypeOK
<1>6. RunsAreTrue'
  BY <1>2, <1>4, WeightAssumption DEF RunsAreTrue, TrueOf, GoodsOf
<1>7. Taken'
  BY <1>2, <1>3, <1>4 DEF Taken
<1>8. TouchedRests'
  BY DEF TouchedRests, Touched
<1>9. WeightIsRead'
  BY <1>2, <1>4 DEF WeightIsRead, GoodsOf, Touched
<1> QED BY <1>5, <1>6, <1>7, <1>8, <1>9

LEMMA TakeKeepsWeighInv ==
  ASSUME WeighInv, NEW m \in Photos, Take(m)
  PROVE  WeighInv'
<1> USE DEF WeighInv, Take, board
<1>1. WeighTypeOK /\ runs[m] \in 0 .. 1 /\ runs[m] + 1 \in 1 .. 2
  BY DEF Taken, WeighTypeOK
<1>2. Reading \in RunValues
  BY DEF RunValues
<1>3. /\ run' \in [Photos -> [1 .. 2 -> RunValues]]
      /\ run'[m][runs[m] + 1] = Reading
      /\ \A n \in Photos : \A j \in 1 .. 2 : n # m \/ j # runs[m] + 1 => run'[n][j] = run[n][j]
  BY <1>1, <1>2 DEF WeighTypeOK, RunValues
<1>4. /\ runs'[m] = runs[m] + 1 /\ \A n \in Photos : n # m => runs'[n] = runs[n]
      /\ job'[m] = "active" /\ \A n \in Photos : n # m => job'[n] = job[n]
      /\ runs' \in [Photos -> 0 .. 2]
  BY <1>1 DEF WeighTypeOK
<1>5. WeighTypeOK'
  BY <1>3, <1>4 DEF WeighTypeOK, RunValues
<1>6. slip[m] # None /\ Reading.status # "extracted"
  BY DEF Taken, Reading
<1>7. RunsAreTrue'
  BY <1>3, <1>6 DEF RunsAreTrue
<1>8. Taken'
  <2>1. CASE runs[m] = 0
    BY <1>1, <1>3, <1>4, <1>6, <2>1 DEF Taken
  <2>2. CASE runs[m] = 1
    BY <1>1, <1>3, <1>4, <1>6, <2>2 DEF Taken
  <2> QED BY <1>1, <2>1, <2>2
<1>9. TouchedRests'
  BY <1>1, <1>3, <1>4 DEF TouchedRests, Touched
<1>10. WeightIsRead'
  BY DEF WeightIsRead, GoodsOf
<1> QED BY <1>5, <1>7, <1>8, <1>9, <1>10

\* The i-th run of m goes on to a result, or ends without one and the job may end with it.
LEMMA RunKeepsWeighInv ==
  ASSUME WeighInv, NEW m \in Photos, NEW i \in 1 .. 2, run[m][i] # None,
         NEW v \in RunValues, run' = [run EXCEPT ![m][i] = v],
         v \in Results /\ v.status = "extracted" => TrueOf(slip[m], v.kg),
         job' = job \/ \E end \in {"done", "failed"} : Ends(m, i, end),
         weight' \in [Photos -> [kg : (Nat \ {0}) \cup {None}, status : Statuses]],
         \A n \in Photos : weight'[n] = weight[n] \/ (n = m /\ v = None),
         weight'[m].status = "extracted" => weight'[m] = weight[m] \/ TrueOf(slip[m], weight'[m].kg),
         UNCHANGED <<slip, runs, offers, editor>>, troubles' \in 0 .. MaxFaults
  PROVE  WeighInv'
<1> USE DEF WeighInv
<1>1. /\ run' \in [Photos -> [1 .. 2 -> RunValues]]
      /\ run'[m][i] = v
      /\ \A n \in Photos : \A j \in 1 .. 2 : n # m \/ j # i => run'[n][j] = run[n][j]
  BY DEF WeighTypeOK, RunValues
<1>2. /\ job' \in [Photos -> {"none", "waiting", "active", "done", "failed"}]
      /\ \A n \in Photos : job'[n] = job[n] \/ (job[n] = "active" /\ job'[n] \in {"done", "failed"})
  <2>1. CASE job' = job
    BY <2>1 DEF WeighTypeOK
  <2>2. CASE \E end \in {"done", "failed"} : Ends(m, i, end)
    BY <2>2, StopIsTyped
  <2> QED BY <2>1, <2>2
<1>3. WeighTypeOK'
  BY <1>1, <1>2 DEF WeighTypeOK, RunValues
<1>4. RunsAreTrue'
  BY <1>1 DEF RunsAreTrue
<1>5. runs[m] # 0 /\ (i = 2 => runs[m] = 2)
  BY DEF Taken, WeighTypeOK
<1>6. Taken'
  <2>1. CASE i = 1
    BY <1>1, <1>2, <1>5, <2>1 DEF Taken
  <2>2. CASE i = 2
    BY <1>1, <1>2, <1>5, <2>2 DEF Taken
  <2> QED BY <2>1, <2>2
<1>7. TouchedRests'
  <2> SUFFICES ASSUME NEW n \in Photos, Touched(n)'
               PROVE  runs[n] = 2 \/ (runs[n] = 1 /\ run'[n][1] = None)
    BY DEF TouchedRests
  <2>1. CASE Touched(n) /\ n # m
    BY <1>1, <2>1 DEF TouchedRests
  <2>2. CASE n = m /\ i = 2
    BY <1>5, <2>2
  <2>3. CASE n = m /\ i = 1 /\ Touched(m)
    BY <2>3 DEF TouchedRests
  <2>4. CASE n = m /\ i = 1 /\ ~Touched(m)
    <3>1. v = None
      BY <2>4 DEF Touched
    <3>2. runs[m] \in 1 .. 2
      BY <1>5 DEF WeighTypeOK
    <3> QED BY <1>1, <2>4, <3>1, <3>2
  <2>5. Touched(n) \/ n = m
    BY DEF Touched
  <2> QED BY <2>1, <2>2, <2>3, <2>4, <2>5
<1>8. WeightIsRead'
  BY DEF WeightIsRead, TrueOf
<1> QED BY <1>3, <1>4, <1>6, <1>7, <1>8

LEMMA StallKeepsWeighInv ==
  ASSUME WeighInv, NEW m \in Photos, job[m] = "active", Stall(m),
         troubles' \in 0 .. MaxFaults
  PROVE  WeighInv'
<1> USE DEF WeighInv, Stall, board
<1>1. \A n \in Photos : n # m => job'[n] = job[n]
  BY DEF WeighTypeOK
<1>2. job'[m] = IF runs[m] = 1 THEN "waiting" ELSE "failed"
  BY DEF WeighTypeOK
<1>3. WeighTypeOK'
  BY DEF WeighTypeOK
<1>4. RunsAreTrue' /\ TouchedRests' /\ WeightIsRead'
  BY DEF RunsAreTrue, TouchedRests, Touched, WeightIsRead
<1>5. Taken'
  BY <1>1, <1>2 DEF Taken
<1> QED BY <1>3, <1>4, <1>5

LEMMA BoardKeepsWeighInv ==
  ASSUME WeighInv, NEW d \in Dispatchers,
         Refresh(d) \/ \E m \in Photos : OpenEntry(d, m)
  PROVE  WeighInv'
<1> USE DEF WeighInv
<1>1. UNCHANGED <<slip, weight, job, runs, run, troubles>>
  BY DEF Refresh, OpenEntry, work
<1>2. RunsAreTrue' /\ Taken' /\ WeightIsRead'
  BY <1>1 DEF RunsAreTrue, Taken, WeightIsRead
<1>3. CASE Refresh(d)
  <2>1. PICK shown \in Proofs :
          offers' = [offers EXCEPT ![d] = {m \in shown : NeedsEntry(m)}]
    BY <1>3 DEF Refresh
  <2>2. shown \subseteq Photos
    BY DEF Proofs, Committed
  <2>3. editor' = editor
    BY <1>3 DEF Refresh
  <2>4. WeighTypeOK'
    BY <1>1, <2>1, <2>2, <2>3 DEF WeighTypeOK
  <2>5. \A n \in Photos : Touched(n)' => Touched(n)
    BY <1>1, <2>1, <2>3 DEF Touched, NeedsEntry, WeighTypeOK
  <2> QED BY <1>1, <1>2, <2>4, <2>5 DEF TouchedRests
<1>4. CASE \E m \in Photos : OpenEntry(d, m)
  <2>1. PICK m \in Photos : OpenEntry(d, m)
    BY <1>4
  <2>2. WeighTypeOK'
    BY <1>1, <2>1 DEF WeighTypeOK, OpenEntry
  <2>3. \A n \in Photos : Touched(n)' => Touched(n)
    BY <1>1, <2>1 DEF Touched, OpenEntry, WeighTypeOK
  <2> QED BY <1>1, <1>2, <2>2, <2>3 DEF TouchedRests
<1> QED BY <1>3, <1>4

LEMMA EnterKeepsWeighInv ==
  ASSUME WeighInv, NEW d \in Dispatchers, Enter(d)
  PROVE  WeighInv'
<1> USE DEF WeighInv, Enter, work
<1> DEFINE m == editor[d]
<1>1. m \in Photos /\ Touched(m)
  BY DEF WeighTypeOK, Touched
<1>2. PICK kg \in Entries : kg > 0 /\ weight' \in {weight, Typed(m, kg)}
  BY DEF EntryIsValid
<1>3. kg \in Nat \ {0}
  BY <1>2, WeightAssumption
<1>4. /\ weight' \in [Photos -> [kg : (Nat \ {0}) \cup {None}, status : Statuses]]
      /\ \A n \in Photos : weight'[n] = weight[n] \/ (n = m /\ weight'[n].status = "manual")
  <2> HIDE DEF m
  <2> QED BY <1>1, <1>2, <1>3 DEF Typed, WeighTypeOK, Statuses
<1>5. editor' \in [Dispatchers -> Photos \cup {None}]
      /\ \A e \in Dispatchers : editor'[e] \in {editor[e], None}
  BY DEF WeighTypeOK
<1>6. WeighTypeOK'
  BY <1>4, <1>5 DEF WeighTypeOK
<1>7. \A n \in Photos : Touched(n)' => Touched(n)
  BY <1>1, <1>4, <1>5, WeightAssumption DEF Touched
<1>8. RunsAreTrue' /\ Taken'
  BY DEF RunsAreTrue, Taken
<1>9. TouchedRests'
  BY <1>7 DEF TouchedRests
<1>10. WeightIsRead'
  BY <1>4 DEF WeightIsRead
<1> QED BY <1>6, <1>8, <1>9, <1>10


LEMMA AttemptKeepsWeighInv ==
  ASSUME WeighInv, NEW m \in Photos, NEW i \in 1 .. 2,
         \/ Read(m, i) \/ ReadFails(m, i)
         \/ Report(m, i) \/ ReportFails(m, i) \/ Dies(m, i)
  PROVE  WeighInv'
<1> USE DEF board, RunValues
<1>1. WeighTypeOK /\ slip[m] \in Slips \cup {None} /\ (run[m][i] # None => slip[m] # None)
  BY DEF WeighInv, RunsAreTrue, WeighTypeOK
<1>2. None \notin Results \cup {Reading}
  BY WeightAssumption
<1>3. troubles \in 0 .. MaxFaults /\ MaxFaults \in Nat
  BY <1>1, WeightAssumption DEF WeighTypeOK
<1>4. weight \in [Photos -> [kg : (Nat \ {0}) \cup {None}, status : Statuses]]
  BY <1>1 DEF WeighTypeOK
<1>5. CASE Read(m, i)
  <2>1. PICK result \in {NotFound, Extraction(slip[m])} :
          run' = [run EXCEPT ![m][i] = result]
    BY <1>5 DEF Read
  <2>2. run[m][i] # None /\ slip[m] \in Slips
    BY <1>1, <1>2, <1>5 DEF Read
  <2>3. NotFound \in Results /\ NotFound.status # "extracted"
    BY DEF NotFound, Results, Kilos
  <2>4. result \in Results /\ (result.status = "extracted" => TrueOf(slip[m], result.kg))
    BY <2>2, <2>3, ExtractionIsTrue
  <2>5. UNCHANGED <<slip, weight, job, runs, offers, editor, troubles>>
    BY <1>5 DEF Read
  <2> QED BY <1>3, <1>4, <2>1, <2>2, <2>4, <2>5, RunKeepsWeighInv
<1>6. CASE ReadFails(m, i)
  <2>1. run[m][i] # None /\ run' = [run EXCEPT ![m][i] = None] /\ Ends(m, i, "failed")
    BY <1>2, <1>6 DEF ReadFails
  <2>2. UNCHANGED <<slip, weight, runs, offers, editor, troubles>>
    BY <1>6 DEF ReadFails
  <2> QED BY <1>2, <1>3, <1>4, <2>1, <2>2, RunKeepsWeighInv
<1>7. CASE Report(m, i) \/ ReportFails(m, i)
  <2>1. run[m][i] \in Results /\ run' = [run EXCEPT ![m][i] = None]
    BY <1>7 DEF Report, ReportFails
  <2>2. \E end \in {"done", "failed"} : Ends(m, i, end)
    BY <1>7 DEF Report, ReportFails
  <2>3. weight' \in {weight, Recorded(m, run[m][i])}
    BY <1>7 DEF Report, ReportFails
  <2>4. UNCHANGED <<slip, runs, offers, editor, troubles>>
    BY <1>7 DEF Report, ReportFails
  <2>5. /\ weight' \in [Photos -> [kg : (Nat \ {0}) \cup {None}, status : Statuses]]
        /\ \A n \in Photos : n # m => weight'[n] = weight[n]
        /\ weight'[m].status = "extracted" => weight'[m] = weight[m] \/ TrueOf(slip[m], weight'[m].kg)
    <3>1. CASE weight' = weight
      BY <1>4, <3>1
    <3>2. CASE weight' = Recorded(m, run[m][i])
      BY <2>1, <3>2, RecordedIsTrue
    <3> QED BY <2>3, <3>1, <3>2
  <2>6. /\ None \in RunValues /\ ~(None \in Results /\ None.status = "extracted")
        /\ run[m][i] # None /\ troubles' \in 0 .. MaxFaults
        /\ \A n \in Photos : weight'[n] = weight[n] \/ (n = m /\ None = None)
    BY <1>2, <1>3, <2>1, <2>4, <2>5
  <2> QED BY <2>1, <2>2, <2>4, <2>5, <2>6, RunKeepsWeighInv
<1>8. CASE Dies(m, i)
  <2>1. run[m][i] # None /\ run' = [run EXCEPT ![m][i] = None]
    BY <1>8 DEF Dies
  <2>2. UNCHANGED <<slip, weight, job, runs, offers, editor>> /\ troubles' \in 0 .. MaxFaults
    BY <1>3, <1>8 DEF Dies
  <2> QED BY <1>2, <1>4, <2>1, <2>2, RunKeepsWeighInv
<1> QED BY <1>5, <1>6, <1>7, <1>8

LEMMA WeighStep ==
  WeighInv /\ [WeighNext]_weighVars => WeighInv'
<1> SUFFICES ASSUME WeighInv, [WeighNext]_weighVars PROVE WeighInv'
  OBVIOUS
<1>1. ASSUME NEW m \in Photos, Commit(m) \/ Take(m) PROVE WeighInv'
  BY <1>1, CommitKeepsWeighInv, TakeKeepsWeighInv
<1>2. ASSUME NEW m \in Photos, StallDead(m) \/ StallAlive(m) PROVE WeighInv'
  <2>1. troubles \in 0 .. MaxFaults /\ MaxFaults \in Nat
    BY WeightAssumption DEF WeighInv, WeighTypeOK
  <2>2. job[m] = "active" /\ Stall(m) /\ troubles' \in 0 .. MaxFaults
    BY <1>2, <2>1 DEF StallDead, StallAlive
  <2> QED BY <2>2, StallKeepsWeighInv
<1>3. ASSUME NEW d \in Dispatchers,
             Refresh(d) \/ Enter(d) \/ \E m \in Photos : OpenEntry(d, m)
      PROVE  WeighInv'
  BY <1>3, BoardKeepsWeighInv, EnterKeepsWeighInv
<1>4. CASE UNCHANGED weighVars
  <2>1. UNCHANGED <<slip, weight, job, runs, run, offers, editor, troubles>>
    BY <1>4 DEF weighVars, work, board
  <2>2. WeighTypeOK'
    BY <2>1 DEF WeighInv, WeighTypeOK
  <2>3. RunsAreTrue' /\ Taken' /\ TouchedRests'
    BY <2>1 DEF WeighInv, RunsAreTrue, Taken, TouchedRests, Touched
  <2> QED BY <2>1, <2>2, <2>3 DEF WeighInv, WeightIsRead
<1> QED BY <1>1, <1>2, <1>3, <1>4, AttemptKeepsWeighInv DEF WeighNext, Attempt

\* Types, true readings and what the runs of a job hold, for any photos, slips, dispatchers and
\* typed numbers, and any number of dead and stalled workers.
THEOREM WeighInvariance == WeighSpec => []WeighInv
<1>1. WeighInit => WeighInv
  BY InitWeighInv
<1>2. WeighInv /\ [WeighNext]_weighVars => WeighInv'
  BY WeighStep
<1> QED BY <1>1, <1>2, PTL DEF WeighSpec

\* A weight called extracted is what the slip says of the goods, within the bounds, whichever
\* run reported it and whatever was reported or typed before.
THEOREM WeightsAreRead == WeighSpec => []WeightIsRead
<1>1. WeighInv => WeightIsRead
  BY DEF WeighInv
<1> QED BY <1>1, WeighInvariance, PTL

\* A report comes from a run that holds a result, and on a photo that is touched from the second.
LEMMA ManualStep ==
  WeighInv /\ [WeighNext]_weighVars =>
    [\A m \in Photos :
       /\ weight[m].status = "manual" /\ weight'[m].status # "manual" => runs[m] = 2
       /\ weight[m].kg # None => weight'[m].kg # None]_weighVars
<1> SUFFICES ASSUME WeighInv, WeighNext, NEW m \in Photos
             PROVE  /\ weight[m].status = "manual" /\ weight'[m].status # "manual" => runs[m] = 2
                    /\ weight[m].kg # None => weight'[m].kg # None
  OBVIOUS
<1>1. CASE weight' = weight
  BY <1>1
<1>2. ASSUME NEW n \in Photos, NEW i \in 1 .. 2, Report(n, i) \/ ReportFails(n, i)
      PROVE  /\ weight[m].status = "manual" /\ weight'[m].status # "manual" => runs[m] = 2
             /\ weight[m].kg # None => weight'[m].kg # None
  <2>1. run[n][i] \in Results /\ weight' \in {weight, Recorded(n, run[n][i])}
    BY <1>2 DEF Report, ReportFails
  <2>2. run[n][i] # None
    BY <2>1, WeightAssumption
  <2>3. Touched(n) => runs[n] = 2
    BY <2>2 DEF WeighInv, TouchedRests, Taken
  <2>4. weight[m].status = "manual" => Touched(m)
    BY DEF Touched
  <2>5. weight' = weight \/ weight' = Recorded(n, run[n][i])
    BY <2>1
  <2>6. CASE weight' = Recorded(n, run[n][i])
    <3>1. \A o \in Photos : o # n => weight'[o] = weight[o]
      BY <2>1, <2>6, RecordedIsTrue
    <3>2. weight'[n].kg = None => weight[n].kg = None
      BY <2>1, <2>6, RecordedIsTrue
    <3> QED BY <2>3, <2>4, <3>1, <3>2
  <2> QED BY <2>5, <2>6
<1>3. ASSUME NEW d \in Dispatchers, Enter(d)
      PROVE  /\ weight[m].status = "manual" /\ weight'[m].status # "manual" => runs[m] = 2
             /\ weight[m].kg # None => weight'[m].kg # None
  <2> DEFINE n == editor[d]
  <2>1. PICK kg \in Entries : weight' \in {weight, Typed(n, kg)}
    BY <1>3 DEF Enter
  <2>2. n \in Photos
    BY <1>3 DEF Enter, WeighInv, WeighTypeOK
  <2>3. kg \in Nat /\ None \notin Nat
    BY WeightAssumption
  <2>4. weight \in [Photos -> [kg : (Nat \ {0}) \cup {None}, status : Statuses]]
    BY DEF WeighInv, WeighTypeOK
  <2> HIDE DEF n
  <2> QED BY <2>1, <2>2, <2>3, <2>4 DEF Typed
<1>4. \/ weight' = weight
      \/ \E n \in Photos, i \in 1 .. 2 : Report(n, i) \/ ReportFails(n, i)
      \/ \E d \in Dispatchers : Enter(d)
  BY DEF WeighNext, Attempt, Commit, Take, Read, ReadFails,
     Dies, StallDead, StallAlive, Stall, Refresh, OpenEntry
<1> QED BY <1>1, <1>2, <1>3, <1>4

\* The machine takes back what a dispatcher typed only in the second run of a job, and nothing
\* ever takes the last weight of a photo away.
THEOREM ManualWeightsHold == WeighSpec => ManualHolds
<1>1. WeighInv /\ [WeighNext]_weighVars =>
        [\A m \in Photos :
           /\ weight[m].status = "manual" /\ weight'[m].status # "manual" => runs[m] = 2
           /\ weight[m].kg # None => weight'[m].kg # None]_weighVars
  BY ManualStep
<1> QED BY <1>1, WeighInvariance, PTL DEF WeighSpec, ManualHolds
=============================================================================
