---------------------------- MODULE PhotoOutcome ----------------------------
(***************************************************************************)
(* What the intake promises for each photo, without jobs, callbacks or     *)
(* retries: a file is stored once, and one upload session of the photo     *)
(* decides, from what is stored.  The invoice is requested in the step     *)
(* that commits.  A decision is never taken back or taken twice.           *)
(***************************************************************************)
EXTENDS Naturals

CONSTANTS Sessions, Manifests, ManifestOf

VARIABLES
  file,     \* file[m]: what is stored
  outcome,  \* outcome[m]
  verdict,  \* verdict[s]: what session s decided
  invoices  \* invoices[m]: requests for the invoice

photoVars == <<file, outcome, verdict, invoices>>

Init ==
  /\ file = [m \in Manifests |-> "absent"]
  /\ outcome = [m \in Manifests |-> "open"]
  /\ verdict = [s \in Sessions |-> "open"]
  /\ invoices = [m \in Manifests |-> 0]

Store(m) ==
  /\ file[m] = "absent"
  /\ \E f \in {"sound", "unsound"} : file' = [file EXCEPT ![m] = f]
  /\ UNCHANGED <<outcome, verdict, invoices>>

\* Session s takes the decision `end' for its photo.
Decide(s, end) ==
  LET m == ManifestOf[s] IN
  /\ outcome[m] = "open" /\ verdict[s] = "open"
  /\ outcome' = [outcome EXCEPT ![m] = end]
  /\ verdict' = [verdict EXCEPT ![s] = end]
  /\ UNCHANGED file

Commit(s) ==
  /\ file[ManifestOf[s]] = "sound" /\ Decide(s, "committed")
  /\ invoices' = [invoices EXCEPT ![ManifestOf[s]] = @ + 1]

Reject(s) ==
  /\ file[ManifestOf[s]] = "unsound" /\ Decide(s, "rejected")
  /\ UNCHANGED invoices

Next ==
  \/ \E m \in Manifests : Store(m)
  \/ \E s \in Sessions : Commit(s) \/ Reject(s)

Spec == Init /\ [][Next]_photoVars
=============================================================================
