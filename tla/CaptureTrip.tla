----------------------------- MODULE CaptureTrip -----------------------------
(***************************************************************************)
(* A driver's phone on one run: the list of assignments, the capture       *)
(* screen of a stop, uploads that go on after the screen is left, and the  *)
(* lifecycle intent each finished upload fires (apps/driver-app).  "The    *)
(* photo IS the signal": there is no button for accept, start or complete. *)
(*                                                                         *)
(* The api is as the phone sees it: transitions, intake and cancel commit  *)
(* at once.  How they interleave is RunLifecycle's subject.                *)
(***************************************************************************)
EXTENDS Naturals, Sequences, FiniteSets

CONSTANTS
  TripStops,   \* stops of the run's order
  MaxUploads,  \* bound on the uploads
  MaxFaults,   \* bound on lost requests, lost answers and restarts of the app
  None

VARIABLES
  roadRun,   \* road_run.state
  manifest,  \* manifest[m]: manifest.state, and its stop
  list,      \* state of the run in the cached list, or "absent"
  screen,    \* the capture screen, or None
  upload,    \* upload[m]: the request the upload waits for
  walk,      \* walk[m]: lifecycle requests the upload of m has left
  mishaps

phone == <<list, screen, upload, walk>>
tripVars == <<roadRun, manifest, phone, mishaps>>

\* Manifests, one per upload: each upload has a new correlation id.
Manifests == 1 .. MaxUploads

Ladder == <<"planned", "dispatched", "started", "completed">>
TripStates == {Ladder[i] : i \in 1 .. 4} \cup {"cancelled"}
Over == {"completed", "cancelled"}
Kinds == {"accept", "start", "complete"}

Waiting == [at : {"negotiate", "put", "commit"}, state : TripStates \ Over, mine : BOOLEAN]
Screens == [stop : TripStops, state : TripStates \ Over, camera : BOOLEAN, sent : SUBSET Manifests,
            phase : {"idle", "spooled", "uploading", "done", "error"}]

ASSUME TripAssumption ==
  /\ IsFiniteSet(TripStops) /\ Cardinality(TripStops) >= 2
  /\ None \notin TripStops \cup Waiting \cup Screens \cup {"put", "commit"}
  /\ MaxUploads \in Nat /\ MaxFaults \in Nat

TripTypeOK ==
  /\ roadRun \in TripStates
  /\ manifest \in [Manifests -> [state : {"none", "pending", "verifying", "committed", "rejected"},
                           stop : TripStops \cup {None}]]
  /\ list \in (TripStates \ Over) \cup {"absent"}
  /\ screen \in Screens \cup {None}
  /\ upload \in [Manifests -> Waiting \cup {None}]
  /\ walk \in [Manifests -> [walking : BOOLEAN, steps : Seq(Kinds)]]
  /\ mishaps \in 0 .. MaxFaults

Still == [walking |-> FALSE, steps |-> <<>>]

TripInit ==
  /\ roadRun = "planned"
  /\ manifest = [m \in Manifests |-> [state |-> "none", stop |-> None]]
  /\ list = "absent" /\ screen = None
  /\ upload = [m \in Manifests |-> None]
  /\ walk = [m \in Manifests |-> Still]
  /\ mishaps = 0

Mishap == mishaps < MaxFaults /\ mishaps' = mishaps + 1

Arrived == {m \in Manifests : manifest[m].state \in {"verifying", "committed", "rejected"}}
Accepted == {m \in Manifests : manifest[m].state = "committed"}

-----------------------------------------------------------------------------
(* The list and the capture screen *)

\* listAssigned: active runs only.
Listed(s) == IF s \in Over THEN "absent" ELSE s

Refetch ==
  /\ list' = Listed(roadRun)
  /\ UNCHANGED <<roadRun, manifest, screen, upload, walk, mishaps>>

\* Stops whose departed_at is not set: nothing writes that column.
Remaining == Cardinality(TripStops)

\* Tapping a stop opens its screen with the state the list shows.
OpenScreen(s) ==
  /\ screen = None /\ list # "absent"
  /\ screen' = [stop |-> s, state |-> list, camera |-> FALSE, sent |-> {}, phase |-> "idle"]
  /\ UNCHANGED <<roadRun, manifest, list, upload, walk, mishaps>>

\* Mutant of Forget: an upload dispatches to whatever screen is open.
ForgetNothing == upload

\* What an upload of a screen that is gone dispatches goes nowhere.
Forget == [m \in Manifests |-> IF upload[m] = None THEN None ELSE [upload[m] EXCEPT !.mine = FALSE]]

LeaveScreen ==
  /\ screen # None
  /\ screen' = None
  /\ upload' = Forget
  /\ UNCHANGED <<roadRun, manifest, list, walk, mishaps>>

\* The capture button of an idle screen, or of one that has a photo.
TakePhoto ==
  /\ screen # None /\ screen.phase \in {"idle", "spooled"} /\ ~screen.camera
  /\ screen' = [screen EXCEPT !.camera = TRUE]
  /\ UNCHANGED <<roadRun, manifest, list, upload, walk, mishaps>>

\* PICKED is dispatched once the file is read, whatever the screen has become by then;
\* a denied permission or a file that is refused is an error.
CameraReturns ==
  /\ screen # None /\ screen.camera
  /\ \E phase \in {"spooled", "error", screen.phase} :
       screen' = [screen EXCEPT !.camera = FALSE, !.phase = phase]
  /\ UNCHANGED <<roadRun, manifest, list, upload, walk, mishaps>>

\* The upload button: the manifest of this attempt is a new one.
StartUpload(m) ==
  /\ screen # None /\ screen.phase = "spooled"
  /\ m = Cardinality({n \in Manifests : manifest[n].stop # None}) + 1
  /\ screen' = [screen EXCEPT !.phase = "uploading", !.sent = @ \cup {m}]
  /\ manifest' = [manifest EXCEPT ![m].stop = screen.stop]
  /\ upload' = [upload EXCEPT ![m] = [at |-> "negotiate", state |-> screen.state, mine |-> TRUE]]
  /\ UNCHANGED <<roadRun, list, walk, mishaps>>

\* reduceCapture: an upload that ends moves a screen that is uploading, and no other.
Ended(m, phase) ==
  IF upload[m].mine /\ screen # None /\ screen.phase = "uploading"
  THEN [screen EXCEPT !.phase = phase] ELSE screen

-----------------------------------------------------------------------------
(* Uploads *)

\* captureProgressIntent: what a finished upload asks for, or None.
Intent(seen, remaining) ==
  IF remaining = 1 THEN "complete"
  ELSE IF seen \in {"planned", "dispatched"} THEN "start" ELSE None

Fired(m) ==
  LET kind == Intent(upload[m].state, Remaining)
  IN  IF kind = None THEN Still ELSE [walking |-> FALSE, steps |-> <<kind>>]

\* What the request the upload waits for does to the manifest.
Handled(m) ==
  CASE upload[m].at = "negotiate" -> [manifest EXCEPT ![m].state = "pending"]
    [] upload[m].at = "put" -> manifest
    [] upload[m].at = "commit" -> [manifest EXCEPT ![m].state = "verifying"]

NextRequest(at) ==
  CASE at = "negotiate" -> "put" [] at = "put" -> "commit" [] at = "commit" -> None

\* negotiateAndUploadManifest: a request is answered and the next one sent, or the upload
\* is over and fires its intent.
UploadAdvances(m) ==
  LET next == NextRequest(upload[m].at) IN
  /\ upload[m] # None
  /\ manifest' = Handled(m)
  /\ \/ /\ next # None
        /\ upload' = [upload EXCEPT ![m].at = next]
        /\ UNCHANGED <<screen, walk>>
     \/ /\ next = None
        /\ upload' = [upload EXCEPT ![m] = None]
        /\ screen' = Ended(m, "done")
        /\ walk' = [walk EXCEPT ![m] = Fired(m)]
  /\ UNCHANGED <<roadRun, list, mishaps>>

\* A request or its answer is lost: the upload is over, whether the api handled it or not.
UploadFails(m) ==
  /\ upload[m] # None
  /\ Mishap
  /\ manifest' \in {manifest, Handled(m)}
  /\ upload' = [upload EXCEPT ![m] = None]
  /\ screen' = Ended(m, "error")
  /\ UNCHANGED <<roadRun, list, walk>>

-----------------------------------------------------------------------------
(* Lifecycle intents *)

Rung(s) == CHOOSE i \in 1 .. 4 : Ladder[i] = s
ActionFrom == <<"accept", "start", "complete">>
Target(kind) == Ladder[1 + CHOOSE i \in 1 .. 3 : ActionFrom[i] = kind]

\* Mutant of TripIsDelivered: one photo more than there are stops.
TripIsOverDelivered(committed) == Cardinality(committed) > Cardinality(TripStops)

TripIsDelivered(committed) == Cardinality(committed) >= Cardinality(TripStops)

\* transition: the next rung, and for complete the photos.
Allowed(kind) == roadRun \notin Over /\ Rung(Target(kind)) = Rung(roadRun) + 1
Gate(kind) == kind = "complete" => TripIsDelivered(Accepted)
Drives(kind) == roadRun' = IF Allowed(kind) /\ Gate(kind) THEN Target(kind) ELSE roadRun

\* Mutant of PlanRecovery: the rung the run stands on is skipped.
PlanSkips(kind) ==
  IF roadRun = "cancelled" \/ Rung(roadRun) >= Rung(Target(kind)) THEN <<>>
  ELSE SubSeq(ActionFrom, Rung(roadRun) + 1, Rung(Target(kind)) - 1)

\* planRecovery: the actions that lead from the state the 409 names to the target.
PlanRecovery(kind) ==
  IF roadRun = "cancelled" \/ Rung(roadRun) >= Rung(Target(kind)) THEN <<>>
  ELSE SubSeq(ActionFrom, Rung(roadRun), Rung(Target(kind)) - 1)

\* The forgiving mutation: a refusal is recovered from once, and not while walking.
Walk(m) ==
  LET kind == Head(walk[m].steps)  refused == ~Allowed(kind) IN
  /\ walk[m].steps # <<>>
  /\ Drives(kind)
  /\ walk' = [walk EXCEPT ![m] =
       IF refused /\ ~walk[m].walking THEN [walking |-> TRUE, steps |-> PlanRecovery(kind)]
       ELSE IF refused \/ ~Gate(kind) THEN Still
       ELSE [walk[m] EXCEPT !.steps = Tail(@)]]
  /\ UNCHANGED <<manifest, list, screen, upload, mishaps>>

\* Any other error is swallowed.
WalkFails(m) ==
  /\ walk[m].steps # <<>>
  /\ Mishap
  /\ roadRun' = roadRun \/ Drives(Head(walk[m].steps))
  /\ walk' = [walk EXCEPT ![m] = Still]
  /\ UNCHANGED <<manifest, list, screen, upload>>

\* The app ends: its uploads, its requests and its cache are gone.
Kill ==
  /\ Mishap
  /\ list' = "absent" /\ screen' = None
  /\ upload' = [m \in Manifests |-> None]
  /\ walk' = [m \in Manifests |-> Still]
  /\ UNCHANGED <<roadRun, manifest>>

-----------------------------------------------------------------------------
(* The api *)

\* finalizeIntake, and completeRunIfDelivered in its transaction.
Intake(m) ==
  /\ manifest[m].state = "verifying"
  /\ manifest' = [manifest EXCEPT ![m].state = "committed"]
  /\ roadRun' = IF roadRun \notin Over /\ TripIsDelivered(Accepted \cup {m})
                  THEN "completed" ELSE roadRun
  /\ UNCHANGED <<phone, mishaps>>

RejectManifest(m) ==
  /\ manifest[m].state = "verifying"
  /\ manifest' = [manifest EXCEPT ![m].state = "rejected"]
  /\ UNCHANGED <<roadRun, phone, mishaps>>

\* cancel: refused once a photo is received and not rejected.
Cancel ==
  /\ roadRun # "cancelled"
  /\ \A m \in Manifests : manifest[m].state \notin {"verifying", "committed"}
  /\ roadRun' = "cancelled"
  /\ UNCHANGED <<manifest, phone, mishaps>>

-----------------------------------------------------------------------------
Driver ==
  \/ \E s \in TripStops : OpenScreen(s)
  \/ LeaveScreen \/ TakePhoto \/ CameraReturns
  \/ \E m \in Manifests : StartUpload(m)

App ==
  \/ Refetch \/ Kill
  \/ \E m \in Manifests : UploadAdvances(m) \/ UploadFails(m) \/ Walk(m) \/ WalkFails(m)

Api == Cancel \/ \E m \in Manifests : Intake(m) \/ RejectManifest(m)

TripNext == Driver \/ App \/ Api

\* Requests are answered while the app runs, and the intake worker takes each photo.
TripFairness ==
  \A m \in Manifests :
    /\ WF_tripVars(UploadAdvances(m)) /\ WF_tripVars(Walk(m))
    /\ WF_tripVars(Intake(m) \/ RejectManifest(m))

TripSpec == TripInit /\ [][TripNext]_tripVars /\ TripFairness

-----------------------------------------------------------------------------
(* Properties *)

\* The screen says done only if a photo of its stop has reached the api, however many photos
\* were taken on it and whichever of their uploads ended first (reduceCapture).
DoneIsReceived ==
  screen # None /\ screen.phase = "done" =>
    \E m \in screen.sent \cap Arrived : manifest[m].stop = screen.stop

\* A walk that nothing cuts short takes the run to its target, or finds it cancelled, even if
\* other walks of the same phone take some of its steps.
WalkArrives ==
  \A m \in Manifests :
    walk[m].steps # <<>> ~> roadRun \in {"started", "completed", "cancelled"} \/ mishaps > 0

Photographed == \A s \in TripStops : \E m \in Arrived : manifest[m].stop = s

\* A run whose stops are all photographed ends, although the phone never asks for it.
PhotographedEnds ==
  Photographed ~> roadRun \in Over \/ \E m \in Manifests : manifest[m].state = "rejected"
=============================================================================
