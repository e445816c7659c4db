------------------------- MODULE RunLifecycleProofs -------------------------
(***************************************************************************)
(* A completed run always has as many committed photos as it has stops,    *)
(* for any number of transactions, photos, stops and cancellation reasons; *)
(* and what the capture screen of the phone calls done is received         *)
(* (CaptureTrip), for any number of stops, photos, uploads and faults.     *)
(*                                                                         *)
(* A transaction that will complete the run has only a count it made       *)
(* earlier, so the invariant carries every such promise: what was counted  *)
(* still holds when it is acted on, because committed photos only grow,    *)
(* and the photo a callback counted ahead of its own commit is locked.     *)
(*                                                                         *)
(* A screen is done by the answer of an upload, which the invariant        *)
(* connects with the photo it is of: an upload past its commit has a photo *)
(* the api has received, whichever screen began it.                        *)
(***************************************************************************)
EXTENDS RunLifecycle, CaptureTrip, SequenceTheorems, FiniteSetTheorems, TLAPS

Enough(photos) == Cardinality(photos) >= Cardinality(Stops)

\* What transaction t has decided is still justified.
Justified(t) ==
  /\ txn[t].op = "drive" /\ txn[t].to = "completed" => Enough(Committed)
  /\ txn[t].op = "reconcile" => Enough(Committed)
  /\ txn[t].op = "finalize" =>
       /\ photo[txn[t].photo] = "verifying"
       /\ txn[t].delivered => Enough(Committed \cup {txn[t].photo})

\* At most one callback holds the lock of a photo.
PhotoLocks ==
  \A t, u \in Txns :
    /\ txn[t].op = "finalize" /\ txn[u].op = "finalize" 
    /\ txn[t].photo = txn[u].photo
    => t = u

IInv ==
  /\ TypeOK
  /\ PhotoLocks
  /\ \A t \in Txns : Justified(t)
  /\ run = "completed" => Enough(Committed)

-----------------------------------------------------------------------------
\* Photos that are only added never make a count too small.
LEMMA EnoughGrows ==
  ASSUME NEW P \in SUBSET Photos, NEW Q \in SUBSET Photos, P \subseteq Q, Enough(P)
  PROVE  Enough(Q)
<1>1. IsFiniteSet(Q)
  BY LifecycleAssumption, FS_Subset
<1>2. Cardinality(P) <= Cardinality(Q) /\ IsFiniteSet(P)
  BY <1>1, FS_Subset
<1>3. Cardinality(P) \in Nat /\ Cardinality(Q) \in Nat /\ Cardinality(Stops) \in Nat
  BY <1>1, <1>2, LifecycleAssumption, FS_CardinalityType
<1> QED
  BY <1>2, <1>3 DEF Enough

LEMMA InitIInv == Init => IInv
  BY DEF Init, IInv, TypeOK, PhotoLocks, Justified, Idle, TxnStates, RunStates, PhotoStates

\* A transaction that is not the acting one keeps its record.
LEMMA OthersKeep ==
  ASSUME TypeOK, NEW t \in Txns, NEW x, txn' = [txn EXCEPT ![t] = x]
  PROVE  /\ txn'[t] = x
         /\ \A u \in Txns : u # t => txn'[u] = txn[u]
  BY DEF TypeOK

\* A step that leaves the photos and the run alone, and whose transaction ends or
\* begins with a justified intent, keeps the invariant.
LEMMA ReadStep ==
  ASSUME IInv, NEW t \in Txns, NEW x \in TxnStates,
         Begin(t, x), UNCHANGED <<order, reason, byWhom, run, photo>>,
         x.op = "drive" /\ x.to = "completed" => Enough(Committed),
         x.op = "reconcile" => Enough(Committed),
         x.op = "finalize" =>
           /\ photo[x.photo] = "verifying"
           /\ x.delivered => Enough(Committed \cup {x.photo})
           /\ \A u \in Txns : txn[u].op = "finalize" => txn[u].photo # x.photo
  PROVE  IInv'
<1>1. TypeOK'
  BY DEF IInv, TypeOK, Begin
<1>2. txn'[t] = x /\ \A u \in Txns : u # t => txn'[u] = txn[u]
  BY OthersKeep DEF IInv, Begin
<1>3. Committed' = Committed
  BY DEF Committed
<1>4. PhotoLocks'
  BY <1>2 DEF IInv, PhotoLocks
<1>5. \A u \in Txns : Justified(u)'
  BY <1>2, <1>3 DEF IInv, Justified, Enough
<1> QED
  BY <1>1, <1>3, <1>4, <1>5 DEF IInv, Enough

\* A step that begins nothing keeps every promise if committed
\* photos only grow and no photo another callback holds changes.
LEMMA WriteStep ==
  ASSUME IInv, TypeOK',
         \A u \in Txns : txn'[u] = Idle \/ txn'[u] = txn[u],
         Committed \subseteq Committed',
         \A u \in Txns : txn'[u].op = "finalize" => photo'[txn'[u].photo] = "verifying",
         run' = "completed" => Enough(Committed)'
  PROVE  IInv'
<1>1. PhotoLocks'
  BY DEF IInv, PhotoLocks, Idle
<1>2. ASSUME NEW P \in SUBSET Photos, Enough(Committed \cup P)
      PROVE  Enough(Committed \cup P)'
  <2>1. Enough(Committed' \cup P)
    BY <1>2, EnoughGrows DEF Committed
  <2> QED
    BY <2>1 DEF Enough
<1>3. ASSUME NEW u \in Txns PROVE Justified(u)'
  <2>1. CASE txn'[u] = Idle
    BY <2>1 DEF Justified, Idle
  <2>2. CASE txn'[u] = txn[u]
    <3>1. txn'[u] = txn[u] /\ Justified(u)
      BY <2>2 DEF IInv
    <3>2. Enough(Committed) => Enough(Committed)'
      BY EnoughGrows DEF Committed, Enough
    <3>3. txn[u].op = "finalize" =>
            photo'[txn[u].photo] = "verifying" /\ txn[u].photo \in Photos
      BY <2>2, <3>1 DEF IInv, TypeOK, TxnStates, Idle
    <3>4. txn[u].op = "finalize" /\ txn[u].delivered =>
            Enough(Committed' \cup {txn[u].photo})
      BY <1>2, <3>1, <3>3 DEF Justified, Enough
    <3> QED
      BY <3>1, <3>2, <3>3, <3>4 DEF Justified, Enough
  <2> QED
    BY <2>1, <2>2
<1> QED
  BY <1>1, <1>3 DEF IInv

-----------------------------------------------------------------------------
(* One lemma per kind of step *)

\* What the type says of a transaction by its operation.
LEMMA TxnShape ==
  ASSUME TypeOK, NEW t \in Txns
  PROVE  /\ txn[t] \in TxnStates
         /\ txn[t].op = "drive" => txn[t].to \in RunStates
         /\ txn[t].op \in {"cancel", "recancel"} => txn[t].why \in Reasons
         /\ txn[t].op = "finalize" => txn[t].photo \in Photos /\ txn[t].delivered \in BOOLEAN
  BY DEF TypeOK, TxnStates, Idle

LEMMA ReadsKeep ==
  ASSUME IInv, NEW t \in Txns, Reads(t)
  PROVE  IInv'
<1>1. CASE DriveReads(t)
  <2>1. PICK to \in {"dispatched", "started", "completed"} :
          /\ to = "completed" => AssertAllManifestsCommitted(Committed)
          /\ Begin(t, [op |-> "drive", from |-> run, to |-> to])
          /\ UNCHANGED <<order, reason, byWhom, run, photo>>
    BY <1>1 DEF DriveReads
  <2>2. [op |-> "drive", from |-> run, to |-> to] \in TxnStates
    BY DEF TxnStates, RunStates, IInv, TypeOK
  <2>3. to = "completed" => Enough(Committed)
    BY <2>1 DEF AssertAllManifestsCommitted, Enough
  <2> QED
    BY <2>1, <2>2, <2>3, ReadStep
<1>2. CASE CancelReads(t)
  <2>1. PICK x \in TxnStates : x.op \in {"cancel", "recancel"} /\ Begin(t, x)
    BY <1>2 DEF CancelReads, TxnStates
  <2> QED
    BY <1>2, <2>1, ReadStep DEF CancelReads
<1>3. CASE SoftDeleteReads(t)
  <2>1. [op |-> "softDelete"] \in TxnStates
    BY DEF TxnStates
  <2> QED
    BY <1>3, <2>1, ReadStep DEF SoftDeleteReads
<1>4. ASSUME NEW m \in Photos, FinalizeReads(t, m) PROVE IInv'
  <2> DEFINE x == [op |-> "finalize", photo |-> m, delivered |-> RunIsDelivered(Committed \cup {m})]
  <2>1. x \in TxnStates
    BY DEF TxnStates, RunIsDelivered
  <2>2. x.delivered => Enough(Committed \cup {m})
    BY DEF RunIsDelivered, Enough
  <2> QED
    BY <1>4, <2>1, <2>2, ReadStep DEF FinalizeReads
<1>5. CASE ReconcileReads(t)
  <2>1. [op |-> "reconcile"] \in TxnStates /\ Enough(Committed)
    BY <1>5 DEF ReconcileReads, Stranded, RunIsDelivered, Enough, TxnStates
  <2> QED
    BY <1>5, <2>1, ReadStep DEF ReconcileReads
<1>6. CASE GhostReads(t)
  <2>1. [op |-> "ghost"] \in TxnStates
    BY DEF TxnStates
  <2> QED
    BY <1>6, <2>1, ReadStep DEF GhostReads
<1> QED
  BY <1>1, <1>2, <1>3, <1>4, <1>5, <1>6 DEF Reads

\* Ending t leaves the other records alone.
LEMMA EndStep ==
  ASSUME TypeOK, NEW t \in Txns, End(t)
  PROVE  /\ txn'[t] = Idle
         /\ \A u \in Txns \ {t} : txn'[u] = txn[u]
         /\ txn' \in [Txns -> TxnStates]
  BY DEF TypeOK, End, TxnStates

\* A transaction that writes the order or the run, and no photo.
LEMMA RunWriteKeeps ==
  ASSUME IInv, NEW t \in Txns, End(t), UNCHANGED photo,
         order' \in {"draft", "cancelled"},
         reason' \in Reasons \cup {"none", "soft_deleted"},
         byWhom' \in {"none", "dispatcher"},
         run' \in RunStates,
         run' = "completed" => Enough(Committed)
  PROVE  IInv'
<1>1. Committed' = Committed
  BY DEF Committed
<1>2. TypeOK'
  BY EndStep DEF IInv, TypeOK
<1>3. \A u \in Txns : txn'[u].op = "finalize" => photo'[txn'[u].photo] = "verifying"
  <2>1. ASSUME NEW u \in Txns PROVE txn'[u] = Idle \/ txn'[u] = txn[u]
    BY EndStep DEF IInv
  <2>2. \A u \in Txns : txn[u].op = "finalize" => photo[txn[u].photo] = "verifying"
    BY DEF IInv, Justified
  <2> QED
    BY <2>1, <2>2 DEF Idle
<1>4. Enough(Committed) => Enough(Committed)'
  BY <1>1 DEF Enough
<1> QED
  <2>1. \A u \in Txns : txn'[u] = Idle \/ txn'[u] = txn[u]
    BY EndStep DEF IInv
  <2>2. Committed \subseteq Committed' /\ (run' = "completed" => Enough(Committed)')
    BY <1>1, <1>4
  <2> QED
    BY <1>2, <1>3, <2>1, <2>2, WriteStep

LEMMA WritesKeep ==
  ASSUME IInv, NEW t \in Txns, Writes(t)
  PROVE  IInv'
<1> USE DEF RunStates
<1>1. CASE DriveWrites(t)
  BY <1>1, TxnShape, RunWriteKeeps DEF DriveWrites, IInv, Justified, TypeOK
<1>2. CASE CancelWrites(t)
  BY <1>2, TxnShape, RunWriteKeeps DEF CancelWrites, IInv, TypeOK
<1>3. CASE SoftDeleteWrites(t)
  BY <1>3, RunWriteKeeps DEF SoftDeleteWrites, IInv, TypeOK
<1>4. CASE FinalizeWrites(t)
  <2> DEFINE m == txn[t].photo
  <2>1. m \in Photos /\ txn[t].op = "finalize" /\ Justified(t) /\ End(t)
    BY <1>4, TxnShape DEF FinalizeWrites, IInv
  <2>2. photo' = [photo EXCEPT ![m] = "committed"]
    BY <1>4 DEF FinalizeWrites, AcceptedState
  <2>3. Committed' = Committed \cup {m}
    BY <2>1, <2>2 DEF Committed, IInv, TypeOK
  <2>4. TypeOK'
    BY <1>4, <2>1, <2>2, EndStep DEF FinalizeWrites, IInv, TypeOK, PhotoStates
  <2>5. \A u \in Txns : txn'[u].op = "finalize" => photo'[txn'[u].photo] = "verifying"
    <3>1. \A u \in Txns \ {t} : txn[u].op = "finalize" =>
             txn[u].photo # m /\ photo'[txn[u].photo] = "verifying"
      BY <2>1, <2>2, TxnShape DEF IInv, PhotoLocks, Justified, TypeOK
    <3> QED
      BY <2>1, <3>1, EndStep DEF IInv, Idle
  <2>6. run' = "completed" => Enough(Committed \cup {m})
    <3>1. run = "completed" => Enough(Committed \cup {m})
      BY <2>1, EnoughGrows DEF IInv, Committed
    <3> QED
      BY <1>4, <2>1, <3>1 DEF FinalizeWrites, Justified
  <2>7. Enough(Committed \cup {m}) => Enough(Committed)'
    BY <2>3 DEF Enough
  <2> QED
    <3>1. \A u \in Txns : txn'[u] = Idle \/ txn'[u] = txn[u]
      BY <2>1, EndStep DEF IInv
    <3>2. Committed \subseteq Committed' /\ (run' = "completed" => Enough(Committed)')
      BY <2>3, <2>6, <2>7
    <3> QED
      BY <2>4, <2>5, <3>1, <3>2, WriteStep
<1>5. CASE ReconcileWrites(t)
  BY <1>5, RunWriteKeeps DEF ReconcileWrites, IInv, Justified, TypeOK
<1>6. CASE GhostWrites(t)
  BY <1>6, RunWriteKeeps DEF GhostWrites, IInv, TypeOK
<1> QED
  BY <1>1, <1>2, <1>3, <1>4, <1>5, <1>6 DEF Writes

\* Negotiation, upload and rejection: no transaction ends, no lock is broken.
LEMMA PhotoStepsKeep ==
  ASSUME IInv, NEW m \in Photos, Negotiate(m) \/ Upload(m) \/ Reject(m)
  PROVE  IInv'
<1>1. TypeOK' /\ UNCHANGED <<run, txn>>
  BY DEF Negotiate, Upload, Reject, IInv, TypeOK, PhotoStates
<1>2. Committed' = Committed
  BY DEF Negotiate, Upload, Reject, IInv, TypeOK, Committed
<1>3. \A u \in Txns : txn'[u].op = "finalize" => photo'[txn'[u].photo] = "verifying"
  BY <1>1, TxnShape DEF Negotiate, Upload, Reject, IInv, TypeOK, Justified
<1>4. \A u \in Txns : txn'[u] = Idle \/ txn'[u] = txn[u]
  BY <1>1
<1>5. run' = "completed" => Enough(Committed)'
  BY <1>1, <1>2 DEF IInv, Enough
<1> QED
  BY <1>1, <1>2, <1>3, <1>4, <1>5, WriteStep

LEMMA StutterKeeps == ASSUME IInv, UNCHANGED vars PROVE IInv'
<1>1. Committed' = Committed
  BY DEF vars, Committed
<1> QED
  BY <1>1 DEF vars, IInv, TypeOK, PhotoLocks, Justified, Enough

-----------------------------------------------------------------------------
\* The strengthened invariant holds in every state.
THEOREM LifecycleInvariance == Spec => []IInv
<1>1. IInv /\ [Next]_vars => IInv'
  BY ReadsKeep, WritesKeep, PhotoStepsKeep, StutterKeeps DEF Next
<1> QED
  BY InitIInv, <1>1, PTL DEF Spec

\* A run that is completed has a committed photo for each of its stops' count,
\* whoever completed it and however long ago it was counted.
THEOREM CompletionIsSound == Spec => []CompletedIsDelivered
<1>1. IInv => CompletedIsDelivered
  BY DEF IInv, CompletedIsDelivered, CountsMatch, Enough
<1> QED
  BY <1>1, LifecycleInvariance, PTL

\* The guarded writers, that is the reconciler, the ghost repair and the intake
\* callback, never take a run out of a terminal state.
THEOREM GuardedWritersRespectTerminal == Spec => OnlyStaleDrivesRevive
<1>1. ASSUME IInv, [Next]_vars
      PROVE  [(run \in Terminal) /\ run' # run => \E t \in Txns : MayRevive(t) /\ txn'[t] = Idle]_vars
  <2> SUFFICES ASSUME run \in Terminal, run' # run
               PROVE  \E t \in Txns : MayRevive(t) /\ txn'[t] = Idle
    OBVIOUS
  <2>1. PICK t \in Txns : Writes(t)
    BY <1>1 DEF Next, vars, Reads, DriveReads, CancelReads, SoftDeleteReads, FinalizeReads,
                ReconcileReads, GhostReads, Negotiate, Upload, Reject
  <2>2. End(t) => txn'[t] = Idle
    BY <1>1, EndStep DEF IInv
  <2>3. CASE DriveWrites(t)
    BY <2>2, <2>3 DEF DriveWrites, MayRevive
  <2>4. CASE CancelWrites(t)
    BY <2>2, <2>4 DEF CancelWrites, MayRevive, Terminal
  <2>5. run' = run \/ DriveWrites(t) \/ CancelWrites(t)
    BY <2>1 DEF Writes, SoftDeleteWrites, FinalizeWrites, ReconcileWrites, GhostWrites,
       NonTerminal
  <2> QED
    BY <2>3, <2>4, <2>5
<1> QED
  BY <1>1, LifecycleInvariance, PTL DEF Spec, OnlyStaleDrivesRevive

-----------------------------------------------------------------------------
(* The capture screen *)

\* A photo that no upload has taken yet: the api has not heard of it.
Untaken ==
  \A m \in Manifests :
    manifest[m].stop = None => upload[m] = None /\ manifest[m].state = "none"

\* The api first hears of a photo from its upload's first request.
FirstRequest ==
  \A m \in Manifests :
    upload[m] # None /\ upload[m].at = "negotiate" => manifest[m].state = "none"

\* Manifests are taken one after the other.
InTurn ==
  \A m, n \in Manifests : m < n /\ manifest[n].stop # None => manifest[m].stop # None

\* An upload dispatches only to the screen that sent it, which sends photos of its stop.
ScreenHears ==
  \A m \in Manifests :
    upload[m] # None /\ upload[m].mine => screen # None /\ m \in screen.sent

SentHere == screen # None => \A m \in screen.sent : manifest[m].stop = screen.stop

TripInv ==
  /\ TripTypeOK
  /\ Untaken
  /\ FirstRequest
  /\ InTurn
  /\ ScreenHears
  /\ SentHere
  /\ DoneIsReceived

\* The types without the run and the walks, which the screen does not depend on.
ManifestRowStates == {"none", "pending", "verifying", "committed", "rejected"}
ManifestRows == [state : ManifestRowStates, stop : TripStops \cup {None}]

LEMMA InitTripInv == TripInit => TripInv
<1> SUFFICES ASSUME TripInit PROVE TripInv
  OBVIOUS
<1> USE DEF TripInit
<1>1. TripTypeOK
  <2>1. roadRun \in TripStates
    BY DEF TripStates, Ladder
  <2>2. Still \in [walking : BOOLEAN, steps : Seq(Kinds)]
    BY DEF Still
  <2> QED BY <2>1, <2>2, TripAssumption DEF TripTypeOK
<1>2. Untaken /\ FirstRequest /\ InTurn /\ ScreenHears /\ SentHere /\ DoneIsReceived
  BY DEF Untaken, FirstRequest, InTurn, ScreenHears, SentHere, DoneIsReceived
<1> QED BY <1>1, <1>2 DEF TripInv

\* The screen opens, is left, or takes a photo: nothing is sent.
LEMMA ScreenKeepsTripInv ==
  ASSUME TripInv,
         \/ \E s \in TripStops : OpenScreen(s)
         \/ LeaveScreen \/ TakePhoto \/ CameraReturns \/ Refetch
  PROVE  TripInv'
<1> USE DEF TripInv
<1>1. None \notin Waiting \cup Screens
  BY TripAssumption
<1>2. /\ roadRun \in TripStates /\ list \in (TripStates \ Over) \cup {"absent"}
      /\ screen \in Screens \cup {None}
      /\ upload \in [Manifests -> Waiting \cup {None}]
  BY DEF TripTypeOK
<1>3. CASE \E s \in TripStops : OpenScreen(s)
  <2>1. PICK s \in TripStops : OpenScreen(s)
    BY <1>3
  <2>2. screen' \in Screens /\ screen'.sent = {} /\ screen'.phase = "idle" /\ screen = None
    BY <1>2, <2>1 DEF OpenScreen, Screens
  <2>3. UNCHANGED <<roadRun, manifest, list, upload, walk, mishaps>>
    BY <2>1 DEF OpenScreen
  <2>4. TripTypeOK'
    BY <2>2, <2>3 DEF TripTypeOK
  <2>5. Untaken' /\ FirstRequest' /\ InTurn'
    BY <2>3 DEF Untaken, FirstRequest, InTurn
  <2>6. ScreenHears' /\ SentHere' /\ DoneIsReceived'
    BY <1>1, <2>2, <2>3 DEF ScreenHears, SentHere, DoneIsReceived
  <2> QED BY <2>4, <2>5, <2>6
<1>4. CASE LeaveScreen
  <2>1. /\ screen' = None /\ upload' = Forget
        /\ UNCHANGED <<roadRun, manifest, list, walk, mishaps>>
    BY <1>4 DEF LeaveScreen
  <2>2. \A m \in Manifests :
          /\ upload'[m] = None <=> upload[m] = None
          /\ upload'[m] # None => /\ upload'[m] = [upload[m] EXCEPT !.mine = FALSE]
                                  /\ upload[m] \in Waiting
    BY <1>1, <1>2, <2>1 DEF Forget, Waiting
  <2>3. \A m \in Manifests : upload'[m] # None =>
          /\ upload'[m] \in Waiting /\ upload'[m].at = upload[m].at /\ ~upload'[m].mine
    BY <2>2 DEF Waiting
  <2>4. upload' \in [Manifests -> Waiting \cup {None}]
    <3>1. upload' = [m \in Manifests |-> upload'[m]]
      BY <2>1 DEF Forget
    <3> QED BY <2>3, <3>1
  <2>5. TripTypeOK'
    BY <2>1, <2>4 DEF TripTypeOK
  <2>6. Untaken' /\ FirstRequest' /\ InTurn'
    BY <2>1, <2>2, <2>3 DEF Untaken, FirstRequest, InTurn
  <2>7. ScreenHears' /\ SentHere' /\ DoneIsReceived'
    BY <2>1, <2>3 DEF ScreenHears, SentHere, DoneIsReceived
  <2> QED BY <2>5, <2>6, <2>7
<1>5. CASE TakePhoto \/ CameraReturns
  <2>1. screen \in Screens /\ UNCHANGED <<roadRun, manifest, list, upload, walk, mishaps>>
    BY <1>2, <1>5 DEF TakePhoto, CameraReturns
  <2>2. /\ screen' \in Screens
        /\ screen'.sent = screen.sent /\ screen'.stop = screen.stop
        /\ screen'.phase = "done" => screen.phase = "done"
    <3>1. CASE TakePhoto
      BY <2>1, <3>1 DEF TakePhoto, Screens
    <3>2. CASE CameraReturns
      <4>1. PICK phase \in {"spooled", "error", screen.phase} :
              screen' = [screen EXCEPT !.camera = FALSE, !.phase = phase]
        BY <3>2 DEF CameraReturns
      <4> QED BY <2>1, <4>1 DEF Screens
    <3> QED BY <1>5, <3>1, <3>2
  <2>3. TripTypeOK'
    BY <2>1, <2>2 DEF TripTypeOK
  <2>4. Untaken' /\ FirstRequest' /\ InTurn' /\ ScreenHears' /\ SentHere'
    BY <1>1, <2>1, <2>2 DEF Untaken, FirstRequest, InTurn, ScreenHears, SentHere
  <2>5. Arrived' = Arrived
    BY <2>1 DEF Arrived
  <2>6. DoneIsReceived'
    BY <1>1, <2>1, <2>2, <2>5 DEF DoneIsReceived
  <2> QED BY <2>3, <2>4, <2>6
<1>6. CASE Refetch
  <2>1. UNCHANGED <<roadRun, manifest, screen, upload, walk, mishaps>> /\ list' = Listed(roadRun)
    BY <1>6 DEF Refetch
  <2>2. TripTypeOK'
    BY <1>2, <2>1 DEF TripTypeOK, Listed
  <2>3. Arrived' = Arrived
    BY <2>1 DEF Arrived
  <2> QED BY <2>1, <2>2, <2>3
          DEF Untaken, FirstRequest, InTurn, ScreenHears, SentHere, DoneIsReceived
<1> QED BY <1>3, <1>4, <1>5, <1>6


\* Cardinality means in the phone's module what it means here.
LEMMA SameCardinality == ASSUME NEW S PROVE Cardinality(S) = Cardinality(S)
  BY DEF Cardinality, Cardinality

LEMMA UpTo == ASSUME NEW n \in Nat PROVE IsFiniteSet(1 .. n) /\ Cardinality(1 .. n) = n
<1>1. n \in Int /\ (1 > n => n = 0)
  OBVIOUS
<1>2. IsFiniteSet(1 .. n) /\ Cardinality(1 .. n) = IF 1 > n THEN 0 ELSE n - 1 + 1
  BY <1>1, FS_Interval
<1> QED BY <1>1, <1>2

\* The manifest of a new upload is one that no upload has taken.
LEMMA NextIsUntaken ==
  ASSUME TripInv, NEW m \in Manifests,
         m = Cardinality({n \in Manifests : manifest[n].stop # None}) + 1
  PROVE  manifest[m].stop = None
<1> DEFINE taken == {n \in Manifests : manifest[n].stop # None}
<1>1. SUFFICES ASSUME manifest[m].stop # None PROVE FALSE
  OBVIOUS
<1>2. MaxUploads \in Nat /\ m \in 1 .. MaxUploads
  BY TripAssumption DEF Manifests
<1>3. 1 .. m \subseteq taken
  <2>1. \A n \in 1 .. m : n \in Manifests /\ n <= m
    BY <1>2 DEF Manifests
  <2>2. \A n \in Manifests : n <= m => manifest[n].stop # None
    BY <1>1 DEF TripInv, InTurn
  <2> QED BY <2>1, <2>2
<1>4. IsFiniteSet(taken)
  <2>1. taken \subseteq Manifests /\ IsFiniteSet(Manifests)
    BY <1>2, UpTo DEF Manifests
  <2> QED BY <2>1, FS_Subset
<1>5. Cardinality(1 .. m) = m /\ Cardinality(1 .. m) <= Cardinality(taken)
  <2>1. m \in Nat
    BY <1>2
  <2> HIDE DEF taken
  <2> QED BY <1>3, <1>4, <2>1, UpTo, FS_Subset
<1>6. Cardinality(taken) \in Nat
  BY <1>4, FS_CardinalityType
<1>7. m = Cardinality(taken) + 1
  BY SameCardinality
<1> HIDE DEF taken
<1> QED BY <1>2, <1>5, <1>6, <1>7

LEMMA UploadKeepsTripInv ==
  ASSUME TripInv, NEW m \in Manifests, StartUpload(m)
  PROVE  TripInv'
<1> USE DEF TripInv
<1> DEFINE request == [at |-> "negotiate", state |-> screen.state, mine |-> TRUE]
<1>1. None \notin Waiting \cup Screens \cup TripStops
  BY TripAssumption
<1>2. /\ screen \in Screens /\ manifest \in [Manifests -> ManifestRows]
      /\ upload \in [Manifests -> Waiting \cup {None}]
  BY DEF TripTypeOK, StartUpload, ManifestRows, ManifestRowStates
<1>3. manifest[m].stop = None
  BY NextIsUntaken DEF StartUpload
<1>4. /\ screen' = [screen EXCEPT !.phase = "uploading", !.sent = @ \cup {m}]
      /\ manifest' = [manifest EXCEPT ![m].stop = screen.stop]
      /\ upload' = [upload EXCEPT ![m] = request]
      /\ UNCHANGED <<roadRun, list, walk, mishaps>>
  BY DEF StartUpload
<1>5. /\ screen' \in Screens /\ screen'.phase = "uploading"
      /\ screen'.sent = screen.sent \cup {m} /\ screen'.stop = screen.stop
  BY <1>2, <1>4 DEF Screens
<1>6. request \in Waiting /\ request.mine /\ request # None
  <2>1. screen.state \in TripStates \ Over
    BY <1>2 DEF Screens
  <2>2. request \in Waiting
    BY <2>1 DEF Waiting
  <2> QED BY <1>1, <2>2
<1>7. /\ manifest' \in [Manifests -> ManifestRows]
      /\ manifest'[m].stop = screen.stop /\ manifest'[m].state = manifest[m].state
      /\ \A n \in Manifests : n # m => manifest'[n] = manifest[n]
  BY <1>2, <1>4 DEF ManifestRows, Screens
<1>8. upload'[m] = request /\ \A n \in Manifests : n # m => upload'[n] = upload[n]
  BY <1>2, <1>4
<1> HIDE DEF request
<1>9. TripTypeOK'
  BY <1>2, <1>4, <1>5, <1>6, <1>7 DEF TripTypeOK, ManifestRows, ManifestRowStates
<1>10. screen.stop # None
  BY <1>1, <1>2 DEF Screens
<1>11. manifest[m].state = "none"
  BY <1>3 DEF Untaken
<1>12. Untaken' /\ FirstRequest'
  BY <1>7, <1>8, <1>10, <1>11 DEF Untaken, FirstRequest
<1>13. InTurn'
  <2>1. \A n \in Manifests : n < m => manifest[n].stop # None
    <3> DEFINE taken == {n \in Manifests : manifest[n].stop # None}
    <3> SUFFICES ASSUME NEW n \in Manifests, n < m, manifest[n].stop = None PROVE FALSE
      OBVIOUS
    <3>1. MaxUploads \in Nat /\ n \in 1 .. MaxUploads /\ m \in 1 .. MaxUploads
      BY TripAssumption DEF Manifests
    <3>2. taken \subseteq 1 .. (n - 1)
      <4> SUFFICES ASSUME NEW o \in taken PROVE o \in 1 .. (n - 1)
        OBVIOUS
      <4>1. o \in 1 .. MaxUploads /\ manifest[o].stop # None
        BY DEF Manifests
      <4>2. ~(n < o) /\ n # o
        BY <3>1, <4>1 DEF InTurn, Manifests
      <4> QED BY <3>1, <4>1, <4>2
    <3>3. Cardinality(1 .. (n - 1)) = n - 1 /\ IsFiniteSet(1 .. (n - 1))
      <4>1. n - 1 \in Nat
        BY <3>1
      <4> QED BY <4>1, UpTo
    <3>4. Cardinality(taken) <= n - 1 /\ IsFiniteSet(taken)
      BY <3>2, <3>3, FS_Subset
    <3>5. Cardinality(taken) \in Nat
      BY <3>4, FS_CardinalityType
    <3>6. m = Cardinality(taken) + 1
      BY SameCardinality DEF StartUpload
    <3> HIDE DEF taken
    <3> QED BY <3>1, <3>4, <3>5, <3>6
  <2> QED BY <1>7, <1>10, <2>1 DEF InTurn
<1>14. ScreenHears'
  BY <1>1, <1>5, <1>8 DEF ScreenHears
<1>15. SentHere'
  BY <1>1, <1>2, <1>5, <1>7 DEF SentHere, Screens
<1>16. DoneIsReceived'
  BY <1>5 DEF DoneIsReceived
<1> QED BY <1>9, <1>12, <1>13, <1>14, <1>15, <1>16

\* What a request of the upload does to the photo, if it does it.
LEMMA HandledKeeps ==
  ASSUME TripInv, NEW m \in Manifests, upload[m] # None
  PROVE  /\ Handled(m) \in [Manifests -> ManifestRows]
         /\ \A n \in Manifests : /\ Handled(m)[n].stop = manifest[n].stop
                                 /\ n # m => Handled(m)[n] = manifest[n]
         /\ m \in Arrived => Handled(m)[m].state \in {"verifying", "committed", "rejected"}
         /\ upload[m].at = "commit" => Handled(m)[m].state = "verifying"
<1> USE DEF TripInv
<1>1. manifest \in [Manifests -> ManifestRows] /\ upload[m] \in Waiting
  BY DEF TripTypeOK, ManifestRows, ManifestRowStates
<1>2. CASE upload[m].at = "negotiate"
  <2>1. Handled(m) = [manifest EXCEPT ![m].state = "pending"]
    BY <1>2 DEF Handled
  <2>2. m \notin Arrived
    BY <1>2 DEF FirstRequest, Arrived
  <2> QED BY <1>1, <1>2, <2>1, <2>2 DEF ManifestRows, ManifestRowStates
<1>3. CASE upload[m].at = "put"
  <2>1. Handled(m) = manifest
    BY <1>3 DEF Handled
  <2> QED BY <1>1, <1>3, <2>1 DEF Arrived
<1>4. CASE upload[m].at = "commit"
  <2>1. Handled(m) = [manifest EXCEPT ![m].state = "verifying"]
    BY <1>4 DEF Handled
  <2> QED BY <1>1, <2>1 DEF ManifestRows, ManifestRowStates
<1> QED BY <1>1, <1>2, <1>3, <1>4 DEF Waiting

\* The upload of m waits for a later request, or ends and tells its screen.
LEMMA UploadEndKeepsTripInv ==
  ASSUME TripInv, NEW m \in Manifests, upload[m] # None,
         manifest' = manifest \/ manifest' = Handled(m),
         \/ /\ screen' = screen
            /\ upload' = [upload EXCEPT ![m].at = "put"] \/ upload' = [upload EXCEPT ![m].at = "commit"]
         \/ /\ upload' = [upload EXCEPT ![m] = None]
            /\ \/ screen' = Ended(m, "error")
               \/ /\ upload[m].at = "commit" /\ manifest' = Handled(m)
                  /\ screen' = Ended(m, "done"),
         UNCHANGED <<roadRun, list>>, mishaps' \in 0 .. MaxFaults,
         walk' \in [Manifests -> [walking : BOOLEAN, steps : Seq(Kinds)]]
  PROVE  TripInv'
<1> USE DEF TripInv
<1>1. None \notin Waiting \cup Screens
  BY TripAssumption
<1>2. /\ screen \in Screens \cup {None} /\ manifest \in [Manifests -> ManifestRows]
      /\ upload \in [Manifests -> Waiting \cup {None}] /\ upload[m] \in Waiting
  BY DEF TripTypeOK, ManifestRows, ManifestRowStates
<1>3. /\ manifest' \in [Manifests -> ManifestRows]
      /\ \A n \in Manifests : manifest'[n].stop = manifest[n].stop /\ (n # m => manifest'[n] = manifest[n])
      /\ Arrived \subseteq Arrived'
  <2>1. CASE manifest' = manifest
    BY <1>2, <2>1 DEF Arrived
  <2>2. CASE manifest' = Handled(m)
    <3>1. /\ manifest' \in [Manifests -> ManifestRows]
          /\ \A n \in Manifests : /\ manifest'[n].stop = manifest[n].stop
                                  /\ n # m => manifest'[n] = manifest[n]
          /\ m \in Arrived => manifest'[m].state \in {"verifying", "committed", "rejected"}
      BY <2>2, HandledKeeps
    <3> QED BY <3>1 DEF Arrived
  <2> QED BY <2>1, <2>2
<1>4. /\ upload' \in [Manifests -> Waiting \cup {None}]
      /\ \A n \in Manifests : n # m => upload'[n] = upload[n]
      /\ upload'[m] # None => upload'[m].at # "negotiate" /\ upload'[m].mine = upload[m].mine
  <2>1. CASE upload' = [upload EXCEPT ![m] = None]
    BY <1>2, <2>1
  <2>2. CASE upload' # [upload EXCEPT ![m] = None]
    <3>1. PICK at \in {"put", "commit"} : upload' = [upload EXCEPT ![m].at = at]
      BY <2>2
    <3>2. [upload[m] EXCEPT !.at = at] \in Waiting
      BY <1>2 DEF Waiting
    <3>3. /\ [upload[m] EXCEPT !.at = at].at # "negotiate"
          /\ [upload[m] EXCEPT !.at = at].mine = upload[m].mine
      BY <1>2 DEF Waiting
    <3> QED BY <1>2, <3>1, <3>2, <3>3
  <2> QED BY <2>1, <2>2
<1>5. InTurn'
  BY <1>3 DEF InTurn
<1>6. \A n \in Manifests : n # m => manifest'[n] = manifest[n] /\ upload'[n] = upload[n]
  BY <1>3, <1>4
<1>7. manifest'[m].stop # None
  BY <1>3 DEF Untaken
<1>8. Untaken' /\ FirstRequest'
  BY <1>4, <1>6, <1>7 DEF Untaken, FirstRequest
<1>9. CASE screen' = screen
  <2>1. TripTypeOK'
    BY <1>2, <1>3, <1>4, <1>9 DEF TripTypeOK, ManifestRows, ManifestRowStates
  <2>3. ScreenHears'
    BY <1>4, <1>9 DEF ScreenHears
  <2>4. SentHere' /\ DoneIsReceived'
    BY <1>1, <1>2, <1>3, <1>9 DEF SentHere, DoneIsReceived, Arrived, Screens
  <2> QED BY <1>5, <1>8, <2>1, <2>3, <2>4
<1>10. CASE screen' # screen
  <2>1. /\ upload' = [upload EXCEPT ![m] = None] /\ upload[m].mine
        /\ screen # None
        /\ \E phase \in {"done", "error"} : screen' = [screen EXCEPT !.phase = phase]
    BY <1>10 DEF Ended
  <2>2. PICK phase \in {"done", "error"} : screen' = [screen EXCEPT !.phase = phase]
    BY <2>1
  <2>3. screen \in Screens
    BY <1>2, <2>1
  <2>4. /\ screen' \in Screens /\ screen'.phase = phase
        /\ screen'.sent = screen.sent /\ screen'.stop = screen.stop
    BY <2>2, <2>3 DEF Screens
  <2>5. TripTypeOK'
    BY <1>2, <1>3, <1>4, <2>4 DEF TripTypeOK, ManifestRows, ManifestRowStates
  <2>7. ScreenHears'
    BY <1>1, <1>2, <1>4, <2>1, <2>4 DEF ScreenHears
  <2>8. SentHere'
    BY <1>3, <2>3, <2>4, <2>1 DEF SentHere, Screens
  <2>9. CASE phase = "done"
    <3>1. upload[m].at = "commit" /\ manifest' = Handled(m)
      <4>1. screen' # Ended(m, "error")
        <5>1. SUFFICES ASSUME screen' = Ended(m, "error") PROVE FALSE
          OBVIOUS
        <5>2. screen' = [screen EXCEPT !.phase = "error"]
          BY <1>10, <5>1 DEF Ended
        <5>3. screen'.phase = "error"
          BY <2>3, <5>2 DEF Screens
        <5> QED BY <2>4, <2>9, <5>3
      <4> QED BY <1>10, <4>1
    <3>2. m \in Arrived'
      BY <3>1, HandledKeeps DEF Arrived
    <3>3. m \in screen.sent
      BY <2>1 DEF ScreenHears
    <3> QED BY <1>3, <2>1, <2>4, <3>2, <3>3, <1>5, <1>8, <2>5, <2>7, <2>8
            DEF DoneIsReceived, SentHere
  <2>10. CASE phase = "error"
    BY <2>4, <2>10, <1>5, <1>8, <2>5, <2>7, <2>8 DEF DoneIsReceived
  <2> QED BY <2>9, <2>10
<1> QED BY <1>9, <1>10

LEMMA AdvanceKeepsTripInv ==
  ASSUME TripInv, NEW m \in Manifests, UploadAdvances(m) \/ UploadFails(m)
  PROVE  TripInv'
<1> USE DEF TripInv
<1>1. upload[m] # None
  BY DEF UploadAdvances, UploadFails
<1>2. /\ upload[m] \in Waiting /\ mishaps \in 0 .. MaxFaults /\ MaxFaults \in Nat
      /\ walk \in [Manifests -> [walking : BOOLEAN, steps : Seq(Kinds)]]
  BY <1>1, TripAssumption DEF TripTypeOK
<1>3. CASE UploadAdvances(m)
  <2> DEFINE next == NextRequest(upload[m].at)
  <2>1. \/ upload[m].at \in {"negotiate", "put"} /\ next \in {"put", "commit"} /\ next # None
        \/ upload[m].at = "commit" /\ next = None
    BY <1>2, TripAssumption DEF NextRequest, Waiting
  <2>2. manifest' = Handled(m) /\ UNCHANGED <<roadRun, list, mishaps>>
    BY <1>3 DEF UploadAdvances
  <2>3. CASE next # None
    <3>1. UNCHANGED <<screen, walk>> /\ upload' = [upload EXCEPT ![m].at = next]
      BY <1>3, <2>3 DEF UploadAdvances
    <3>2. upload' = [upload EXCEPT ![m].at = "put"] \/ upload' = [upload EXCEPT ![m].at = "commit"]
      <4> HIDE DEF next
      <4> QED BY <2>1, <2>3, <3>1
    <3> HIDE DEF next
    <3> QED BY <1>1, <1>2, <2>2, <3>1, <3>2, UploadEndKeepsTripInv
  <2>4. CASE next = None
    <3>1. /\ upload' = [upload EXCEPT ![m] = None] /\ screen' = Ended(m, "done")
          /\ walk' = [walk EXCEPT ![m] = Fired(m)]
      BY <1>3, <2>4 DEF UploadAdvances
    <3>2. Fired(m) \in [walking : BOOLEAN, steps : Seq(Kinds)]
      <4> DEFINE kind == Intent(upload[m].state, Remaining)
      <4>1. kind \in Kinds \cup {None}
        BY DEF Intent, Kinds
      <4>2. Fired(m) = IF kind = None THEN Still ELSE [walking |-> FALSE, steps |-> <<kind>>]
        BY DEF Fired
      <4> HIDE DEF kind
      <4> QED BY <4>1, <4>2 DEF Still
    <3>3. walk' \in [Manifests -> [walking : BOOLEAN, steps : Seq(Kinds)]]
      BY <1>2, <3>1, <3>2
    <3>4. upload[m].at = "commit"
      BY <2>1, <2>4
    <3> HIDE DEF next
    <3> QED BY <1>1, <1>2, <2>2, <3>1, <3>3, <3>4, UploadEndKeepsTripInv
  <2> QED BY <2>3, <2>4
<1>4. CASE UploadFails(m)
  <2>1. /\ manifest' = manifest \/ manifest' = Handled(m)
        /\ upload' = [upload EXCEPT ![m] = None] /\ screen' = Ended(m, "error")
        /\ UNCHANGED <<roadRun, list, walk>> /\ mishaps < MaxFaults /\ mishaps' = mishaps + 1
    BY <1>4 DEF UploadFails, Mishap
  <2>2. mishaps' \in 0 .. MaxFaults
    BY <1>2, <2>1
  <2> QED BY <1>1, <1>2, <2>1, <2>2, UploadEndKeepsTripInv
<1> QED BY <1>3, <1>4

LEMMA TargetIsRung ==
  ASSUME NEW kind \in Kinds
  PROVE  Target(kind) \in {"dispatched", "started", "completed"}
<1>1. PICK i \in 1 .. 3 : ActionFrom[i] = kind
  <2>1. ActionFrom[1] = "accept" /\ ActionFrom[2] = "start" /\ ActionFrom[3] = "complete"
    BY DEF ActionFrom
  <2>2. 1 \in 1 .. 3 /\ 2 \in 1 .. 3 /\ 3 \in 1 .. 3
    OBVIOUS
  <2> QED BY <2>1, <2>2 DEF Kinds
<1> DEFINE rung == CHOOSE j \in 1 .. 3 : ActionFrom[j] = kind
<1>2. rung \in 1 .. 3
  BY <1>1
<1>3. Target(kind) = Ladder[1 + rung]
  BY DEF Target
<1> HIDE DEF rung
<1>4. rung = 1 \/ rung = 2 \/ rung = 3
  BY <1>2
<1>5. Ladder[2] = "dispatched" /\ Ladder[3] = "started" /\ Ladder[4] = "completed"
  BY DEF Ladder
<1>6. Ladder[1 + rung] \in {"dispatched", "started", "completed"}
  BY <1>4, <1>5
<1> QED BY <1>3, <1>6

LEMMA RankIsRung ==
  ASSUME NEW s \in {"planned", "dispatched", "started", "completed"}
  PROVE  Rung(s) \in 1 .. 4
<1>1. \E i \in 1 .. 4 : Ladder[i] = s
  <2>1. /\ Ladder[1] = "planned" /\ Ladder[2] = "dispatched"
        /\ Ladder[3] = "started" /\ Ladder[4] = "completed"
    BY DEF Ladder
  <2>2. 1 \in 1 .. 4 /\ 2 \in 1 .. 4 /\ 3 \in 1 .. 4 /\ 4 \in 1 .. 4
    OBVIOUS
  <2> QED BY <2>1, <2>2
<1> QED BY <1>1 DEF Rung

LEMMA RungsAreStates ==
  TripStates = {"planned", "dispatched", "started", "completed", "cancelled"}
<1>1. /\ Ladder[1] = "planned" /\ Ladder[2] = "dispatched"
      /\ Ladder[3] = "started" /\ Ladder[4] = "completed"
  BY DEF Ladder
<1>2. 1 .. 4 = {1, 2, 3, 4}
  OBVIOUS
<1> QED BY <1>1, <1>2 DEF TripStates

\* What a 409 is recovered with is a piece of the ladder.
LEMMA RecoveryIsSteps ==
  ASSUME TripTypeOK, NEW kind \in Kinds
  PROVE  PlanRecovery(kind) \in Seq(Kinds)
<1>1. ActionFrom \in Seq(Kinds) /\ Len(ActionFrom) = 3
  BY DEF ActionFrom, Kinds
<1>2. CASE roadRun = "cancelled" \/ Rung(roadRun) >= Rung(Target(kind))
  BY <1>2 DEF PlanRecovery
<1>3. CASE ~(roadRun = "cancelled" \/ Rung(roadRun) >= Rung(Target(kind)))
  <2>1. Rung(roadRun) \in 1 .. 4 /\ Rung(Target(kind)) \in 1 .. 4
    BY <1>3, RankIsRung, TargetIsRung, RungsAreStates DEF TripTypeOK
  <2>2. PlanRecovery(kind)
          = SubSeq(ActionFrom, Rung(roadRun), Rung(Target(kind)) - 1)
    BY <1>3 DEF PlanRecovery
  <2>3. Rung(Target(kind)) - 1 \in 1 - 1 .. 3
    BY <2>1
  <2>4. \A i \in 1 .. 3 : ActionFrom[i] \in Kinds
    BY <1>1, ElementOfSeq
  <2> DEFINE from == Rung(roadRun)  upto == Rung(Target(kind)) - 1
  <2> HIDE DEF from, upto
  <2>5. \A i \in from .. upto : ActionFrom[i] \in Kinds
    BY <2>1, <2>3, <2>4 DEF from, upto
  <2>6. SubSeq(ActionFrom, from, upto) \in Seq(Kinds)
    BY <1>1, <2>1, <2>3, <2>5, SubSeqProperties DEF from, upto
  <2> QED BY <2>2, <2>6 DEF from, upto
<1> QED BY <1>2, <1>3

\* The run and the walks move: the screen has nothing to do with them.
LEMMA WalkKeepsTripInv ==
  ASSUME TripInv, NEW m \in Manifests, Walk(m) \/ WalkFails(m)
  PROVE  TripInv'
<1> USE DEF TripInv
<1> DEFINE kind == Head(walk[m].steps)
<1>1. /\ walk \in [Manifests -> [walking : BOOLEAN, steps : Seq(Kinds)]]
      /\ roadRun \in TripStates /\ mishaps \in 0 .. MaxFaults /\ MaxFaults \in Nat
  BY TripAssumption DEF TripTypeOK
<1>2. walk[m].steps \in Seq(Kinds) /\ walk[m].steps # <<>>
  BY <1>1 DEF Walk, WalkFails
<1>3. kind \in Kinds /\ Tail(walk[m].steps) \in Seq(Kinds)
  BY <1>2
<1>4. roadRun' \in TripStates
  <2>1. roadRun' = roadRun \/ Drives(kind)
    BY DEF Walk, WalkFails
  <2> HIDE DEF kind
  <2>2. roadRun' = roadRun \/ roadRun' = Target(kind)
    BY <2>1 DEF Drives
  <2> QED BY <1>1, <1>3, <2>2, TargetIsRung, RungsAreStates
<1>5. walk' \in [Manifests -> [walking : BOOLEAN, steps : Seq(Kinds)]]
  <2>1. \/ walk' = [walk EXCEPT ![m] = [walking |-> TRUE, steps |-> PlanRecovery(kind)]]
        \/ walk' = [walk EXCEPT ![m] = Still]
        \/ walk' = [walk EXCEPT ![m] = [walk[m] EXCEPT !.steps = Tail(@)]]
    BY DEF Walk, WalkFails
  <2> HIDE DEF kind
  <2>2. PlanRecovery(kind) \in Seq(Kinds)
    BY <1>3, RecoveryIsSteps
  <2>3. Still \in [walking : BOOLEAN, steps : Seq(Kinds)]
    BY DEF Still
  <2>4. [walk[m] EXCEPT !.steps = Tail(@)] \in [walking : BOOLEAN, steps : Seq(Kinds)]
    BY <1>1, <1>3
  <2>5. PICK steps \in [walking : BOOLEAN, steps : Seq(Kinds)] : walk' = [walk EXCEPT ![m] = steps]
    <3> DEFINE Steps == [walking : BOOLEAN, steps : Seq(Kinds)]
    <3>1. [walking |-> TRUE, steps |-> PlanRecovery(kind)] \in Steps
      BY <2>2
    <3>2. Still \in Steps /\ [walk[m] EXCEPT !.steps = Tail(@)] \in Steps
      BY <2>3, <2>4
    <3> HIDE DEF Steps
    <3>3. \E steps \in Steps : walk' = [walk EXCEPT ![m] = steps]
      BY <2>1, <3>1, <3>2
    <3> QED BY <3>3 DEF Steps
  <2> QED BY <1>1, <2>5
<1>6. UNCHANGED <<manifest, list, screen, upload>> /\ mishaps' \in 0 .. MaxFaults
  BY <1>1 DEF Walk, WalkFails, Mishap
<1>7. TripTypeOK'
  BY <1>4, <1>5, <1>6 DEF TripTypeOK
<1>8. Arrived' = Arrived
  BY <1>6 DEF Arrived
<1> QED BY <1>6, <1>7, <1>8
        DEF Untaken, FirstRequest, InTurn, ScreenHears, SentHere, DoneIsReceived

LEMMA KillKeepsTripInv ==
  ASSUME TripInv, Kill
  PROVE  TripInv'
<1> USE DEF TripInv
<1>1. /\ list' = "absent" /\ screen' = None
      /\ upload' = [m \in Manifests |-> None]
      /\ walk' = [m \in Manifests |-> Still]
      /\ UNCHANGED <<roadRun, manifest>> /\ mishaps < MaxFaults /\ mishaps' = mishaps + 1
  BY DEF Kill, Mishap
<1>2. mishaps' \in 0 .. MaxFaults
  BY <1>1, TripAssumption DEF TripTypeOK
<1>3. Still \in [walking : BOOLEAN, steps : Seq(Kinds)]
  BY DEF Still
<1>4. TripTypeOK'
  BY <1>1, <1>2, <1>3 DEF TripTypeOK
<1>5. Untaken' /\ FirstRequest' /\ InTurn'
  BY <1>1 DEF Untaken, FirstRequest, InTurn
<1>6. ScreenHears' /\ SentHere' /\ DoneIsReceived'
  BY <1>1 DEF ScreenHears, SentHere, DoneIsReceived
<1> QED BY <1>4, <1>5, <1>6

\* A photo is received once: it stays received whatever intake says of it.
LEMMA ApiKeepsTripInv ==
  ASSUME TripInv,
         Cancel \/ \E m \in Manifests : Intake(m) \/ RejectManifest(m)
  PROVE  TripInv'
<1> USE DEF TripInv
<1>1. /\ screen \in Screens \cup {None} /\ manifest \in [Manifests -> ManifestRows]
      /\ roadRun \in TripStates
  BY DEF TripTypeOK, ManifestRows, ManifestRowStates
<1>2. /\ manifest' \in [Manifests -> ManifestRows] /\ roadRun' \in TripStates
      /\ \A n \in Manifests :
           /\ manifest'[n].stop = manifest[n].stop
           /\ manifest[n].state \in {"none", "pending"} => manifest'[n].state = manifest[n].state
      /\ Arrived' = Arrived
      /\ UNCHANGED <<list, screen, upload, walk, mishaps>>
  <2>1. CASE Cancel
    BY <1>1, <2>1, RungsAreStates DEF Cancel, phone, Arrived
  <2>2. ASSUME NEW m \in Manifests, Intake(m) \/ RejectManifest(m) PROVE <1>2!:
    <3>1. PICK verdict \in {"committed", "rejected"} :
            manifest' = [manifest EXCEPT ![m].state = verdict]
      BY <2>2 DEF Intake, RejectManifest
    <3>2. manifest[m].state = "verifying" /\ UNCHANGED <<list, screen, upload, walk, mishaps>>
      BY <2>2 DEF Intake, RejectManifest, phone
    <3>3. roadRun' = roadRun \/ roadRun' = "completed"
      BY <2>2 DEF Intake, RejectManifest
    <3>4. manifest' \in [Manifests -> ManifestRows]
      BY <1>1, <3>1 DEF ManifestRows, ManifestRowStates
    <3>5. \A n \in Manifests :
            manifest'[n].stop = manifest[n].stop /\ (n # m => manifest'[n].state = manifest[n].state)
      BY <1>1, <3>1 DEF ManifestRows
    <3>6. manifest'[m].state = verdict
      BY <1>1, <3>1 DEF ManifestRows
    <3>7. Arrived' = Arrived
      BY <3>2, <3>5, <3>6 DEF Arrived
    <3> QED BY <1>1, <3>2, <3>3, <3>4, <3>5, <3>7, RungsAreStates
  <2> QED BY <2>1, <2>2
<1>3. TripTypeOK'
  BY <1>2 DEF TripTypeOK, ManifestRows, ManifestRowStates
<1>4. Untaken' /\ FirstRequest' /\ InTurn'
  BY <1>2 DEF Untaken, FirstRequest, InTurn
<1>5. ScreenHears' /\ SentHere' /\ DoneIsReceived'
  <2>1. screen # None => screen.sent \subseteq Manifests
    BY <1>1 DEF Screens
  <2> QED BY <1>2, <2>1 DEF ScreenHears, SentHere, DoneIsReceived
<1> QED BY <1>3, <1>4, <1>5

\* The types of the phone's model and the facts a screen that says done rests on hold.
THEOREM TripInvariance == TripSpec => []TripInv
<1>1. TripInit => TripInv
  BY InitTripInv
<1>2. TripInv /\ [TripNext]_tripVars => TripInv'
  <2> SUFFICES ASSUME TripInv, [TripNext]_tripVars PROVE TripInv'
    OBVIOUS
  <2>1. CASE Driver
    BY <2>1, ScreenKeepsTripInv, UploadKeepsTripInv DEF Driver
  <2>2. CASE App
    BY <2>2, ScreenKeepsTripInv, AdvanceKeepsTripInv, WalkKeepsTripInv, KillKeepsTripInv
       DEF App
  <2>3. CASE Api
    BY <2>3, ApiKeepsTripInv DEF Api
  <2>4. CASE UNCHANGED tripVars
    <3>1. UNCHANGED <<roadRun, manifest, list, screen, upload, walk, mishaps>>
      BY <2>4 DEF tripVars, phone
    <3>2. Arrived' = Arrived
      BY <3>1 DEF Arrived
    <3> QED BY <3>1, <3>2 DEF TripInv, TripTypeOK, Untaken, FirstRequest, InTurn, ScreenHears,
                             SentHere, DoneIsReceived
  <2> QED BY <2>1, <2>2, <2>3, <2>4 DEF TripNext
<1> QED BY <1>1, <1>2, PTL DEF TripSpec

\* DoneIsReceived: a capture screen says done only if a photo of its stop has reached the api,
\* however many photos were taken on it, whichever uploads were lost, and whatever older screens
\* of the same or another stop still upload (reduceCapture, use-capture-screen).
THEOREM DoneScreensTellTheTruth == TripSpec => []DoneIsReceived
<1>1. TripInv => DoneIsReceived
  BY DEF TripInv
<1> QED BY <1>1, TripInvariance, PTL
=============================================================================
