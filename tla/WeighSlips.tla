------------------------------ MODULE WeighSlips ------------------------------
(***************************************************************************)
(* The goods weight of a committed photo: the worker's extraction job      *)
(* reads the weigh slip with a vision model and reports to the api, and a  *)
(* dispatcher types a weight in where the board asks for one (workers/     *)
(* main-worker src/extraction, apps/api src/manifest and src/dispatch,     *)
(* apps/ops-web src/features/dispatch).                                    *)
(*                                                                         *)
(* A job is attempted once, but one that stalls is run a second time, and  *)
(* the first run may go on beside the second.  Weights are whole kilos;    *)
(* what a slip says and what the model reads of it are the same, or it     *)
(* finds nothing.  The reason beside a refused weight is left out: nothing *)
(* branches on it.                                                         *)
(***************************************************************************)
EXTENDS Integers, Sequences, Functions

CONSTANTS
  Photos,       \* manifests
  StopOf,       \* stop_id of each
  Slips,        \* what may be on a photo
  Entries,      \* numbers a dispatcher types
  Dispatchers,  \* open boards
  MinKg, MaxKg, \* NET_WEIGHT_SANITY
  MaxFaults,    \* bound on dead workers and lost locks
  None

Formats == {"goods_only", "truck_and_goods", "truck_only", "other", "unreported"}
Kilos == Nat \cup {None}
Slip == [count : Nat \ {0}, format : Formats, gross : Kilos, tare : Kilos, goods : Kilos,
         weighings : Seq(Kilos)]

Statuses == {"pending", "extracted", "not_found", "unreadable", "manual"}
Results == [kg : Kilos, status : {"extracted", "not_found", "unreadable"}]
Reading == [kg |-> None, status |-> "pending"]

ASSUME WeightAssumption ==
  /\ MinKg \in Nat \ {0} /\ MaxKg \in Nat
  /\ MaxFaults \in Nat /\ Slips \subseteq Slip /\ Entries \subseteq Nat
  /\ None \notin Nat \cup Photos \cup Slips \cup Results \cup {Reading}

VARIABLES
  slip,     \* slip[m]: what the committed photo shows, None before
  weight,   \* weight[m]: extracted_net_weight_kg and extraction_status
  job,      \* job[m]: the job of the queue "extraction"
  runs,     \* runs[m]: times the job was taken
  run,      \* run[m][i]: where its i-th run is
  offers,   \* offers[d]: photos whose entry button the board shows
  editor,   \* editor[d]: editingManifestId
  troubles  \* workers that died or lost a lock so far

work == <<job, runs, run>>
board == <<offers, editor>>
weighVars == <<slip, weight, work, board, troubles>>

WeighTypeOK ==
  /\ slip \in [Photos -> Slips \cup {None}]
  /\ weight \in [Photos -> [kg : (Nat \ {0}) \cup {None}, status : Statuses]]
  /\ job \in [Photos -> {"none", "waiting", "active", "done", "failed"}]
  /\ runs \in [Photos -> 0 .. 2]
  /\ run \in [Photos -> [1 .. 2 -> Results \cup {Reading, None}]]
  /\ offers \in [Dispatchers -> SUBSET Photos]
  /\ editor \in [Dispatchers -> Photos \cup {None}]
  /\ troubles \in 0 .. MaxFaults

WeighInit ==
  /\ slip = [m \in Photos |-> None]
  /\ weight = [m \in Photos |-> [kg |-> None, status |-> "pending"]]
  /\ job = [m \in Photos |-> "none"]
  /\ runs = [m \in Photos |-> 0]
  /\ run = [m \in Photos |-> [i \in 1 .. 2 |-> None]]
  /\ offers = [d \in Dispatchers |-> {}]
  /\ editor = [d \in Dispatchers |-> None]
  /\ troubles = 0

-----------------------------------------------------------------------------
(* Reading a slip *)

NotFound == [kg |-> None, status |-> "not_found"]
Unreadable == [kg |-> None, status |-> "unreadable"]

Total(values) == FoldFunction(LAMBDA a, b : a + b, 0, values)

\* parseNetWeightKg: the sum of the weighings, or None.
ParseNetWeight(values) ==
  IF values = <<>> \/ None \in Range(values) THEN None
  ELSE IF Total(values) \in MinKg .. MaxKg THEN Total(values) ELSE None

ParseAndBound(values) ==
  IF ParseNetWeight(values) = None THEN Unreadable
  ELSE [kg |-> ParseNetWeight(values), status |-> "extracted"]

\* deriveGoodsKg of the parsed gross and tare: the sanity bounds hold of each.
DerivedGoods(s) ==
  LET gross == ParseNetWeight(<<s.gross>>)  tare == ParseNetWeight(<<s.tare>>) IN
  IF None \in {gross, tare} THEN Unreadable
  ELSE IF tare >= gross THEN Unreadable ELSE ParseAndBound(<<gross - tare>>)

\* Mutant of Recognize: the first of several slips is read.
RecognizeFirst(s) ==
  CASE s.format = "truck_only" -> NotFound
    [] s.format = "goods_only" -> ParseAndBound(<<s.goods>>)
    [] s.format = "truck_and_goods" -> DerivedGoods(s)
    [] OTHER -> Unreadable

\* recognizePhieuCan and what runRecognition makes of it.
Recognize(s) ==
  CASE s.count > 1 -> NotFound
    [] s.count = 1 /\ s.format = "truck_only" -> NotFound
    [] s.count = 1 /\ s.format = "goods_only" -> ParseAndBound(<<s.goods>>)
    [] s.count = 1 /\ s.format = "truck_and_goods" -> DerivedGoods(s)
    [] OTHER -> Unreadable

\* runExtraction: a model that reports no format is read the old way.
Extraction(s) == IF s.format = "unreported" THEN ParseAndBound(s.weighings) ELSE Recognize(s)

-----------------------------------------------------------------------------
(* The job *)

\* finalizeIntake accepts the photo and asks for its weight.
Commit(m) ==
  /\ slip[m] = None
  /\ \E s \in Slips : slip' = [slip EXCEPT ![m] = s]
  /\ job' = [job EXCEPT ![m] = "waiting"]
  /\ UNCHANGED <<weight, runs, run, board, troubles>>

Take(m) ==
  /\ job[m] = "waiting"
  /\ job' = [job EXCEPT ![m] = "active"]
  /\ runs' = [runs EXCEPT ![m] = @ + 1]
  /\ run' = [run EXCEPT ![m][runs[m] + 1] = Reading]
  /\ UNCHANGED <<slip, weight, board, troubles>>

\* What becomes of the job when its i-th run ends: a run that lost the lock decides nothing.
Ends(m, i, end) ==
  job' = IF i = runs[m] /\ job[m] = "active" THEN [job EXCEPT ![m] = end] ELSE job

\* The object may be missing, and the model may find no weight field.
Read(m, i) ==
  /\ run[m][i] = Reading
  /\ \E result \in {NotFound, Extraction(slip[m])} : run' = [run EXCEPT ![m][i] = result]
  /\ UNCHANGED <<slip, weight, job, runs, board, troubles>>

\* The store or the model throws.
ReadFails(m, i) ==
  /\ run[m][i] = Reading
  /\ run' = [run EXCEPT ![m][i] = None]
  /\ Ends(m, i, "failed")
  /\ UNCHANGED <<slip, weight, runs, board, troubles>>

\* Mutant of Recorded: a refusal records nothing.
RecordedIfRead(m, result) ==
  IF result.status = "extracted" THEN [weight EXCEPT ![m] = result] ELSE weight

\* finalizeExtraction: a refusal sets the status and leaves the weight.
Recorded(m, result) ==
  IF result.status = "extracted" THEN [weight EXCEPT ![m] = result]
  ELSE [weight EXCEPT ![m].status = result.status]

Report(m, i) ==
  /\ run[m][i] \in Results
  /\ weight' = Recorded(m, run[m][i])
  /\ run' = [run EXCEPT ![m][i] = None]
  /\ Ends(m, i, "done")
  /\ UNCHANGED <<slip, runs, board, troubles>>

\* The callback or its answer is lost: the run throws, and no attempt is left.
ReportFails(m, i) ==
  /\ run[m][i] \in Results
  /\ weight' \in {weight, Recorded(m, run[m][i])}
  /\ run' = [run EXCEPT ![m][i] = None]
  /\ Ends(m, i, "failed")
  /\ UNCHANGED <<slip, runs, board, troubles>>

\* The worker process ends.
Dies(m, i) ==
  /\ run[m][i] # None
  /\ troubles < MaxFaults /\ troubles' = troubles + 1
  /\ run' = [run EXCEPT ![m][i] = None]
  /\ UNCHANGED <<slip, weight, job, runs, board>>

\* An active job stalls: back to the queue once, then failed.
Stall(m) ==
  /\ job' = [job EXCEPT ![m] = IF runs[m] = 1 THEN "waiting" ELSE "failed"]
  /\ UNCHANGED <<slip, weight, runs, run, board>>

\* Its worker is dead.
StallDead(m) ==
  /\ job[m] = "active" /\ run[m][runs[m]] = None
  /\ Stall(m)
  /\ UNCHANGED troubles

\* Its worker is alive, and has not renewed the lock in time.
StallAlive(m) ==
  /\ job[m] = "active" /\ run[m][runs[m]] # None
  /\ troubles < MaxFaults /\ troubles' = troubles + 1
  /\ Stall(m)

-----------------------------------------------------------------------------
(* The board *)

\* Mutant of NeedsEntry: a weight can be typed in while the photo is being read.
NeedsEntryEarly(m) == weight[m].kg = None

\* StopProofView's button.
NeedsEntry(m) == weight[m].kg = None /\ weight[m].status \in {"not_found", "unreadable"}

Committed == {m \in Photos : slip[m] # None}

\* enrichRows: one committed photo of each stop that has any, in no defined order.
Proofs ==
  {shown \in SUBSET Committed :
     \A m \in Committed : \E n \in shown :
       /\ StopOf[n] = StopOf[m]
       /\ \A o \in shown : StopOf[o] = StopOf[n] => o = n}

Refresh(d) ==
  /\ \E shown \in Proofs : offers' = [offers EXCEPT ![d] = {m \in shown : NeedsEntry(m)}]
  /\ UNCHANGED <<slip, weight, work, editor, troubles>>

OpenEntry(d, m) ==
  /\ m \in offers[d]
  /\ editor' = [editor EXCEPT ![d] = m]
  /\ UNCHANGED <<slip, weight, work, offers, troubles>>

EntryIsValid(kg) == kg > 0

\* setManualNetWeight
Typed(m, kg) == [weight EXCEPT ![m] = [kg |-> kg, status |-> "manual"]]

\* The editor closes on any result, a refusal too; if the action throws it stays open, and
\* the weight may have been saved.
Enter(d) ==
  /\ editor[d] # None
  /\ \E kg \in Entries :
       /\ EntryIsValid(kg)
       /\ weight' \in {weight, Typed(editor[d], kg)}
  /\ editor' \in {editor, [editor EXCEPT ![d] = None]}
  /\ UNCHANGED <<slip, work, offers, troubles>>

-----------------------------------------------------------------------------
Attempt(m) ==
  \/ Take(m)
  \/ \E i \in 1 .. 2 : Read(m, i) \/ ReadFails(m, i) \/ Report(m, i) \/ ReportFails(m, i)

WeighNext ==
  \/ \E m \in Photos :
       Commit(m) \/ Attempt(m) \/ StallDead(m) \/ StallAlive(m) \/ \E i \in 1 .. 2 : Dies(m, i)
  \/ \E d \in Dispatchers :
       Refresh(d) \/ Enter(d) \/ \E m \in Photos : OpenEntry(d, m)

\* Workers take jobs and finish what they have begun, and a job nobody works on stalls.
WeighFairness ==
  \A m \in Photos :
    WF_weighVars(Attempt(m)) /\ WF_weighVars(StallDead(m))

WeighSpec == WeighInit /\ [][WeighNext]_weighVars /\ WeighFairness

-----------------------------------------------------------------------------
(* Properties *)

GoodsOf(s) ==
  CASE s.format = "goods_only" -> s.goods
    [] s.format = "truck_and_goods" -> s.gross - s.tare
    [] s.format = "unreported" -> Total(s.weighings)

\* A weight called extracted is that of the goods of the one slip on the photo, within the
\* bounds, whichever run reported it, and whatever was typed or reported before it.  Read the
\* old way, it is what all the weighings on the photo add up to: nobody counts the slips.
WeightIsRead ==
  \A m \in Photos :
    weight[m].status = "extracted" =>
      /\ slip[m].format \in {"goods_only", "truck_and_goods", "unreported"}
      /\ slip[m].count = 1 \/ slip[m].format = "unreported"
      /\ weight[m].kg = GoodsOf(slip[m]) /\ weight[m].kg \in MinKg .. MaxKg

\* What a dispatcher typed is overwritten by the machine only if the job was run twice, and
\* no late answer ever leaves a photo without the weight it had: finalizeExtraction does not
\* look at the status, and only the board's button keeps the two apart.
ManualHolds ==
  [][\A m \in Photos :
       /\ weight[m].status = "manual" /\ weight'[m].status # "manual" => runs[m] = 2
       /\ weight[m].kg # None => weight'[m].kg # None]_weighVars

\* The board stops saying that a committed photo is processed, unless the job has failed.
ProcessingEnds ==
  \A m \in Photos : job[m] # "none" ~> weight[m].status # "pending" \/ job[m] = "failed"
=============================================================================
