--------------------------- MODULE MCManifestIntake ---------------------------
(***************************************************************************)
(* Small instances of what the api does with a photo, side by side: its    *)
(* intake (ManifestIntake) and the weights read from its slip              *)
(* (WeighSlips).  They share no state: the first state chooses which of    *)
(* the two takes steps.                                                    *)
(***************************************************************************)
EXTENDS ManifestIntake, WeighSlips, TLC

CONSTANTS s1, s2, m1, p1, p2, stop1, d1

\* One manifest whose upload was retried.
MCSessions == {s1, s2}
MCManifests == {m1}
MCManifestOf == (s1 :> m1) @@ (s2 :> m1)

TwoPhotos == {p1, p2}
OneStop == (p1 :> stop1) @@ (p2 :> stop1)

Blank == [count |-> 1, format |-> "other", gross |-> None, tare |-> None, goods |-> None,
          weighings |-> <<>>]

\* Two slips on a photo, one that is netted, one netted below the minimum, and two slips read
\* the old way.
MCSlips ==
  {[Blank EXCEPT !.format = "goods_only", !.goods = 4, !.count = 2],
   [Blank EXCEPT !.format = "truck_and_goods", !.gross = 9, !.tare = 3],
   [Blank EXCEPT !.format = "truck_and_goods", !.gross = 3, !.tare = 2],
   [Blank EXCEPT !.format = "unreported", !.weighings = <<4, 3>>, !.count = 2]}

VARIABLE side

PhotoInit == Init /\ WeighInit /\ side \in {"intake", "weights"}

PhotoNext ==
  /\ \/ side = "intake" /\ Next /\ UNCHANGED weighVars
     \/ side = "weights" /\ WeighNext /\ UNCHANGED vars
  /\ UNCHANGED side

\* Fairness and WeighFairness, each while its side takes the steps.
SideFairness ==
  /\ \A s \in Sessions : WF_vars(side = "intake" /\ Inspect(s))
  /\ \A c \in Calls : WF_vars(side = "intake" /\ Finalize(c))
  /\ \A m \in Manifests : WF_vars(side = "intake" /\ FallsDue(m))
  /\ WF_vars(side = "intake" /\ FindEligible)
  /\ \A c \in Candidates : WF_vars(side = "intake" /\ RedriveOnce(c))
  /\ WF_vars(side = "intake" /\ EndTick)
  /\ \A p \in Photos : /\ WF_weighVars(side = "weights" /\ Attempt(p))
                       /\ WF_weighVars(side = "weights" /\ StallDead(p))

PhotoSpec == PhotoInit /\ [][PhotoNext]_<<vars, weighVars, side>> /\ SideFairness
=============================================================================
