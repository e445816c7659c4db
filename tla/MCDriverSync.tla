---------------------------- MODULE MCDriverSync ----------------------------
(* Small instances of DriverSync and QueueOrder. *)
EXTENDS QueueOrder, TLC

CONSTANTS a1, a2, b1, b2, x, y, none, l1, l2

\* Two actions of each of two aggregates; the first of y waits for the first of x.
FourActions == {a1, a2, b1, b2}
FourAggregateOf == (a1 :> x) @@ (a2 :> x) @@ (b1 :> y) @@ (b2 :> y)
FourRank == (a1 :> 1) @@ (a2 :> 2) @@ (b1 :> 1) @@ (b2 :> 2)
FourBlocker == (a1 :> none) @@ (a2 :> none) @@ (b1 :> a1) @@ (b2 :> none)

TwoLoops == {l1, l2}
AllAnswers == AnswerKinds

\* A request that arrives late or never, a failure of the storage and a kill, one of each.
OneOfEach == [k \in FaultKinds |-> IF k \in {"late", "storage", "crash"} THEN 1 ELSE 0]

\* One loop that nothing disturbs.
OneLoop == {l1}
OnlyOk == {"ok"}
NoFaults == [k \in FaultKinds |-> 0]

\* What a driver queues, and how many kinds of fault that meets: two of one aggregate, one
\* that waits for another, or two of one aggregate with the first blocked.
Scopes == {<<{a1, a2}, 1>>, <<{a1, b1}, 2>>, <<{b1, b2}, 2>>}

InScope ==
  \E scope \in Scopes :
    /\ {a \in Actions : status[a] # "absent"} \subseteq scope[1]
    /\ Cardinality({k \in FaultKinds : faults[k] > 0}) <= scope[2]

PairSpec == OrderInit /\ [][OrderNext /\ InScope']_orderVars

Symmetry == Permutations({l1, l2})
=============================================================================
