----------------------------- MODULE CommandFate -----------------------------
(***************************************************************************)
(* What the gateway promises for each command, without sockets or pushes:  *)
(* a command it takes stays open until it is acknowledged, pushed or       *)
(* dead-lettered, exactly one of the three.  A restart loses what is open  *)
(* and the dead letters, nothing else does.                                *)
(***************************************************************************)
CONSTANT Commands

VARIABLE fate  \* fate[c]

Fates == {"unknown", "open", "acked", "pushed", "dead", "lost"}
Settled == {"acked", "pushed", "dead"}

Init == fate = [c \in Commands |-> "unknown"]

Take(c) ==
  /\ fate[c] = "unknown"
  /\ \E f \in {"open", "lost"} : fate' = [fate EXCEPT ![c] = f]

Settle(c) ==
  /\ fate[c] = "open"
  /\ \E f \in Settled : fate' = [fate EXCEPT ![c] = f]

\* Commands on their way to the gateway are lost with it.
Restart(coming) ==
  /\ \A c \in coming : fate[c] = "unknown"
  /\ fate' = [c \in Commands |->
                IF c \in coming \/ fate[c] \in {"open", "dead"} THEN "lost" ELSE fate[c]]

Next ==
  \/ \E c \in Commands : Take(c) \/ Settle(c)
  \/ \E coming \in SUBSET Commands : Restart(coming)

Spec == Init /\ [][Next]_fate
=============================================================================
