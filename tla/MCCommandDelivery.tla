-------------------------- MODULE MCCommandDelivery --------------------------
(* Small instances of CommandDelivery: the gateway alone. *)
EXTENDS CommandDelivery, TLC

CONSTANTS c1, c2, d1, d2, o1, o2

\* One operator with two devices, and one whose devices are never connected.
MCCommands == {c1, c2}
MCDevices == {d1, d2}
MCTarget == (c1 :> o1) @@ (c2 :> o2)
MCOwner == (d1 :> o1) @@ (d2 :> o1)

\* The first operator's command alone.
OneCommand == {c1}
=============================================================================
