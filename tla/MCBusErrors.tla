----------------------------- MODULE MCBusErrors -----------------------------
(* One key module whose reads fail now and then. *)
EXTENDS BusErrors, TLC

CONSTANT k1

OneModule == {k1}
OneChanOf == k1 :> 1
OneKindOf == k1 :> "keys"
=============================================================================
