----------------------------- MODULE MCModuleBus -----------------------------
(* Small instances of ModuleBus for TLC. *)
EXTENDS ModuleBus, TLC

CONSTANTS k1, e2, u0

MCModules == {k1, e2, u0}
MCChanOf  == (k1 :> 1) @@ (e2 :> 2) @@ (u0 :> 0)
MCKindOf  == (k1 :> "keys") @@ (e2 :> "re") @@ (u0 :> "keys")

\* Two modules share a channel.
SharedChanOf == (k1 :> 1) @@ (e2 :> 1) @@ (u0 :> 0)

\* Two modules on two channels that share an address.
TwoModules == {k1, e2}
TwoChanOf  == (k1 :> 1) @@ (e2 :> 2)
TwoKindOf  == (k1 :> "keys") @@ (e2 :> "re")

\* Encoders on both channels, in one row of the matrix.
EncKindOf == (k1 :> "re") @@ (e2 :> "re") @@ (u0 :> "keys")
=============================================================================
