----------------------------- MODULE MCEncoderMix -----------------------------
(* A first generation encoder on channel 1, a second generation one on 2. *)
EXTENDS ModuleBus, TLC

CONSTANTS v1, v2

MixModules == {v1, v2}
MixChanOf  == (v1 :> 1) @@ (v2 :> 2)
MixKindOf  == (v1 :> "reV1") @@ (v2 :> "re")

\* Both encoders are plugged in, from the start and for good.
MixSpec == Init /\ present = Modules /\ [][Next]_vars
=============================================================================
