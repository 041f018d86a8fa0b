------------------------------ MODULE MCKbConfig ------------------------------
(* Two cells of the general section, the second the display mode, and one of *)
(* a magnetic key.                                                           *)
EXTENDS KbConfig, TLC

MCSectionOf == (1 :> "general") @@ (2 :> "general") @@ (3 :> "magkey")
MCChunkOf   == (1 :> 0) @@ (2 :> 0) @@ (3 :> 1)
MCDefault   == (1 :> 1) @@ (3 :> 1)
MCFits      == (1 :> Value) @@ (2 :> Value) @@ (3 :> {0, 1})
=============================================================================
