----------------------------- MODULE MCKeymapLayout -----------------------------
(* One device upstream of the multiplexer and channels of four and of one.   *)
(* Two rows of eight keys for each channel.                                  *)
EXTENDS KeymapLayout

MCSlots == {<<0, 5>>, <<1, 1>>, <<1, 2>>, <<1, 3>>, <<1, 4>>, <<2, 1>>}
=============================================================================
