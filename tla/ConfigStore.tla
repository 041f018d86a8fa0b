----------------------------- MODULE ConfigStore -----------------------------
(***************************************************************************)
(* What the keyboard configuration promises its user: the settings in      *)
(* force are live at once, reach the storage one cell at a time, come back *)
(* after a power cut with the values the storage has, and when the store   *)
(* is settled no setting is left that a power cut could lose.              *)
(***************************************************************************)
CONSTANTS
  Cells,        \* the separately written pieces of the configuration
  Value,        \* every value a cell can have
  Restored(_)   \* the settings a boot adopts from stored ones

VARIABLES
  on,       \* whether the keyboard has power
  live,     \* the settings in force, while it has
  stored,   \* what is in the storage
  settled   \* nothing is left to write

vars == <<on, live, stored, settled>>

Init ==
  /\ on = FALSE
  /\ live \in [Cells -> Value] /\ stored \in [Cells -> Value]
  /\ settled = FALSE

\* A command changes settings, or asks for all of them to be written again.
Set ==
  /\ on
  /\ live' \in [Cells -> Value] /\ settled' = FALSE
  /\ UNCHANGED <<on, stored>>

\* One cell reaches the storage.
Store ==
  /\ on /\ ~settled
  /\ \E c \in Cells : stored' = [stored EXCEPT ![c] = live[c]]
  /\ UNCHANGED <<on, live, settled>>

Settle ==
  /\ on /\ stored = live
  /\ settled' = TRUE
  /\ UNCHANGED <<on, live, stored>>

PowerCut ==
  /\ on /\ on' = FALSE
  /\ live' \in [Cells -> Value] /\ settled' = FALSE
  /\ UNCHANGED stored

\* Power returns.  A storage without settings starts from new ones.
Boot(restored) ==
  /\ ~on /\ on' = TRUE
  /\ UNCHANGED stored
  /\ IF restored
     THEN live' = Restored(stored) /\ settled' = (live' = stored)
     ELSE live' \in [Cells -> Value] /\ settled' = FALSE

Next == Set \/ Store \/ Settle \/ PowerCut \/ \E r \in BOOLEAN : Boot(r)

Spec == Init /\ [][Next]_vars
=============================================================================
