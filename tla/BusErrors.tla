------------------------------ MODULE BusErrors ------------------------------
(***************************************************************************)
(* ModuleBus with a history of each device's reads: how many of its latest *)
(* reads failed in a row.  The firmware's own counter, consecutive_errors, *)
(* is set to 0 only when a scan lists the device (append_device).          *)
(***************************************************************************)
EXTENDS ModuleBus

VARIABLE streak  \* streak[s]: failed reads of s since its last good one

StreakInit == Init /\ streak = [s \in Slots |-> 0]

\* The device a read step is about.
ReadOf(s) == pc = "read" /\ s \in pending /\ Head(s)

StreakNext ==
  /\ Next
  /\ streak' = [s \in Slots |->
       CASE pc = "scanStart"        -> 0
         [] ReadDevice /\ ReadOf(s) -> 0
         [] ReadFails /\ ReadOf(s)  -> streak[s] + 1
         [] OTHER                   -> streak[s]]

StreakSpec == StreakInit /\ [][StreakNext]_<<vars, streak>>

\* "Rescan I2C devices after consecutive read errors" (kb_config.h): a scan the
\* read errors of a device start follows Threshold failed reads in a row of it.
RescanAfterConsecutiveErrors ==
  [][pc = "read" /\ pc' = "scanStart" =>
       \E s \in Slots : ReadOf(s) /\ streak'[s] >= Threshold]_<<vars, streak>>
=============================================================================
