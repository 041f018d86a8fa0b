-------------------------------- MODULE MagKey --------------------------------
(***************************************************************************)
(* One magnetic key: the analogue reading, the points where it actuates    *)
(* and resets, the rapid trigger with its moving anchor (magkey_utils.c),  *)
(* and the pass of the matrix that reads it (cue2keys.c).  The key's state *)
(* is kept by the index of its module in the device list, which a scan may *)
(* give to another module: a scan and a change of the resolution forget    *)
(* it, a change of the key's own settings, which the host makes at any     *)
(* time, does not.                                                         *)
(***************************************************************************)
EXTENDS Integers

CONSTANTS
  MaxValue,  \* the highest reading at full resolution, 2^12 - 1
  Divisors   \* 2^value_shift for each magkey_data_bytes setting

ASSUME MagAssumption ==
  /\ MaxValue \in Nat /\ 2 * MaxValue < 65536  \* uint16_t sums do not wrap
  /\ Divisors \subseteq Nat \ {0} /\ 1 \in Divisors

VARIABLES
  depth,      \* how far the key is down, as a full resolution reading
  actuation,  \* the key's actualtion_point, reset_point, rapid_trigger_enable
  reset,
  rapid,
  divisor,    \* the resolution the settings ask for
  current,    \* magkey_current_data_bytes, the resolution of the cached values
  lastValid,  \* magkey_last_valid, magkey_last_values
  last,
  pressed,    \* magkey_pressed
  anchor,     \* magkey_rt_anchor
  bit,        \* the key's bit in the matrix
  calm,       \* history: no setting changed since the anchor was set
  extreme     \* history: highest reading since the press, lowest since the release

settings == <<actuation, reset, rapid, divisor>>
cache    == <<current, lastValid, last, pressed, anchor>>
vars     == <<depth, actuation, reset, rapid, divisor, current, lastValid, last,
              pressed, anchor, bit, calm, extreme>>

Value == 0 .. MaxValue

\* The program has just started.
Init ==
  /\ depth \in Value
  /\ actuation \in Value /\ reset \in Value /\ rapid \in BOOLEAN
  /\ divisor \in Divisors /\ current = 1  \* MAGKEY_DATA_BYTES_MAX
  /\ lastValid = FALSE /\ last = 0 /\ pressed = FALSE /\ anchor = 0
  /\ bit = FALSE
  /\ calm = FALSE /\ extreme = 0

(***************************************************************************)
(* magkey_update_pressed.                                                  *)
(***************************************************************************)

\* The two points at the resolution in use, whichever way round they are set.
High  == (IF actuation < reset THEN reset ELSE actuation) \div divisor
Low   == (IF actuation < reset THEN actuation ELSE reset) \div divisor
Delta == IF High = Low THEN 1 ELSE High - Low

\* Bugs to detect: the key resets only below its reset point; or already at the
\* point where it actuates.
StaysDownAt(v)   == v >= Low
StaysDownHigh(v) == v > High

StaysDown(v) == v > Low

\* Without the rapid trigger: down from High on, up again at Low.
Plain(v, was) ==
  /\ pressed' = IF was THEN StaysDown(v) ELSE v >= High
  /\ anchor' = v

\* A bug to detect: the anchor follows the finger both ways.
FollowAlways(v, a) == v

\* The anchor of a pressed key is the highest reading, of a released the lowest.
FollowDown(v, a) == IF v > a THEN v ELSE a
FollowUp(v, a)   == IF v < a THEN v ELSE a

\* With it: up out of the zone above High, down on entering it, and inside on
\* every turn of the finger by Delta.
Rapid(v, prev, was, a) ==
  CASE v < High               -> pressed' = FALSE /\ anchor' = v
    [] v >= High /\ prev < High -> pressed' = TRUE /\ anchor' = v
    [] v >= High /\ prev >= High /\ was ->
         LET top == FollowDown(v, a)
         IN  IF top >= Delta /\ v <= top - Delta
             THEN pressed' = FALSE /\ anchor' = v
             ELSE pressed' = TRUE /\ anchor' = top
    [] OTHER ->
         LET bottom == FollowUp(v, a)
         IN  IF v >= bottom + Delta
             THEN pressed' = TRUE /\ anchor' = v
             ELSE pressed' = FALSE /\ anchor' = bottom

\* A bug to detect: the values of another resolution or module are kept.
KeepCachedValues == UNCHANGED <<lastValid, pressed, anchor>>

\* magkey_reset_cached_values.
ResetCachedValues == lastValid' = FALSE /\ pressed' = FALSE /\ anchor' = 0

\* load_magkey_runtime_config forgets the values of another resolution.
ResetCache == current # divisor

\* read_magkey_device_data: the first value only sets the anchor.
Read ==
  LET v     == depth \div divisor
      known == lastValid /\ ~ResetCache
      anew  == ~known \/ ~rapid \/ v < High \/ pressed' # pressed
  IN  /\ current' = divisor
      /\ IF ~known THEN pressed' = FALSE /\ anchor' = v
         ELSE IF rapid THEN Rapid(v, last, pressed, anchor)
         ELSE Plain(v, pressed)
      /\ last' = v /\ lastValid' = TRUE
      /\ bit' = pressed'
      /\ extreme' = IF anew THEN v
                    ELSE IF v > extreme <=> pressed THEN v ELSE extreme
      /\ calm' = (calm \/ anew)
      /\ UNCHANGED <<depth, settings>>

\* A read that fails leaves the bit clear for this pass.  The resolution was
\* taken over at the beginning of the row.
ReadFails ==
  /\ bit' = FALSE
  /\ current' = divisor
  /\ IF ResetCache
     THEN ResetCachedValues
     ELSE UNCHANGED <<lastValid, pressed, anchor>>
  /\ UNCHANGED <<depth, settings, last, calm, extreme>>

(***************************************************************************)
(* The finger, the host and the scan.                                      *)
(***************************************************************************)

Move ==
  /\ depth' \in Value
  /\ UNCHANGED <<settings, cache, bit, calm, extreme>>

\* handle_set_magkey_config_command and the magkey_data_bytes parameter.
Configure ==
  /\ actuation' \in Value /\ reset' \in Value /\ rapid' \in BOOLEAN
  /\ divisor' \in Divisors
  /\ calm' = FALSE
  /\ UNCHANGED <<depth, cache, bit, extreme>>

\* do_scan gives the index to another module, at another place of the matrix.
Rescan ==
  /\ depth' \in Value
  /\ actuation' \in Value /\ reset' \in Value /\ rapid' \in BOOLEAN
  /\ ResetCachedValues
  /\ bit' \in BOOLEAN
  /\ UNCHANGED <<divisor, current, last, calm, extreme>>

Next == Read \/ ReadFails \/ Move \/ Configure \/ Rescan

\* Every pass of the matrix reads the key, with or without success.
Spec     == Init /\ [][Next]_vars
FairSpec == Spec /\ WF_vars(Read \/ ReadFails)

(***************************************************************************)
(* Properties.                                                             *)
(***************************************************************************)

\* Every variable has its type, and no cached value exceeds its resolution.
TypeOK ==
  /\ depth \in Value /\ actuation \in Value /\ reset \in Value
  /\ rapid \in BOOLEAN /\ divisor \in Divisors /\ current \in Divisors
  /\ lastValid \in BOOLEAN /\ pressed \in BOOLEAN /\ bit \in BOOLEAN /\ calm \in BOOLEAN
  /\ last \in Value /\ anchor \in Value /\ extreme \in Value
  /\ lastValid => last <= MaxValue \div current

Tracked == rapid /\ calm /\ lastValid /\ current = divisor

\* The rapid trigger keeps its word against the whole history of readings: a
\* key is down only in the zone and within Delta of its highest point since it
\* went down, and up in the zone only within Delta of its lowest since.  Only a
\* changed setting suspends it, not a scan that brings another module.
RapidTurnsAtDelta ==
  Tracked =>
    IF pressed THEN last >= High /\ last + Delta > extreme
    ELSE last >= High => last < extreme + Delta

\* A finger that keeps still does not release the key, so that it never
\* chatters, unless the points have become one at the resolution in use: a good
\* reading that repeats the last one leaves a key down that is marked as down,
\* while its settings and the resolution stay.  It does not say that the key stays
\* down from one reading to the next: a read that fails clears its bit, a scan and
\* a new resolution clear the mark.
StillKeyStaysDown ==
  [][Read /\ pressed /\ calm /\ current = divisor /\ depth \div divisor = last /\ (rapid \/ High > Low)
       => pressed']_vars

\* A key that is let go does not stay down, whatever the host and scans did to
\* it before, unless its points are 0 at the resolution in use.
LetGo == depth = 0 /\ High > 0
ReleasedKeyRests ==
  (<>[]LetGo /\ <>[][~(Configure \/ Rescan)]_vars) => <>[](~bit)
=============================================================================
