-------------------------------- MODULE Encoder --------------------------------
(***************************************************************************)
(* One rotary encoder: the two contacts as the matrix pass last sampled    *)
(* them (encoder_data, encoder_quadrature_read_pin in encoder.c) and the   *)
(* quadrature decoder with a resolution that is set at the start           *)
(* (encoder_dynamic_res.c).  A sample that could not be read counts as     *)
(* both contacts low (cue2keys.c).  The decoder is compared with the turn  *)
(* of the shaft, counted in quarter steps.                                 *)
(***************************************************************************)
EXTENDS Integers

CONSTANTS
  Span,        \* bound: the shaft turns in -Span .. Span
  MaxMisreads  \* bound: samples that fail

ASSUME EncoderAssumption == Span \in Nat /\ MaxMisreads \in Nat

VARIABLES
  shaft,     \* where the shaft is, in quarter steps
  level,     \* encoder_data: the contacts, A + 2 B, of the last sample
  encState,  \* encoder_state, its last two bits
  encPulses, \* encoder_pulses
  encRes,    \* encoder_resolutions
  encNet,    \* counter-clockwise less clockwise events, as queued
  counted,   \* history: sum of the quarter steps decoded since the start
  sampledAt, \* history: where the shaft was at the last sample, good or not
  goodAt,    \* history: at the last good sample
  goodCount, \* history: what was counted then
  base,      \* history: counted less turned after the first good sample
  misreads,  \* history: failed samples since
  sampled    \* history: there has been a good sample

encVars == <<shaft, level, encState, encPulses, encRes, encNet, counted, sampledAt, goodAt,
             goodCount, base, misreads, sampled>>

\* The contacts at a place of the shaft: one changes at a time.
Contacts(place) == CASE place % 4 = 0 -> 0 [] place % 4 = 1 -> 2 [] place % 4 = 2 -> 3 [] OTHER -> 1

\* A bug to detect: a table that lacks one transition.
GappyLUT(from, to) ==
  CASE <<from, to>> \in {<<0, 2>>, <<2, 3>>, <<1, 0>>}           -> 1
    [] <<from, to>> \in {<<2, 0>>, <<3, 2>>, <<1, 3>>, <<0, 1>>} -> -1
    [] OTHER -> 0
\* Another: two contacts changing at once count as two steps.
TwoStepLUT(from, to) ==
  CASE <<from, to>> \in {<<0, 2>>, <<2, 3>>, <<3, 1>>, <<1, 0>>} -> 1
    [] <<from, to>> \in {<<2, 0>>, <<3, 2>>, <<1, 3>>, <<0, 1>>} -> -1
    [] <<from, to>> \in {<<0, 3>>, <<3, 0>>, <<1, 2>>, <<2, 1>>} -> 2
    [] OTHER -> 0

\* encoder_LUT, by the contacts before and after.
LUT(from, to) ==
  CASE <<from, to>> \in {<<0, 2>>, <<2, 3>>, <<3, 1>>, <<1, 0>>} -> 1
    [] <<from, to>> \in {<<2, 0>>, <<3, 2>>, <<1, 3>>, <<0, 1>>} -> -1
    [] OTHER -> 0

\* Bugs to detect: a remainder that is never negative; a count kept at the limit.
FloorRemainder(x, n) == x % n
NoRemainder(x, n) == x

\* The % of C takes the sign of its first operand.
Remainder(x, n) == IF x >= 0 THEN x % n ELSE -((-x) % n)

\* encoder_resolutions as dynamic_res_encoder_update_res sets them.
Resolutions == {1, 2, 4, 8}

\* keyboard_post_init_kb_encoder, the contacts wherever they are.
EncoderInit ==
  /\ encRes \in Resolutions
  /\ level = 0 /\ encState = 0 /\ encPulses = 0
  /\ encNet = 0 /\ counted = 0 /\ goodCount = 0 /\ base = 0 /\ misreads = 0
  /\ sampled = FALSE
  /\ shaft \in 0 .. 3 /\ sampledAt = shaft /\ goodAt = shaft

\* A new start, perhaps with another resolution: only then it takes effect.
EncoderRestart ==
  /\ encRes' \in Resolutions
  /\ level' = 0 /\ encState' = 0 /\ encPulses' = 0
  /\ encNet' = 0 /\ counted' = 0 /\ goodCount' = 0 /\ base' = 0 /\ misreads' = 0
  /\ sampled' = FALSE
  /\ sampledAt' = shaft /\ goodAt' = shaft
  /\ UNCHANGED shaft

\* The shaft turns, by less than two quarter steps between two samples.
Turn ==
  /\ shaft' \in {shaft - 1, shaft + 1}
  /\ shaft' \in -Span .. Span
  /\ shaft' - sampledAt \in {-1, 0, 1}
  /\ UNCHANGED <<level, encState, encPulses, encRes, encNet, counted, sampledAt, goodAt,
                 goodCount, base, misreads, sampled>>

\* dynamic_res_encoder_quadrature_handle_read and _handle_state_change.
HandleRead(state) ==
  LET pulses == encPulses + LUT(encState, state)
  IN  /\ encState' = state
      /\ encPulses' = Remainder(pulses, encRes)
      /\ encNet' = encNet + (IF pulses >= encRes THEN 1 ELSE 0) - (IF pulses <= -encRes THEN 1 ELSE 0)
      /\ counted' = counted + LUT(encState, state)

\* A matrix pass has read the module and encoder_driver_task follows.
SampleGood ==
  /\ level' = Contacts(shaft)
  /\ HandleRead(Contacts(shaft))
  /\ sampledAt' = shaft /\ goodAt' = shaft /\ goodCount' = counted'
  /\ base' = IF sampled THEN base ELSE counted' - shaft
  /\ misreads' = IF sampled THEN misreads ELSE 0
  /\ sampled' = TRUE
  /\ UNCHANGED <<shaft, encRes>>

\* The module could not be read: encoder_data is 0 for this pass.
SampleFails ==
  /\ misreads < MaxMisreads
  /\ level' = 0
  /\ HandleRead(0)
  /\ sampledAt' = shaft
  /\ misreads' = misreads + 1
  /\ UNCHANGED <<shaft, encRes, goodAt, goodCount, base, sampled>>

EncoderNext == EncoderRestart \/ Turn \/ SampleGood \/ SampleFails

EncoderSpec == EncoderInit /\ [][EncoderNext]_encVars

(***************************************************************************)
(* Properties.                                                             *)
(***************************************************************************)

\* Every variable has its type; the pulses stay below the resolution, far from
\* the limits of int8_t.
EncoderTypeOK ==
  /\ shaft \in Int /\ sampledAt \in Int /\ goodAt \in Int
  /\ level \in 0 .. 3 /\ encState = level
  /\ encRes \in Resolutions
  /\ encPulses \in Int /\ 0 < encRes + encPulses /\ encPulses < encRes
  /\ encNet \in Int /\ counted \in Int /\ goodCount \in Int /\ base \in Int
  /\ misreads \in Nat /\ sampled \in BOOLEAN

\* The events, at the resolution, and what is left of the pulses are all that
\* was decoded: the remainder after an event drops no quarter step.
PulsesConserved == encNet * encRes + encPulses = counted

\* Samples that fail do not lead the count astray by more than four quarter
\* steps each, always by an even number, and without them the count is exact.
DriftBounded ==
  sampled => LET drift == goodCount - goodAt - base
             IN  drift % 2 = 0 /\ -4 * misreads <= drift /\ drift <= 4 * misreads

\* However many samples of a resting encoder fail, the next good one leaves the
\* count as the last good one did, although events may have come and gone.
RestingKeepsCount ==
  [][SampleGood /\ sampled /\ shaft = goodAt => goodCount' = goodCount]_encVars

\* So the events follow the shaft (dynamic_res_encoder_handle_state_change).
EventsFollowShaft == PulsesConserved /\ DriftBounded
================================================================================
