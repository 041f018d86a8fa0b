------------------------------ MODULE PendantLed ------------------------------
(***************************************************************************)
(* The pendant's four LEDs (pendant_led.c), which housekeeping_task_kb     *)
(* refreshes once in every round of the superloop from a millisecond timer *)
(* that wraps.  LED 0 is W, 1 is G, 2 is Y and 3 is R.                     *)
(***************************************************************************)
EXTENDS Integers, FiniteSets

CONSTANTS
  ScanPeriod, \* 100 ms, in ticks
  ClockSpan,  \* the timer's 2^32 ms, in ticks
  MaxGap,     \* bound: ticks between two rounds of the superloop, which may be more
              \* than a period (sensors that wake up, a host command that waits)
  Layers,     \* bound: layers that can be the highest
  Randoms     \* bound: values of rand() & 0x0F

ASSUME LedAssumption ==
  /\ ScanPeriod \in Nat \ {0} /\ MaxGap \in Nat \ {0}
  /\ ClockSpan \in Nat /\ ClockSpan > ScanPeriod + MaxGap
  /\ Layers \subseteq Nat /\ Randoms \subseteq 0 .. 15

LedModes == {"Off", "Layer", "RandomOnType", "Scanning"}
Leds     == 0 .. 3

VARIABLES
  ledMode,   \* base_mode
  random,    \* current_random_value
  scanIndex, \* scanning_led_index
  scanLast,  \* scanning_last_time
  clock,     \* timer_read32
  lit,       \* the LEDs that are on
  gap,       \* ticks since the last round
  waited,    \* history: ticks since Scanning lit an LED or another mode wrote
  inScan     \* history: the LED that is lit is Scanning's

ledVars == <<ledMode, random, scanIndex, scanLast, clock, lit, gap, waited, inScan>>

\* Of a value that is written the low four bits are shown.
LedsOf(value) == {led \in Leds : (value \div 2 ^ led) % 2 = 1}

\* The statics; a start always reaches pendant_led_set_mode_base.
LedInit ==
  /\ ledMode \in LedModes
  /\ random = 0 /\ scanIndex = 0 /\ scanLast = 0
  /\ clock \in 0 .. ClockSpan - 1
  /\ lit = {} /\ gap = 0 /\ waited = 0 /\ inScan = FALSE

\* pendant_led_set_mode_base, at a start and for the host's led_base_mode.
SetLedMode(mode) ==
  /\ ledMode' = mode
  /\ UNCHANGED <<random, scanIndex, scanLast, clock, lit, gap, waited, inScan>>

\* pendant_led_set_on_typing: of the pseudo random value only its range is known.
OnTyping(value) ==
  /\ random' = value
  /\ UNCHANGED <<ledMode, scanIndex, scanLast, clock, lit, gap, waited, inScan>>

\* Bugs to detect: the times are compared without regard to the wrap; the scan
\* begins where it was left; the index runs past the last LED.
DueBeforeWrap(last)  == clock >= last + ScanPeriod
WhereItWas(index)    == index
PastTheLast(index)   == index + 1

Due(last)        == (clock - last) % ClockSpan >= ScanPeriod
IndexFrom(index) == IF ledMode = "Scanning" THEN index ELSE 0
After(index)     == (index + 1) % 4

\* pendant_led_refresh
Refresh(layer) ==
  LET index == IndexFrom(scanIndex)
      last  == IF ledMode = "Scanning" THEN scanLast ELSE 0
      step  == ledMode = "Scanning" /\ Due(last)
  IN  /\ lit' = CASE ledMode = "Off"          -> {}
                  [] ledMode = "Layer"        -> LedsOf(layer)
                  [] ledMode = "RandomOnType" -> LedsOf(random)
                  [] step                     -> {index}
                  [] OTHER                    -> lit
      /\ scanIndex' = IF step THEN After(index) ELSE index
      /\ scanLast' = IF step THEN clock ELSE last
      /\ waited' = IF step \/ ledMode # "Scanning" THEN 0 ELSE waited
      /\ inScan' = (step \/ (ledMode = "Scanning" /\ inScan))
      /\ gap' = 0
      /\ UNCHANGED <<ledMode, random, clock>>

LedTick(ticks) ==
  /\ gap + ticks <= MaxGap /\ gap' = gap + ticks
  /\ clock' = (clock + ticks) % ClockSpan
  /\ waited' = waited + ticks
  /\ UNCHANGED <<ledMode, random, scanIndex, scanLast, lit, inScan>>

LedNext ==
  \/ \E mode \in LedModes : SetLedMode(mode)
  \/ \E value \in Randoms : OnTyping(value)
  \/ \E layer \in Layers : Refresh(layer)
  \/ \E ticks \in 1 .. MaxGap : LedTick(ticks)

LedSpec == LedInit /\ [][LedNext]_ledVars

(***************************************************************************)
(* Properties.                                                             *)
(***************************************************************************)

\* Every variable has its type; only LEDs there are light up.
LedTypeOK ==
  /\ ledMode \in LedModes /\ random \in 0 .. 15 /\ scanIndex \in Leds
  /\ scanLast \in 0 .. ClockSpan - 1 /\ clock \in 0 .. ClockSpan - 1
  /\ lit \subseteq Leds /\ gap \in 0 .. MaxGap /\ waited \in Nat /\ inScan \in BOOLEAN

\* While Scanning one LED is lit at a time: W first, whatever was shown and
\* scanned before, then each the successor of the last, not before its time is over.
ScanGoesRound ==
  [][ledMode = "Scanning" /\ lit' # lit =>
       IF inScan THEN waited >= ScanPeriod /\ \E led \in Leds : lit = {led} /\ lit' = {(led + 1) % 4}
       ELSE lit' = {0}]_ledVars

\* While Scanning no LED stays longer than its time and two rounds of the
\* superloop, also when the timer wraps, and nothing another mode left does.
ScanKeepsTime == ledMode = "Scanning" => waited <= ScanPeriod + 2 * MaxGap

\* One LED at a time is lit by the scan.
OneLedLit == inScan => \E led \in Leds : lit = {led}

\* The scan goes round at its pace (pendant_led_refresh).
ScanIsSteady == [](ScanKeepsTime /\ OneLedLit) /\ ScanGoesRound
================================================================================
