------------------------------- MODULE DragScroll -------------------------------
(***************************************************************************)
(* Scrolling with the trackballs while the DRAG_SCROLL key is held         *)
(* (trackball_apply_common_report in trackball.c): motion is collected in  *)
(* one accumulator for all balls, in units of 1 / SCROLL_DIVISOR, and each *)
(* report turns what has been collected into wheel steps at the speed of   *)
(* its ball.  One axis; the other differs in the flag that inverts it.     *)
(***************************************************************************)
EXTENDS Integers

CONSTANTS
  NumBalls, \* TRACKBALL_SLOT_COUNT, of those in use
  Speeds,   \* values of drag_scroll_speed_magnification
  Strides   \* bound: how far a ball moves between two reports along the axis

\* The sensors' twelve bits along both axes, turned by the angle of the ball.
LongestStride == 2896

ASSUME DragAssumption ==
  /\ NumBalls \in Nat \ {0}
  /\ Speeds \subseteq 0 .. 15 /\ 3 \in Speeds
  /\ Strides \subseteq 0 .. LongestStride /\ 0 \in Strides

Balls   == 1 .. NumBalls
Motions == Strides \cup {-x : x \in Strides}
Divisor == 32  \* SCROLL_DIVISOR_H, SCROLL_DIVISOR_V

VARIABLES
  scrolling,  \* set_scrolling
  dragAcc,    \* scroll_accumulated_h, in 1 / Divisor
  dragSpeed,  \* by ball, drag_scroll_speed_magnification
  dragInvert, \* by ball, invert_drag_scroll_y
  ball,       \* the slot pointing_device_driver_get_report reads next
  wheel,      \* h of the report just read
  exact,      \* history: all speeds were 3 since the accumulator was cleared
  owed        \* history: and what was moved less what was scrolled since

dragVars == <<scrolling, dragAcc, dragSpeed, dragInvert, ball, wheel, exact, owed>>

DragInit ==
  /\ scrolling = FALSE /\ dragAcc = 0
  /\ dragSpeed \in [Balls -> Speeds] /\ dragInvert \in [Balls -> BOOLEAN]
  /\ ball = 1 /\ wheel = 0
  /\ exact = (\A b \in Balls : dragSpeed[b] = 3) /\ owed = 0

\* A conversion to an integer type drops the fraction, whatever the sign.
Truncated(x, n) == IF x >= 0 THEN x \div n ELSE -((-x) \div n)

\* The conversion to int8_t, of a number that may not fit: C leaves it undefined,
\* the build (RP2040, floating point in software) converts to 32 bits and keeps the
\* low byte.
Int8(n) == ((n + 128) % 256) - 128

\* A bug to detect: the fraction is rounded down.
FlooredSteps(acc, speed) == Int8((acc * (speed + 1)) \div (4 * Divisor))

\* The wheel steps of what has been collected, at (speed + 1) * 0.25.
WheelSteps(acc, speed) == Int8(Truncated(acc * (speed + 1), 4 * Divisor))

\* A bug to detect: nothing is subtracted.
AllKept(acc) == acc

\* What is left to collect: whole units are taken off, at any speed.
LeftOver(acc) == acc - Divisor * Int8(Truncated(acc, Divisor))

\* One slot of a report.  Nothing else runs before the last slot is read.
ReadBall(x) ==
  LET acc   == dragAcc + x
      steps == WheelSteps(acc, dragSpeed[ball])
  IN  /\ ball' = IF ball = NumBalls THEN 1 ELSE ball + 1
      /\ IF scrolling
         THEN /\ wheel' = IF dragInvert[ball] THEN -steps ELSE steps
              /\ dragAcc' = LeftOver(acc)
              /\ owed' = IF exact THEN owed + x - Divisor * steps ELSE 0
         ELSE wheel' = 0 /\ UNCHANGED <<dragAcc, owed>>
      /\ UNCHANGED <<scrolling, dragSpeed, dragInvert, exact>>

\* The DRAG_SCROLL key, which leaves the accumulator alone.
DragKey ==
  /\ ball = 1
  /\ scrolling' = ~scrolling
  /\ UNCHANGED <<dragAcc, dragSpeed, dragInvert, ball, wheel, exact, owed>>

\* The host's drag scroll parameters, which clear it.
SetDrag(b, speed, invert) ==
  /\ ball = 1
  /\ dragSpeed' = [dragSpeed EXCEPT ![b] = speed]
  /\ dragInvert' = [dragInvert EXCEPT ![b] = invert]
  /\ dragAcc' = 0
  /\ exact' = (\A c \in Balls : dragSpeed'[c] = 3) /\ owed' = 0
  /\ UNCHANGED <<scrolling, ball, wheel>>

\* The host's command reset_all_params, which does not.
ResetDrag ==
  /\ ball = 1
  /\ dragSpeed' = [b \in Balls |-> 3]
  /\ dragInvert' = [b \in Balls |-> FALSE]
  /\ UNCHANGED <<scrolling, dragAcc, ball, wheel, exact, owed>>

DragNext ==
  \/ \E x \in Motions : ReadBall(x)
  \/ DragKey
  \/ \E b \in Balls, speed \in Speeds, invert \in BOOLEAN : SetDrag(b, speed, invert)
  \/ ResetDrag

DragSpec == DragInit /\ [][DragNext]_dragVars

(***************************************************************************)
(* Properties.                                                             *)
(***************************************************************************)

\* Every variable has its type; less than a unit is ever left over.
DragTypeOK ==
  /\ scrolling \in BOOLEAN /\ exact \in BOOLEAN
  /\ dragAcc \in 1 - Divisor .. Divisor - 1 /\ owed \in Int /\ wheel \in Int
  /\ dragSpeed \in [Balls -> Speeds] /\ dragInvert \in [Balls -> BOOLEAN]
  /\ ball \in Balls

\* At the default speed no motion is lost or doubled, however many balls and
\* reports it is spread over: what was moved since the accumulator was cleared is
\* what was scrolled and what is left in it.
NoMotionLost == exact => owed = dragAcc

\* And what is still to be scrolled is less than a unit of motion.
LittleIsOwed == exact => owed \in 1 - Divisor .. Divisor - 1

\* Up to the default speed the wheel turns the way the ball that is read turns
\* and rests when that rests, although the balls share the accumulator.
Forward(x, steps) == steps = 0 \/ (x > 0 /\ steps > 0) \/ (x < 0 /\ steps < 0)
Turns(b)          == IF dragInvert[b] THEN -wheel' ELSE wheel'
SlowWheelFollowsBall ==
  [][\A x \in Motions : ReadBall(x) /\ dragSpeed[ball] <= 3 => Forward(x, Turns(ball))]_dragVars

\* One step faster a byte still holds the steps of every stroke, with what was left
\* over: one of more than a unit turns the wheel its own way.  At the speeds above
\* it overflows, and the wheel may turn the other way.
StrokeScrollsItsWay ==
  [][\A x \in Motions : ReadBall(x) /\ dragSpeed[ball] <= 4 /\ (x > Divisor \/ x < -Divisor)
       => Forward(x, Turns(ball))]_dragVars

\* What trackball_apply_common_report keeps of the motion: all of it at the default
\* speed, its direction at that and the slower ones, and that of long strokes at the
\* next.  Below the default speed whole units are dropped and above it a rest scrolls
\* again; neither is excluded here.
ScrollFollowsBalls ==
  [](NoMotionLost /\ LittleIsOwed) /\ SlowWheelFollowsBall /\ StrokeScrollsItsWay

\* drag_scroll_speed_magnification is meant as a factor ("value * 0.25"): a ball
\* that rests has nothing to scroll at any speed.
RestingBallScrollsNothing ==
  [][ReadBall(0) => wheel' = 0]_dragVars
================================================================================
