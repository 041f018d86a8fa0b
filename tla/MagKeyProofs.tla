----------------------------- MODULE MagKeyProofs -----------------------------
(***************************************************************************)
(* The rapid trigger keeps its word, for every range of readings and every *)
(* set of resolutions.                                                     *)
(*                                                                         *)
(* The code knows only the anchor, which it moves with the finger; that    *)
(* the key turns at Delta from the true extreme of the readings needs that *)
(* the two are the same (AnchorIsExtreme) as long as no setting changes.   *)
(* That a still finger does not release the key needs also what a press    *)
(* without the rapid trigger leaves (AboveLow).                            *)
(***************************************************************************)
EXTENDS MagKey, TLAPS

\* What is pressed has been read.
HeldIsKnown == pressed => lastValid

\* The moving anchor is the extreme of all readings since the key turned.
AnchorIsExtreme == Tracked => anchor = extreme

\* Without the rapid trigger a pressed key was last read above its reset point.
AboveLow == pressed /\ calm /\ current = divisor /\ ~rapid /\ High > Low => last > Low

IInv == TypeOK /\ HeldIsKnown /\ AnchorIsExtreme /\ RapidTurnsAtDelta /\ AboveLow

(***************************************************************************)
(* Values at a resolution.                                                 *)
(***************************************************************************)

LEMMA DivMonotonic ==
  ASSUME NEW d \in Nat \ {0}, NEW x \in Nat, NEW y \in Nat, x <= y
  PROVE  x \div d <= y \div d /\ x \div d \in Nat
OBVIOUS

LEMMA DivSmaller ==
  ASSUME NEW d \in Nat \ {0}, NEW x \in Nat
  PROVE  x \div d <= x /\ x \div d \in Nat
OBVIOUS

\* A reading at a resolution is a reading, and within it.
LEMMA ShiftedReading ==
  ASSUME NEW x \in Value, NEW d \in Divisors
  PROVE  x \div d \in Value /\ x \div d <= MaxValue \div d
<1>1. d \in Nat \ {0} /\ x \in Nat /\ MaxValue \in Nat /\ x <= MaxValue
  BY MagAssumption DEF Value
<1>2. x \div d <= MaxValue \div d
  BY <1>1, DivMonotonic
<1>3. x \div d <= x /\ x \div d \in Nat
  BY <1>1, DivSmaller
<1> QED
  BY <1>1, <1>2, <1>3 DEF Value

LEMMA Points ==
  ASSUME TypeOK
  PROVE  High \in Nat /\ Low \in Nat /\ Low <= High /\ Delta \in Nat \ {0}
<1> DEFINE top    == IF actuation < reset THEN reset ELSE actuation
           bottom == IF actuation < reset THEN actuation ELSE reset
<1>1. top \in Nat /\ bottom \in Nat /\ bottom <= top /\ divisor \in Nat \ {0}
  BY MagAssumption DEF TypeOK, Value
<1>2. bottom \div divisor <= top \div divisor /\ bottom \div divisor \in Nat
      /\ top \div divisor \in Nat
  <2> HIDE DEF top, bottom
  <2>1. bottom \div divisor <= top \div divisor
    BY <1>1, DivMonotonic
  <2>2. bottom \div divisor \in Nat /\ top \div divisor \in Nat
    BY <1>1, DivSmaller
  <2> QED
    BY <2>1, <2>2
<1>3. High = top \div divisor /\ Low = bottom \div divisor
  BY DEF High, Low
<1>4. High \in Nat /\ Low \in Nat /\ Low <= High
  <2> HIDE DEF top, bottom
  <2> QED
    BY <1>2, <1>3
<1> QED
  BY <1>4 DEF Delta

(***************************************************************************)
(* Reading a key.                                                          *)
(***************************************************************************)

\* The anchor of a key that is read with the rapid trigger, and what that means.
LEMMA RapidReading ==
  ASSUME High \in Nat, Delta \in Nat \ {0},
         NEW v \in Nat, NEW prev \in Nat, NEW was \in BOOLEAN, NEW a \in Nat,
         Rapid(v, prev, was, a)
  PROVE  /\ pressed' \in BOOLEAN /\ anchor' \in {v, a}
         /\ pressed' => v >= High
         /\ ~(v >= High) => ~pressed' /\ anchor' = v
         /\ v >= High /\ ~(prev >= High) => pressed' /\ anchor' = v
         /\ v >= High /\ prev >= High /\ pressed' # was => anchor' = v
         /\ v >= High /\ prev >= High /\ was /\ pressed' =>
              /\ anchor' = (IF v > a THEN v ELSE a)
              /\ (v + Delta > anchor')
         /\ v >= High /\ prev >= High /\ ~was /\ ~pressed' =>
              /\ anchor' = (IF v < a THEN v ELSE a)
              /\ v < anchor' + Delta
         /\ v >= High /\ prev >= High /\ was /\ v = prev /\ (prev + Delta > a) => pressed'
<1>1. CASE ~(v >= High)
  <2>1. pressed' = FALSE /\ anchor' = v
    BY <1>1 DEF Rapid
  <2> QED
    BY <1>1, <2>1, Zenon
<1>2. CASE v >= High /\ ~(prev >= High)
  <2>1. pressed' = TRUE /\ anchor' = v
    BY <1>2 DEF Rapid
  <2> QED
    BY <1>2, <2>1, Zenon
<1>3. CASE v >= High /\ prev >= High /\ was
  <2> DEFINE top == IF v > a THEN v ELSE a
  <2>1. IF top >= Delta /\ v <= top - Delta
        THEN pressed' = FALSE /\ anchor' = v
        ELSE pressed' = TRUE /\ anchor' = top
    BY <1>3 DEF Rapid, FollowDown
  <2>2. CASE top >= Delta /\ v <= top - Delta
    <3>1. pressed' = FALSE /\ anchor' = v
      BY <2>1, <2>2, Zenon
    <3>2. ~(v = prev /\ (prev + Delta > a))
      BY <2>2
    <3> QED
      BY <1>3, <3>1, <3>2, Zenon
  <2>3. CASE ~(top >= Delta /\ v <= top - Delta)
    <3>1. pressed' = TRUE /\ anchor' = top
      BY <2>1, <2>3, Zenon
    <3>2. v + Delta > top
      BY <2>3
    <3> QED
      BY <1>3, <3>1, <3>2, Zenon
  <2> QED
    BY <2>2, <2>3
<1>4. CASE v >= High /\ prev >= High /\ ~was
  <2> DEFINE bottom == IF v < a THEN v ELSE a
  <2>1. IF v >= bottom + Delta
        THEN pressed' = TRUE /\ anchor' = v
        ELSE pressed' = FALSE /\ anchor' = bottom
    BY <1>4 DEF Rapid, FollowUp
  <2>2. CASE v >= bottom + Delta
    <3>1. pressed' = TRUE /\ anchor' = v
      BY <2>1, <2>2, Zenon
    <3> QED
      BY <1>4, <3>1, Zenon
  <2>3. CASE ~(v >= bottom + Delta)
    <3>1. pressed' = FALSE /\ anchor' = bottom
      BY <2>1, <2>3, Zenon
    <3>2. v < bottom + Delta
      BY <2>3
    <3> QED
      BY <1>4, <3>1, <3>2, Zenon
  <2> QED
    BY <2>2, <2>3
<1> QED
  BY <1>1, <1>2, <1>3, <1>4

\* What a read does to the histories.
Anew(v)  == ~(lastValid /\ ~ResetCache) \/ ~rapid \/ v < High \/ pressed' # pressed
Extremum(v) == IF v > extreme <=> pressed THEN v ELSE extreme

LEMMA InvInit == Init => IInv
<1> SUFFICES ASSUME Init PROVE IInv
  OBVIOUS
<1>1. TypeOK
  <2>1. 0 \in Value
    BY MagAssumption DEF Value
  <2>2. 1 \in Divisors
    BY MagAssumption
  <2> QED
    BY <2>1, <2>2, Zenon DEF Init, TypeOK
<1>2. ~pressed /\ ~lastValid
  BY DEF Init
<1> QED
  BY <1>1, <1>2, Zenon DEF IInv, HeldIsKnown, AnchorIsExtreme, RapidTurnsAtDelta, AboveLow, Tracked

\* A read of a key whose values are not known, or of a resolution that has changed.
LEMMA FirstRead ==
  ASSUME IInv, Read, ~(lastValid /\ ~ResetCache)
  PROVE  IInv'
<1> DEFINE v == depth \div divisor
<1>1. v \in Value /\ v <= MaxValue \div divisor
  BY ShiftedReading DEF IInv, TypeOK
<1>2. /\ pressed' = FALSE /\ anchor' = v /\ extreme' = v /\ last' = v
      /\ lastValid' = TRUE /\ bit' = FALSE /\ current' = divisor /\ calm' = TRUE
      /\ UNCHANGED <<depth, settings>>
  BY Zenon DEF Read
<1> HIDE DEF v
<1>3. High' = High /\ Delta' = Delta /\ Delta \in Nat \ {0}
  <2>1. Delta \in Nat \ {0}
    BY Points DEF IInv
  <2> QED
    BY <1>2, <2>1, Zenon DEF High, Delta, Low, settings
<1>4. TypeOK'
  BY <1>1, <1>2 DEF IInv, TypeOK, settings
<1>5. v < v + Delta
  BY <1>1, <1>3, MagAssumption DEF Value
<1> QED
  BY <1>2, <1>3, <1>4, <1>5, Zenon
    DEF IInv, HeldIsKnown, AnchorIsExtreme, RapidTurnsAtDelta, AboveLow, Tracked

LEMMA AboveIsBoolean == \A x, y : (x > y) \in BOOLEAN /\ (x >= y) \in BOOLEAN
OBVIOUS

\* A read without the rapid trigger.
LEMMA PlainRead ==
  ASSUME IInv, Read, lastValid, ~ResetCache, ~rapid
  PROVE  IInv'
<1> DEFINE v == depth \div divisor
<1>1. v \in Value /\ v <= MaxValue \div divisor
  BY ShiftedReading DEF IInv, TypeOK
<1>2. /\ Plain(v, pressed) /\ extreme' = v /\ last' = v
      /\ lastValid' = TRUE /\ bit' = pressed' /\ current' = divisor
      /\ UNCHANGED <<depth, settings>>
  BY Zenon DEF Read
<1>3. calm' = TRUE
  BY Zenon DEF Read
<1> HIDE DEF v
<1>4. High' = High /\ Low' = Low /\ rapid' = rapid
  BY <1>2, Zenon DEF High, Low, settings
<1>5. pressed' \in BOOLEAN /\ anchor' = v /\ (pressed' => v > Low \/ v >= High)
  <2>1. pressed' = (IF pressed THEN v > Low ELSE v >= High)
    BY <1>2, Zenon DEF Plain, StaysDown
  <2>2. anchor' = v
    BY <1>2, Zenon DEF Plain
  <2>3. CASE pressed
    <3>1. pressed' = (v > Low) /\ (v > Low) \in BOOLEAN
      BY <2>1, <2>3, Zenon, AboveIsBoolean
    <3> QED
      BY <2>2, <3>1, Zenon
  <2>4. CASE ~pressed
    <3>1. pressed' = (v >= High) /\ (v >= High) \in BOOLEAN
      BY <2>1, <2>4, Zenon, AboveIsBoolean
    <3> QED
      BY <2>2, <3>1, Zenon
  <2> QED
    BY <2>3, <2>4
<1>6. TypeOK'
  BY <1>1, <1>2, <1>3, <1>5 DEF IInv, TypeOK, settings
<1>7. v >= High /\ High > Low => v > Low
  BY <1>1, Points, MagAssumption DEF Value, IInv
<1> QED
  BY <1>2, <1>4, <1>5, <1>6, <1>7, Zenon
    DEF IInv, HeldIsKnown, AnchorIsExtreme, RapidTurnsAtDelta, AboveLow, Tracked

\* A read with the rapid trigger.
LEMMA RapidRead ==
  ASSUME IInv, Read, lastValid, ~ResetCache, rapid
  PROVE  IInv'
<1> DEFINE v == depth \div divisor
<1>1. v \in Value /\ v <= MaxValue \div divisor
  BY ShiftedReading DEF IInv, TypeOK
<1>2. /\ Rapid(v, last, pressed, anchor) /\ last' = v
      /\ lastValid' = TRUE /\ bit' = pressed' /\ current' = divisor
      /\ UNCHANGED <<depth, settings>>
  BY Zenon DEF Read
<1>3. /\ extreme' = IF Anew(v) THEN v ELSE Extremum(v)
      /\ calm' = (calm \/ Anew(v))
  BY Zenon DEF Read, Anew, Extremum
<1>4. current = divisor /\ High' = High /\ Low' = Low /\ Delta' = Delta /\ rapid' = rapid
  BY <1>2, Zenon DEF ResetCache, High, Low, Delta, settings
<1>5. /\ High \in Nat /\ Delta \in Nat \ {0} /\ v \in Nat /\ last \in Nat
      /\ anchor \in Nat /\ extreme \in Nat /\ pressed \in BOOLEAN /\ calm \in BOOLEAN
  <2>1. High \in Nat /\ Delta \in Nat \ {0}
    BY Points DEF IInv
  <2> HIDE DEF v
  <2> QED
    BY <1>1, <2>1, MagAssumption DEF IInv, TypeOK, Value
<1> HIDE DEF v
<1>6. /\ pressed' \in BOOLEAN /\ anchor' \in {v, anchor}
      /\ pressed' => v >= High
      /\ ~(v >= High) => ~pressed' /\ anchor' = v
      /\ v >= High /\ ~(last >= High) => pressed' /\ anchor' = v
      /\ v >= High /\ last >= High /\ pressed' # pressed => anchor' = v
      /\ v >= High /\ last >= High /\ pressed /\ pressed' =>
           /\ anchor' = (IF v > anchor THEN v ELSE anchor)
           /\ (v + Delta > anchor')
      /\ v >= High /\ last >= High /\ ~pressed /\ ~pressed' =>
           /\ anchor' = (IF v < anchor THEN v ELSE anchor)
           /\ v < anchor' + Delta
  BY <1>2, <1>5, RapidReading
<1>7. v < v + Delta /\ (v + Delta > v)
  BY <1>5
<1>8. TypeOK'
  <2>1. extreme' \in Value
    BY <1>1, <1>3, Zenon DEF Extremum, IInv, TypeOK
  <2>2. anchor' \in Value
    BY <1>1, <1>6, Zenon DEF IInv, TypeOK
  <2>3. calm' \in BOOLEAN
    BY <1>3, Zenon
  <2>4. last' <= MaxValue \div current'
    BY <1>1, <1>2, Zenon
  <2> QED
    BY <1>1, <1>2, <1>6, <2>1, <2>2, <2>3, <2>4, Zenon DEF IInv, TypeOK, settings
<1>9. CASE Anew(v)
  <2>1. extreme' = v /\ anchor' = v
    <3>1. v < High => ~(v >= High)
      BY <1>5
    <3>2. anchor' = v
      BY <1>9, <1>6, <3>1, Zenon DEF Anew
    <3> QED
      BY <1>3, <1>9, <3>2, Zenon
  <2> QED
    BY <1>2, <1>4, <1>6, <1>7, <1>8, <2>1, Zenon
      DEF IInv, HeldIsKnown, AnchorIsExtreme, RapidTurnsAtDelta, AboveLow, Tracked
<1>10. CASE ~Anew(v)
  <2>1. v >= High /\ pressed' = pressed /\ extreme' = Extremum(v) /\ calm' = calm
    <3>1. ~(v < High) => v >= High
      BY <1>5
    <3> QED
      BY <1>3, <1>5, <1>6, <1>10, <3>1, Zenon DEF Anew
  <2>2. CASE ~calm
    BY <1>2, <1>4, <1>6, <1>8, <2>1, <2>2, Zenon
      DEF IInv, HeldIsKnown, AnchorIsExtreme, RapidTurnsAtDelta, AboveLow, Tracked
  <2>3. CASE calm
    <3>1. Tracked /\ anchor = extreme
      BY <1>4, <2>3, Zenon DEF IInv, AnchorIsExtreme, Tracked
    <3>2. pressed => last >= High
      BY <3>1, Zenon DEF IInv, RapidTurnsAtDelta
    <3>3. last >= High
      BY <1>6, <2>1, <3>2, Zenon
    <3>4. anchor' = extreme' /\ (pressed => v + Delta > anchor') /\ (~pressed => v < anchor' + Delta)
      <4>1. CASE pressed
        <5>1. anchor' = (IF v > anchor THEN v ELSE anchor) /\ (v + Delta > anchor')
          BY <1>6, <2>1, <3>3, <4>1, Zenon
        <5>2. extreme' = (IF v > extreme THEN v ELSE extreme)
          BY <2>1, <4>1, Zenon DEF Extremum
        <5> QED
          BY <3>1, <4>1, <5>1, <5>2, Zenon
      <4>2. CASE ~pressed
        <5>1. anchor' = (IF v < anchor THEN v ELSE anchor) /\ v < anchor' + Delta
          BY <1>6, <2>1, <3>3, <4>2, Zenon
        <5>2. extreme' = (IF v > extreme THEN extreme ELSE v)
          BY <2>1, <4>2, Zenon DEF Extremum
        <5>3. (IF v < anchor THEN v ELSE anchor) = (IF v > anchor THEN anchor ELSE v)
          BY <1>5
        <5> QED
          BY <3>1, <4>2, <5>1, <5>2, <5>3, Zenon
      <4> QED
        BY <4>1, <4>2
    <3> QED
      BY <1>2, <1>4, <1>6, <1>8, <2>1, <3>4, Zenon
        DEF IInv, HeldIsKnown, AnchorIsExtreme, RapidTurnsAtDelta, AboveLow, Tracked
  <2> QED
    BY <2>2, <2>3
<1> QED
  BY <1>9, <1>10

(***************************************************************************)
(* The other steps, and the theorems.                                      *)
(***************************************************************************)

\* A failed read forgets the values of another resolution, if it keeps any.
LEMMA FailedRead ==
  ASSUME IInv, ReadFails
  PROVE  IInv'
<1>1. /\ bit' = FALSE /\ current' = divisor
      /\ UNCHANGED <<depth, settings, last, calm, extreme>>
  BY Zenon DEF ReadFails
<1>2. High' = High /\ Low' = Low /\ Delta' = Delta /\ rapid' = rapid /\ divisor' = divisor
  BY <1>1, Zenon DEF High, Low, Delta, settings
<1>3. CASE ResetCache
  <2>1. lastValid' = FALSE /\ pressed' = FALSE /\ anchor' = 0
    BY <1>3, Zenon DEF ReadFails, ResetCachedValues
  <2>2. TypeOK'
    <3>1. 0 \in Value
      BY MagAssumption DEF Value
    <3> QED
      BY <1>1, <2>1, <3>1, Zenon DEF IInv, TypeOK, settings
  <2> QED
    BY <2>1, <2>2, Zenon DEF IInv, HeldIsKnown, AnchorIsExtreme, RapidTurnsAtDelta, AboveLow, Tracked
<1>4. CASE ~ResetCache
  <2>1. UNCHANGED <<lastValid, pressed, anchor>> /\ current = divisor
    BY <1>4, Zenon DEF ReadFails, ResetCache
  <2>2. TypeOK'
    BY <1>1, <2>1, Zenon DEF IInv, TypeOK, settings
  <2> QED
    BY <1>1, <1>2, <2>1, <2>2, Zenon
      DEF IInv, HeldIsKnown, AnchorIsExtreme, RapidTurnsAtDelta, AboveLow, Tracked
<1> QED
  BY <1>3, <1>4

LEMMA InvStep == IInv /\ [Next]_vars => IInv'
<1> SUFFICES ASSUME IInv, [Next]_vars PROVE IInv'
  OBVIOUS
<1>1. CASE Read
  BY <1>1, FirstRead, PlainRead, RapidRead
<1>2. CASE ReadFails
  BY <1>2, FailedRead
<1>3. CASE Move
  <2>1. depth' \in Value /\ UNCHANGED <<settings, cache, bit, calm, extreme>>
    BY <1>3, Zenon DEF Move
  <2>2. High' = High /\ Low' = Low /\ Delta' = Delta
    BY <2>1, Zenon DEF High, Low, Delta, settings
  <2>3. TypeOK'
    BY <2>1, Zenon DEF IInv, TypeOK, settings, cache
  <2> QED
    BY <2>1, <2>2, <2>3, Zenon
      DEF IInv, HeldIsKnown, AnchorIsExtreme, RapidTurnsAtDelta, AboveLow, Tracked, settings, cache
<1>4. CASE Configure
  <2>1. calm' = FALSE /\ UNCHANGED <<depth, cache, bit, extreme>>
    BY <1>4, Zenon DEF Configure
  <2>2. TypeOK'
    BY <1>4, Zenon DEF Configure, IInv, TypeOK, cache
  <2> QED
    BY <2>1, <2>2, Zenon
      DEF IInv, HeldIsKnown, AnchorIsExtreme, RapidTurnsAtDelta, AboveLow, Tracked, cache
<1>5. CASE Rescan
  <2>1. lastValid' = FALSE /\ pressed' = FALSE /\ anchor' = 0
    BY <1>5, Zenon DEF Rescan, ResetCachedValues
  <2>2. TypeOK'
    <3>1. 0 \in Value
      BY MagAssumption DEF Value
    <3> QED
      BY <1>5, <2>1, <3>1, Zenon DEF Rescan, IInv, TypeOK
  <2> QED
    BY <2>1, <2>2, Zenon DEF IInv, HeldIsKnown, AnchorIsExtreme, RapidTurnsAtDelta, AboveLow, Tracked
<1>6. CASE UNCHANGED vars
  <2>1. High' = High /\ Low' = Low /\ Delta' = Delta
    BY <1>6, Zenon DEF High, Low, Delta, vars
  <2> QED
    BY <1>6, <2>1, Zenon
      DEF vars, IInv, TypeOK, HeldIsKnown, AnchorIsExtreme, RapidTurnsAtDelta, AboveLow, Tracked
<1> QED
  BY <1>1, <1>2, <1>3, <1>4, <1>5, <1>6 DEF Next

THEOREM Invariant == Spec => []IInv
  BY InvInit, InvStep, PTL DEF Spec

\* Every variable keeps its type; no cached value exceeds its resolution, so that
\* the sums of uint16_t never wrap.
THEOREM TypeCorrect == Spec => []TypeOK
<1>1. IInv => TypeOK
  BY DEF IInv
<1> QED
  BY <1>1, Invariant, PTL

\* The rapid trigger turns exactly at delta from the true extreme.
THEOREM RapidIsExact == Spec => []RapidTurnsAtDelta
<1>1. IInv => RapidTurnsAtDelta
  BY DEF IInv
<1> QED
  BY <1>1, Invariant, PTL

\* A good reading that repeats the last one does not release a key that is marked
\* as down.
THEOREM NoChatter == Spec => StillKeyStaysDown
<1>1. ASSUME IInv, Read, pressed, calm, current = divisor, depth \div divisor = last,
             rapid \/ High > Low
      PROVE  pressed'
  <2>1. lastValid /\ ~ResetCache
    BY <1>1 DEF IInv, HeldIsKnown, ResetCache
  <2>2. CASE rapid
    <3>1. Tracked
      BY <1>1, <2>1, <2>2 DEF Tracked
    <3>2. last >= High /\ last + Delta > anchor
      BY <1>1, <3>1, Zenon DEF IInv, AnchorIsExtreme, RapidTurnsAtDelta
    <3>3. Rapid(last, last, pressed, anchor)
      BY <1>1, <2>1, <2>2, Zenon DEF Read
    <3>4. High \in Nat /\ Delta \in Nat \ {0}
      BY <1>1, Points DEF IInv
    <3>5. last \in Nat /\ anchor \in Nat /\ pressed \in BOOLEAN
      BY <1>1, MagAssumption DEF IInv, TypeOK, Value
    <3> QED
      BY <1>1, <3>2, <3>3, <3>4, <3>5, RapidReading
  <2>3. CASE ~rapid
    <3>1. last > Low
      BY <1>1, <2>3, Zenon DEF IInv, AboveLow
    <3>2. pressed' = (last > Low)
      BY <1>1, <2>1, <2>3, Zenon DEF Read, Plain, StaysDown
    <3> QED
      BY <3>1, <3>2, Zenon
  <2> QED
    BY <2>2, <2>3
<1>2. IInv /\ [Next]_vars =>
        [Read /\ pressed /\ calm /\ current = divisor /\ depth \div divisor = last /\ (rapid \/ High > Low)
           => pressed']_vars
  BY <1>1
<1> QED
  BY <1>2, Invariant, PTL DEF Spec, StillKeyStaysDown
=============================================================================
