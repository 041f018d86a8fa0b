----------------------------- MODULE EncoderProofs -----------------------------
(***************************************************************************)
(* For every turn of the shaft and every pattern of failed samples: no     *)
(* quarter step is lost in the remainder, and failed samples of a resting  *)
(* encoder leave the count as it was.                                      *)
(***************************************************************************)
EXTENDS Encoder, TLAPS

\* Between good samples the decoder has seen the last of them or low contacts.
SinceGood ==
  sampled => /\ encState \in {0, Contacts(goodAt)}
             /\ counted = goodCount + LUT(Contacts(goodAt), encState)

EInv == EncoderTypeOK /\ PulsesConserved /\ SinceGood

LEMMA TableFacts ==
  /\ \A a \in 0 .. 3, b \in 0 .. 3 : LUT(a, b) \in {-1, 0, 1} /\ LUT(a, b) = -LUT(b, a)
  /\ \A a \in 0 .. 3 : LUT(a, a) = 0
  /\ \A x \in Int : Contacts(x) \in 0 .. 3
<1>1. \A x \in Int : x % 4 \in 0 .. 3
  OBVIOUS
<1>2. \A x \in Int : Contacts(x) \in 0 .. 3
  BY <1>1 DEF Contacts
<1>3. \A a \in 0 .. 3, b \in 0 .. 3 : LUT(a, b) \in {-1, 0, 1} /\ LUT(a, b) = -LUT(b, a)
  <2> SUFFICES ASSUME NEW a \in 0 .. 3, NEW b \in 0 .. 3
               PROVE  LUT(a, b) \in {-1, 0, 1} /\ LUT(a, b) = -LUT(b, a)
    OBVIOUS
  <2>1. CASE a = 0
    BY <2>1 DEF LUT
  <2>2. CASE a = 1
    BY <2>2 DEF LUT
  <2>3. CASE a = 2
    BY <2>3 DEF LUT
  <2>4. CASE a = 3
    BY <2>4 DEF LUT
  <2> QED
    BY <2>1, <2>2, <2>3, <2>4
<1>4. \A a \in 0 .. 3 : LUT(a, a) = 0
  BY DEF LUT
<1> QED
  BY <1>2, <1>3, <1>4

\* At a limit the remainder is 0, otherwise the pulses themselves.
LEMMA RemainderFacts ==
  ASSUME NEW n \in Resolutions, NEW p \in Int, -n <= p, p <= n
  PROVE  /\ p = n \/ p = -n => Remainder(p, n) = 0
         /\ p # n /\ p # -n => Remainder(p, n) = p
<1>1. CASE n = 1
  BY <1>1 DEF Remainder
<1>2. CASE n = 2
  BY <1>2 DEF Remainder
<1>4. CASE n = 4
  BY <1>4 DEF Remainder
<1>8. CASE n = 8
  BY <1>8 DEF Remainder
<1> QED
  BY <1>1, <1>2, <1>4, <1>8 DEF Resolutions

\* One sample keeps the books.
LEMMA SampleStep ==
  ASSUME EInv, NEW s \in 0 .. 3, HandleRead(s), encRes' = encRes
  PROVE  /\ PulsesConserved' /\ encPulses' \in Int /\ 0 < encRes + encPulses' /\ encPulses' < encRes
         /\ encNet' \in Int /\ counted' \in Int
         /\ encState' = s /\ counted' = counted + LUT(encState, s)
<1> DEFINE p == encPulses + LUT(encState, s)
<1> USE DEF EInv
<1>1. /\ LUT(encState, s) \in {-1, 0, 1} /\ encPulses \in Int /\ counted \in Int /\ encNet \in Int
      /\ encRes \in Resolutions /\ encRes \in Nat /\ encRes > 0
      /\ -encRes < encPulses /\ encPulses < encRes
  BY TableFacts DEF EncoderTypeOK, Resolutions
<1>2. p \in Int /\ -encRes <= p /\ p <= encRes
  BY <1>1
<1>3. /\ encPulses' = Remainder(p, encRes) /\ encState' = s
      /\ counted' = counted + LUT(encState, s)
      /\ encNet' = encNet + (IF p >= encRes THEN 1 ELSE 0) - (IF p <= -encRes THEN 1 ELSE 0)
  BY DEF HandleRead
<1>4. encNet * encRes + p = counted'
  BY <1>1, <1>3 DEF PulsesConserved
<1> HIDE DEF p
<1>5. CASE p = encRes
  <2>1. encPulses' = 0 /\ encNet' = encNet + 1
    BY <1>1, <1>2, <1>3, <1>5, RemainderFacts
  <2>2. (encNet + 1) * encRes = encNet * encRes + encRes
    BY <1>1
  <2> QED
    BY <1>1, <1>3, <1>4, <1>5, <2>1, <2>2 DEF PulsesConserved
<1>6. CASE p = -encRes
  <2>1. encPulses' = 0 /\ encNet' = encNet - 1
    BY <1>1, <1>2, <1>3, <1>6, RemainderFacts
  <2>2. (encNet - 1) * encRes = encNet * encRes - encRes
    BY <1>1
  <2> QED
    BY <1>1, <1>3, <1>4, <1>6, <2>1, <2>2 DEF PulsesConserved
<1>7. CASE p # encRes /\ p # -encRes
  <2>1. encPulses' = p /\ encNet' = encNet
    BY <1>1, <1>2, <1>3, <1>7, RemainderFacts
  <2> QED
    BY <1>1, <1>2, <1>3, <1>4, <1>7, <2>1 DEF PulsesConserved
<1> QED
  BY <1>5, <1>6, <1>7

\* Nothing counted is nothing queued.
LEMMA ZeroTimes == \A n \in Resolutions : 0 * n + 0 = 0
  BY DEF Resolutions

LEMMA EInit == EncoderInit => EInv
<1> SUFFICES ASSUME EncoderInit PROVE EInv
  OBVIOUS
<1>1. EncoderTypeOK
  <2>1. sampled \in BOOLEAN
    BY Zenon DEF EncoderInit
  <2>2. encRes \in Resolutions /\ encRes \in Int /\ 0 < encRes
    BY DEF EncoderInit, Resolutions
  <2>3. shaft \in Int /\ sampledAt \in Int /\ goodAt \in Int /\ 0 < encRes + 0
    BY <2>2 DEF EncoderInit
  <2> QED
    BY <2>1, <2>2, <2>3 DEF EncoderInit, EncoderTypeOK
<1>2. PulsesConserved
  BY ZeroTimes DEF EncoderInit, PulsesConserved
<1>3. SinceGood
  BY DEF EncoderInit, SinceGood
<1> QED
  BY <1>1, <1>2, <1>3 DEF EInv

\* A good sample, and how it compares with the one before.
LEMMA GoodStep ==
  ASSUME EInv, SampleGood
  PROVE  EInv' /\ (sampled /\ shaft = goodAt => goodCount' = goodCount)
<1> USE DEF EInv
<1>1. Contacts(shaft) \in 0 .. 3 /\ LUT(Contacts(shaft), Contacts(shaft)) = 0
  BY TableFacts DEF EncoderTypeOK
<1>2. HandleRead(Contacts(shaft)) /\ encRes' = encRes
  BY DEF SampleGood
<1>3. /\ PulsesConserved' /\ encPulses' \in Int /\ 0 < encRes + encPulses' /\ encPulses' < encRes
      /\ encNet' \in Int /\ counted' \in Int
      /\ encState' = Contacts(shaft) /\ counted' = counted + LUT(encState, Contacts(shaft))
  BY <1>1, <1>2, SampleStep
<1>4. EncoderTypeOK'
  BY <1>1, <1>3 DEF SampleGood, EncoderTypeOK
<1>5. SinceGood'
  BY <1>1, <1>3 DEF SampleGood, SinceGood
<1>6. ASSUME sampled, shaft = goodAt PROVE goodCount' = goodCount
  <2>1. LUT(Contacts(goodAt), encState) = -LUT(encState, Contacts(goodAt)) /\ LUT(encState, Contacts(goodAt)) \in Int
    BY <1>1, <1>6, TableFacts DEF EncoderTypeOK
  <2>2. counted' = counted + LUT(encState, Contacts(goodAt)) /\ counted = goodCount + LUT(Contacts(goodAt), encState)
    BY <1>3, <1>6 DEF SinceGood
  <2>3. goodCount' = counted' /\ goodCount \in Int
    BY DEF SampleGood, EncoderTypeOK
  <2> QED
    BY <2>1, <2>2, <2>3
<1> QED
  BY <1>3, <1>4, <1>5, <1>6

LEMMA FailStep ==
  ASSUME EInv, SampleFails
  PROVE  EInv'
<1> USE DEF EInv
<1>1. HandleRead(0) /\ encRes' = encRes /\ 0 \in 0 .. 3
  BY DEF SampleFails
<1>2. /\ PulsesConserved' /\ encPulses' \in Int /\ 0 < encRes + encPulses' /\ encPulses' < encRes
      /\ encNet' \in Int /\ counted' \in Int
      /\ encState' = 0 /\ counted' = counted + LUT(encState, 0)
  BY <1>1, SampleStep
<1>3. EncoderTypeOK'
  BY <1>2 DEF SampleFails, EncoderTypeOK
<1>4. SinceGood'
  <2> SUFFICES ASSUME sampled PROVE counted' = goodCount + LUT(Contacts(goodAt), 0)
    BY <1>2 DEF SinceGood, SampleFails
  <2>1. encState \in {0, Contacts(goodAt)} /\ counted = goodCount + LUT(Contacts(goodAt), encState)
    BY DEF SinceGood
  <2>2. /\ LUT(0, 0) = 0 /\ LUT(Contacts(goodAt), Contacts(goodAt)) = 0
        /\ LUT(Contacts(goodAt), 0) \in Int /\ goodCount \in Int
    BY TableFacts DEF EncoderTypeOK
  <2>3. CASE encState = 0
    BY <1>2, <2>1, <2>2, <2>3
  <2>4. CASE encState = Contacts(goodAt)
    BY <1>2, <2>1, <2>2, <2>4
  <2> QED
    BY <2>1, <2>3, <2>4
<1> QED
  BY <1>2, <1>3, <1>4

LEMMA EStep == EInv /\ [EncoderNext]_encVars => EInv'
<1> SUFFICES ASSUME EInv, [EncoderNext]_encVars PROVE EInv'
  OBVIOUS
<1>1. CASE EncoderRestart
  <2>1. EncoderTypeOK'
    <3>1. sampled' \in BOOLEAN
      BY <1>1, Zenon DEF EncoderRestart
    <3>2. encRes' \in Resolutions
      BY <1>1 DEF EncoderRestart
    <3>3. \A n \in Resolutions : n \in Int /\ 0 < n + 0 /\ 0 < n
      BY DEF Resolutions
    <3>4. shaft \in Int
      BY DEF EInv, EncoderTypeOK
    <3>5. shaft' \in Int /\ sampledAt' \in Int /\ goodAt' \in Int
      BY <1>1, <3>4 DEF EncoderRestart
    <3>6. /\ level' \in 0 .. 3 /\ encState' = level' /\ encPulses' = 0 /\ encNet' \in Int
          /\ counted' \in Int /\ goodCount' \in Int /\ base' \in Int /\ misreads' \in Nat
      BY <1>1 DEF EncoderRestart
    <3>7. 0 < encRes' + encPulses' /\ encPulses' < encRes' /\ encPulses' \in Int
      BY <3>2, <3>3, <3>6
    <3> QED
      BY <3>1, <3>2, <3>5, <3>6, <3>7 DEF EncoderTypeOK
  <2>2. PulsesConserved'
    BY <1>1, ZeroTimes DEF EncoderRestart, PulsesConserved
  <2>3. SinceGood'
    BY <1>1 DEF EncoderRestart, SinceGood
  <2> QED
    BY <2>1, <2>2, <2>3 DEF EInv
<1>2. CASE Turn
  BY <1>2 DEF Turn, EInv, EncoderTypeOK, PulsesConserved, SinceGood
<1>3. CASE SampleGood
  BY <1>3, GoodStep
<1>4. CASE SampleFails
  BY <1>4, FailStep
<1>5. CASE UNCHANGED encVars
  BY <1>5 DEF encVars, EInv, EncoderTypeOK, PulsesConserved, SinceGood
<1> QED
  BY <1>1, <1>2, <1>3, <1>4, <1>5 DEF EncoderNext

LEMMA EAlways == EncoderSpec => []EInv
  BY EInit, EStep, PTL DEF EncoderSpec

\* Every variable keeps its type, the pulses stay below the resolution.
THEOREM EncoderTypes == EncoderSpec => []EncoderTypeOK
  BY EAlways, PTL DEF EInv

\* Events and pulses account for every quarter step that was decoded.
THEOREM Conserved == EncoderSpec => []PulsesConserved
  BY EAlways, PTL DEF EInv

\* Failed samples of a resting encoder cancel out.
THEOREM RestingKeeps == EncoderSpec => RestingKeepsCount
<1>1. EInv /\ [EncoderNext]_encVars
        => [SampleGood /\ sampled /\ shaft = goodAt => goodCount' = goodCount]_encVars
  BY GoodStep
<1> QED
  BY <1>1, EAlways, PTL DEF EncoderSpec, RestingKeepsCount

(***************************************************************************)
(* How far the count is from the shaft.  A sample leaves the decoder in    *)
(* step with the shaft, unless it failed where the contacts are not low.   *)
(* Getting out of step and back into it costs two quarter steps each.      *)
(***************************************************************************)

InStep == encState = Contacts(sampledAt)

\* The place in the cycle at which the contacts are c.
InCycle(c) == CASE c = 0 -> 0 [] c = 2 -> 1 [] c = 3 -> 2 [] OTHER -> 3

Within(x, bound) == -bound <= x /\ x <= bound

NearShaft == shaft - sampledAt \in {-1, 0, 1} /\ (InStep \/ encState = 0)

EvenSteps ==
  /\ (counted - InCycle(encState)) % 2 = 0
  /\ sampled => base % 2 = 0 /\ (goodCount - goodAt - base) % 2 = 0

DriftSoFar ==
  sampled => /\ Within(goodCount - goodAt - base, 4 * misreads)
             /\ Within(counted - sampledAt - base, IF InStep THEN 4 * misreads ELSE 4 * misreads - 2)

FInv == EInv /\ NearShaft /\ EvenSteps /\ DriftSoFar

LEMMA EvenSum ==
  \A x, y \in Int : x % 2 = 0 /\ y % 2 = 0 => (x + y) % 2 = 0 /\ (x - y) % 2 = 0
  OBVIOUS

LEMMA EvenOfFour == \A x \in Int : ((x % 4) - x) % 2 = 0
  OBVIOUS

LEMMA NextOfFour ==
  \A x \in Int : /\ x % 4 = 0 => (x + 1) % 4 = 1 /\ (x + (-1)) % 4 = 3
                 /\ x % 4 = 1 => (x + 1) % 4 = 2 /\ (x + (-1)) % 4 = 0
                 /\ x % 4 = 2 => (x + 1) % 4 = 3 /\ (x + (-1)) % 4 = 1
                 /\ x % 4 = 3 => (x + 1) % 4 = 0 /\ (x + (-1)) % 4 = 2
  OBVIOUS

\* The table follows the shaft, and jumps are even.
LEMMA TurnFacts ==
  /\ \A x \in Int : InCycle(Contacts(x)) = x % 4
  /\ \A x \in Int, d \in {-1, 0, 1} : LUT(Contacts(x), Contacts(x + d)) = d
  /\ \A a \in 0 .. 3, b \in 0 .. 3 : InCycle(a) \in 0 .. 3 /\ (LUT(a, b) + InCycle(a) - InCycle(b)) % 2 = 0
<1>1. ASSUME NEW x \in Int PROVE InCycle(Contacts(x)) = x % 4
  <2>1. x % 4 \in 0 .. 3
    OBVIOUS
  <2> QED
    BY <2>1 DEF InCycle, Contacts
<1>2. ASSUME NEW x \in Int, NEW d \in {-1, 0, 1} PROVE LUT(Contacts(x), Contacts(x + d)) = d
  <2>0. d = 0 \/ d = 1 \/ d = -1
    OBVIOUS
  <2>1. CASE d = 0
    <3>1. x + d = x
      BY <2>1
    <3> QED
      BY <2>1, <3>1, TableFacts
  <2>2. CASE d = 1
    <3>1. x % 4 \in 0 .. 3
      OBVIOUS
    <3> QED
      BY <2>2, <3>1, NextOfFour DEF Contacts, LUT
  <2>3. CASE d = -1
    <3>1. x % 4 \in 0 .. 3
      OBVIOUS
    <3> QED
      BY <2>3, <3>1, NextOfFour DEF Contacts, LUT
  <2> QED
    BY <2>0, <2>1, <2>2, <2>3
<1>3. ASSUME NEW a \in 0 .. 3, NEW b \in 0 .. 3
      PROVE  InCycle(a) \in 0 .. 3 /\ (LUT(a, b) + InCycle(a) - InCycle(b)) % 2 = 0
  <2>1. CASE a = 0
    BY <2>1 DEF LUT, InCycle
  <2>2. CASE a = 1
    BY <2>2 DEF LUT, InCycle
  <2>3. CASE a = 2
    BY <2>3 DEF LUT, InCycle
  <2>4. CASE a = 3
    BY <2>4 DEF LUT, InCycle
  <2> QED
    BY <2>1, <2>2, <2>3, <2>4
<1> QED
  BY <1>1, <1>2, <1>3

\* Decoding keeps the count and the contacts of the same parity.
LEMMA EvenAfter ==
  ASSUME NEW n \in Int, NEW a \in 0 .. 3, NEW b \in 0 .. 3, (n - InCycle(a)) % 2 = 0
  PROVE  ((n + LUT(a, b)) - InCycle(b)) % 2 = 0 /\ n + LUT(a, b) \in Int /\ InCycle(b) \in Int
<1> DEFINE u == n - InCycle(a)
           v == LUT(a, b) + InCycle(a) - InCycle(b)
<1>0. InCycle(a) \in 0 .. 3 /\ InCycle(b) \in 0 .. 3
  BY TurnFacts, Zenon
<1>1. v % 2 = 0
  BY TurnFacts, Zenon
<1>2. LUT(a, b) \in {-1, 0, 1}
  BY TableFacts, Zenon
<1>3. LUT(a, b) \in Int /\ InCycle(a) \in Int /\ InCycle(b) \in Int
  <2>1. InCycle(a) \in Int /\ InCycle(b) \in Int
    BY <1>0
  <2>2. LUT(a, b) \in Int
    BY <1>2
  <2> QED
    BY <2>1, <2>2
<1>4. u \in Int /\ v \in Int /\ (n + LUT(a, b)) - InCycle(b) = u + v
  BY <1>3
<1> HIDE DEF u, v
<1>5. (u + v) % 2 = 0
  <2>1. u % 2 = 0
    BY DEF u
  <2> QED
    BY <1>1, <1>4, <2>1, EvenSum
<1> QED
  BY <1>3, <1>4, <1>5

LEMMA FInit == EncoderInit => FInv
<1> SUFFICES ASSUME EncoderInit PROVE FInv
  OBVIOUS
<1>1. InCycle(0) = 0
  BY DEF InCycle
<1>2. ~sampled /\ encState = 0 /\ counted = 0 /\ shaft \in Int /\ sampledAt = shaft
  BY DEF EncoderInit
<1> QED
  BY <1>1, <1>2, EInit DEF FInv, NearShaft, EvenSteps, DriftSoFar

\* A good sample ends in step; out of step before, it costs two at most.
LEMMA GoodFollows ==
  ASSUME FInv, SampleGood
  PROVE  NearShaft' /\ EvenSteps' /\ DriftSoFar'
<1> DEFINE c == Contacts(shaft)
<1>1. EncoderTypeOK /\ c \in 0 .. 3 /\ encState \in 0 .. 3 /\ LUT(encState, c) \in {-1, 0, 1}
  BY TableFacts DEF FInv, EInv, EncoderTypeOK
<1>2. /\ encState' = c /\ counted' = counted + LUT(encState, c)
      /\ sampledAt' = shaft /\ goodAt' = shaft /\ goodCount' = counted' /\ shaft' = shaft /\ sampled'
      /\ base' = (IF sampled THEN base ELSE counted' - shaft)
      /\ misreads' = (IF sampled THEN misreads ELSE 0)
  BY DEF SampleGood, HandleRead
<1>3. NearShaft' /\ InStep'
  BY <1>1, <1>2 DEF NearShaft, InStep, EncoderTypeOK, Contacts
<1>4. EvenSteps'
  <2>1. (counted' - InCycle(c)) % 2 = 0 /\ counted' \in Int /\ InCycle(c) \in Int
    BY <1>1, <1>2, EvenAfter DEF FInv, EvenSteps, EncoderTypeOK
  <2>2. (InCycle(c) - shaft) % 2 = 0 /\ shaft \in Int
    <3>1. InCycle(c) = shaft % 4 /\ shaft \in Int
      BY <1>1, TurnFacts DEF EncoderTypeOK
    <3> QED
      BY <3>1, EvenOfFour
  <2>3. (counted' - shaft) % 2 = 0
    <3> DEFINE u == counted' - InCycle(c)
               v == InCycle(c) - shaft
    <3>1. u \in Int /\ v \in Int /\ u % 2 = 0 /\ v % 2 = 0 /\ counted' - shaft = u + v
      BY <2>1, <2>2
    <3> HIDE DEF u, v
    <3> QED
      BY <3>1, EvenSum
  <2>4. sampled => base % 2 = 0 /\ (counted' - shaft - base) % 2 = 0
    <3> DEFINE u == counted' - shaft
    <3>1. (sampled => base % 2 = 0) /\ base \in Int /\ u \in Int
      BY <1>1, <2>1, <2>2 DEF FInv, EvenSteps, EncoderTypeOK
    <3> HIDE DEF u
    <3>2. sampled => (u - base) % 2 = 0
      <4>1. u % 2 = 0
        BY <2>3 DEF u
      <4> QED
        BY <3>1, <4>1, EvenSum
    <3> QED
      BY <3>1, <3>2 DEF u
  <2>5. (counted' - shaft - (counted' - shaft)) % 2 = 0
    <3> DEFINE u == counted' - shaft
    <3>1. u \in Int
      BY <2>1, <2>2
    <3> HIDE DEF u
    <3>2. (u - u) % 2 = 0
      BY <3>1
    <3> QED
      BY <3>2 DEF u
  <2> QED
    BY <1>2, <2>1, <2>2, <2>3, <2>4, <2>5 DEF EvenSteps
<1>5. ASSUME sampled PROVE Within(counted' - shaft - base, 4 * misreads)
  <2>1. Within(counted - sampledAt - base, IF InStep THEN 4 * misreads ELSE 4 * misreads - 2)
        /\ shaft - sampledAt \in {-1, 0, 1} /\ shaft \in Int /\ sampledAt \in Int /\ counted \in Int
        /\ base \in Int /\ misreads \in Nat
    BY <1>1, <1>5 DEF FInv, DriftSoFar, NearShaft, EncoderTypeOK
  <2>2. CASE InStep
    <3>1. LUT(encState, c) = shaft - sampledAt
      <4>1. shaft = sampledAt + (shaft - sampledAt)
        BY <2>1
      <4> QED
        BY <2>1, <2>2, <4>1, TurnFacts DEF InStep
    <3> QED
      BY <1>2, <2>1, <2>2, <3>1 DEF Within
  <2>3. CASE ~InStep
    BY <1>1, <1>2, <2>1, <2>3 DEF Within
  <2> QED
    BY <2>2, <2>3
<1>6. DriftSoFar'
  <2>1. CASE sampled
    BY <1>2, <1>3, <1>5, <2>1 DEF DriftSoFar
  <2>2. CASE ~sampled
    BY <1>1, <1>2, <1>3, <2>2 DEF DriftSoFar, Within, EncoderTypeOK
  <2> QED
    BY <2>1, <2>2
<1> QED
  BY <1>3, <1>4, <1>6

\* A failed one costs two at most.
LEMMA FailFollows ==
  ASSUME FInv, SampleFails
  PROVE  NearShaft' /\ EvenSteps' /\ DriftSoFar'
<1>1. EncoderTypeOK /\ encState \in 0 .. 3 /\ LUT(encState, 0) \in {-1, 0, 1} /\ LUT(0, 0) = 0
  BY TableFacts DEF FInv, EInv, EncoderTypeOK
<1>2. /\ encState' = 0 /\ counted' = counted + LUT(encState, 0)
      /\ sampledAt' = shaft /\ misreads' = misreads + 1
      /\ UNCHANGED <<shaft, goodAt, goodCount, base, sampled>>
  BY DEF SampleFails, HandleRead
<1>3. NearShaft'
  BY <1>1, <1>2 DEF NearShaft, EncoderTypeOK
<1>4. EvenSteps'
  <2>1. (counted - InCycle(encState)) % 2 = 0 /\ counted \in Int /\ encState \in 0 .. 3 /\ 0 \in 0 .. 3
    BY <1>1 DEF FInv, EvenSteps, EncoderTypeOK
  <2>2. ((counted + LUT(encState, 0)) - InCycle(0)) % 2 = 0
    BY <2>1, EvenAfter
  <2>3. (counted' - InCycle(encState')) % 2 = 0
    <3>1. counted' = counted + LUT(encState, 0) /\ encState' = 0
      BY <1>2
    <3> QED
      BY <2>2, <3>1
  <2>4. sampled' => base' % 2 = 0 /\ (goodCount' - goodAt' - base') % 2 = 0
    BY <1>2 DEF EvenSteps, FInv
  <2> QED
    BY <2>3, <2>4 DEF EvenSteps
<1>5. ASSUME sampled PROVE DriftSoFar'
  <2>1. /\ Within(counted - sampledAt - base, IF InStep THEN 4 * misreads ELSE 4 * misreads - 2)
        /\ Within(goodCount - goodAt - base, 4 * misreads)
        /\ InStep \/ encState = 0
        /\ shaft - sampledAt \in {-1, 0, 1} /\ shaft \in Int /\ sampledAt \in Int /\ counted \in Int
        /\ base \in Int /\ misreads \in Nat /\ goodCount \in Int /\ goodAt \in Int
    BY <1>1, <1>5 DEF FInv, DriftSoFar, NearShaft, EncoderTypeOK
  <2>2. Within(counted' - shaft - base, 4 * misreads + 2)
    BY <1>1, <1>2, <2>1 DEF Within
  <2>3. Within(goodCount - goodAt - base, 4 * (misreads + 1))
    BY <2>1 DEF Within
  <2>4. Within(counted' - shaft - base, IF InStep' THEN 4 * (misreads + 1) ELSE 4 * (misreads + 1) - 2)
    BY <1>1, <1>2, <2>1, <2>2 DEF Within
  <2> QED
    BY <1>2, <2>3, <2>4 DEF DriftSoFar
<1>6. ASSUME ~sampled PROVE DriftSoFar'
  BY <1>2, <1>6 DEF DriftSoFar
<1> QED
  BY <1>3, <1>4, <1>5, <1>6

LEMMA FStep == FInv /\ [EncoderNext]_encVars => FInv'
<1> SUFFICES ASSUME FInv, [EncoderNext]_encVars PROVE FInv'
  OBVIOUS
<1>0. EInv'
  BY EStep DEF FInv
<1>1. CASE EncoderRestart
  <2>1. InCycle(0) = 0 /\ shaft \in Int
    BY DEF InCycle, FInv, EInv, EncoderTypeOK
  <2>2. sampled' = FALSE /\ encState' = 0 /\ counted' = 0 /\ shaft' = shaft /\ sampledAt' = shaft
    BY <1>1 DEF EncoderRestart
  <2> QED
    BY <1>0, <2>1, <2>2 DEF FInv, NearShaft, EvenSteps, DriftSoFar
<1>2. CASE Turn
  <2>1. UNCHANGED <<encState, counted, sampledAt, goodAt, goodCount, base, misreads, sampled>>
        /\ shaft' - sampledAt \in {-1, 0, 1}
    BY <1>2 DEF Turn
  <2> QED
    BY <1>0, <2>1 DEF FInv, NearShaft, EvenSteps, DriftSoFar, InStep
<1>3. CASE SampleGood
  BY <1>0, <1>3, GoodFollows DEF FInv
<1>4. CASE SampleFails
  BY <1>0, <1>4, FailFollows DEF FInv
<1>5. CASE UNCHANGED encVars
  BY <1>0, <1>5 DEF FInv, NearShaft, EvenSteps, DriftSoFar, InStep, encVars
<1> QED
  BY <1>1, <1>2, <1>3, <1>4, <1>5 DEF EncoderNext

\* The events follow the shaft, apart from what failed samples cost.
THEOREM FollowsShaft == EncoderSpec => []EventsFollowShaft
<1>1. FInv => EventsFollowShaft
  BY DEF FInv, EInv, EventsFollowShaft, EvenSteps, DriftSoFar, DriftBounded, Within
<1> QED
  BY <1>1, FInit, FStep, PTL DEF EncoderSpec
================================================================================
