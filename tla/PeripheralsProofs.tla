--------------------------- MODULE PeripheralsProofs ---------------------------
(***************************************************************************)
(* What the host asks for, reads back and gets after a restart, the parts  *)
(* the device list is sent in, the pace of the LEDs and what the display   *)
(* shows: for every value of the constants.                                *)
(*                                                                         *)
(* And that the components of MCPeripherals are what they are alone: as    *)
(* they share no variable a behaviour of the whole is one of each.         *)
(***************************************************************************)
EXTENDS MCPeripherals, TrackballProofs, EncoderProofs, KeymapLayoutProofs, TLAPS

(***************************************************************************)
(* The host's parameters.                                                  *)
(***************************************************************************)

Fields ==
  Flags \cup {"actuation_point", "reset_point", "mouse_layer_off_delay_ms", "tapping_term_50ms",
              "cpi_step", "drag_scroll_speed_magnification", "angle", "trackball_timeout",
              "led_base_mode", "display_mode", "magkey_data_bytes", "resolution"}

LEMMA ParamOfField == \A id \in Ids \ {0} : ParamOf(id)[1] \in Fields
<1> SUFFICES ASSUME NEW id \in Ids \ {0} PROVE ParamOf(id)[1] \in Fields
  OBVIOUS
<1>1. id \in 1 .. 9 \/ id \in 10 .. 29 \/ id \in 30 .. 45 \/ id = 46
  BY DEF Ids, KnownParam
<1>2. CASE id \in 1 .. 9
  <2>1. ParamOf(id) = <<GeneralFields[id], 0>>
    BY <1>2 DEF ParamOf
  <2>2. \/ id = 1 \/ id = 2 \/ id = 3 \/ id = 4 \/ id = 5 \/ id = 6 \/ id = 7 \/ id = 8 \/ id = 9
    BY <1>2
  <2>3. GeneralFields[id] \in Fields
    BY <2>2 DEF GeneralFields, Fields, Flags
  <2> QED
    BY <2>1, <2>3
<1>3. CASE id \in 10 .. 29
  <2> DEFINE at == ((id - 10) % 5) + 1
  <2>1. ParamOf(id) = <<TbFields[at], (id - 10) \div 5>>
    BY <1>3 DEF ParamOf
  <2>2. at = 1 \/ at = 2 \/ at = 3 \/ at = 4 \/ at = 5
    BY <1>3
  <2>3. TbFields[at] \in Fields
    <3> HIDE DEF at
    <3> QED
      BY <2>2 DEF TbFields, Fields, Flags
  <2> QED
    BY <2>1, <2>3
<1>4. CASE id \in 30 .. 45
  BY <1>4 DEF ParamOf, Fields
<1>5. CASE id = 46
  BY <1>5 DEF ParamOf, Fields
<1> QED
  BY <1>1, <1>2, <1>3, <1>4, <1>5

LEMMA ParamField == \A p \in Params : p[1] \in Fields
  BY ParamOfField DEF Params, KeyParams, Fields, Flags

LEMMA GreatestNat == \A f : Greatest(f) \in Nat
  BY DEF Greatest, Documented

\* The parameters with a side effect or of a start are parameters, of their fields.
LEMMA AppliedParams == Applied \cup AtStart \subseteq Params /\ <<"tapping_term_50ms", 0>> \in Params
<1>1. /\ ParamOf(1) = <<"mouse_layer_on", 0>> /\ ParamOf(2) = <<"mouse_layer_off_delay_ms", 0>>
      /\ ParamOf(7) = <<"tapping_term_50ms", 0>>
      /\ ParamOf(8) = <<"display_mode", 0>> /\ ParamOf(9) = <<"led_base_mode", 0>>
  BY DEF ParamOf, GeneralFields
<1>2. {1, 2, 7, 8, 9} \subseteq Ids \ {0}
  BY DEF Ids, KnownParam
<1> QED
  BY <1>1, <1>2 DEF Applied, AtStart, Params

LEMMA Powers == 2 ^ 12 = 4096 /\ 2 ^ 9 = 512 /\ 2 ^ 6 = 64 /\ 2 ^ 4 = 16 /\ 2 ^ 3 = 8 /\ 2 ^ 2 = 4
  OBVIOUS

\* What a field keeps of what its accessor lets through is what was sent, up to
\* the greatest value: no width is too small for the limit.
LEMMA KeptAsGreatest ==
  ASSUME NEW f \in Fields, NEW v \in Nat
  PROVE  Kept(f, AtMost(v, Limit(f))) = AtMost(v, Greatest(f))
<1>1. CASE f \in Flags
  <2>1. Limit(f) = 1 /\ Greatest(f) = 1
    BY <1>1 DEF Limit, Greatest, Documented, Flags
  <2> QED
    BY <1>1, <2>1 DEF Kept, AtMost
<1>2. ASSUME f \notin Flags, Limit(f) = Greatest(f), Limit(f) \in Nat,
             2 ^ Bits(f) \in Nat, Limit(f) < 2 ^ Bits(f)
      PROVE  Kept(f, AtMost(v, Limit(f))) = AtMost(v, Greatest(f))
  <2>1. AtMost(v, Limit(f)) \in 0 .. 2 ^ Bits(f) - 1
    BY <1>2 DEF AtMost
  <2>2. AtMost(v, Limit(f)) % 2 ^ Bits(f) = AtMost(v, Limit(f))
    <3>1. \A m \in Nat : \A x \in 0 .. m - 1 : x % m = x
      OBVIOUS
    <3> QED
      BY <1>2, <2>1, <3>1
  <2> QED
    BY <1>2, <2>2 DEF Kept
<1>3. CASE f \in {"actuation_point", "reset_point"}
  <2>1. f \notin Flags /\ Limit(f) = 4095 /\ Greatest(f) = 4095 /\ Bits(f) = 12
    BY <1>3 DEF Limit, Greatest, Documented, Bits, Flags
  <2> QED
    BY <1>2, <2>1, Powers
<1>4. CASE f = "mouse_layer_off_delay_ms"
  <2>1. f \notin Flags /\ Limit(f) = 63 /\ Greatest(f) = 63 /\ Bits(f) = 6
    BY <1>4 DEF Limit, Greatest, Documented, Bits, Flags
  <2> QED
    BY <1>2, <2>1, Powers
<1>5. CASE f \in {"tapping_term_50ms", "cpi_step", "drag_scroll_speed_magnification"}
  <2>1. f \notin Flags /\ Limit(f) = 15 /\ Greatest(f) = 15 /\ Bits(f) = 4
    BY <1>5 DEF Limit, Greatest, Documented, Bits, Flags
  <2> QED
    BY <1>2, <2>1, Powers
<1>6. CASE f = "angle"
  <2>1. f \notin Flags /\ Limit(f) = 359 /\ Greatest(f) = 359 /\ Bits(f) = 9
    BY <1>6 DEF Limit, Greatest, Documented, Bits, Flags
  <2> QED
    BY <1>2, <2>1, Powers
<1>7. CASE f \in {"trackball_timeout", "led_base_mode", "magkey_data_bytes", "resolution"}
  <2>1. f \notin Flags /\ Limit(f) = 3 /\ Greatest(f) = 3 /\ Bits(f) = 2
    BY <1>7 DEF Limit, Greatest, Documented, Bits, Flags
  <2> QED
    BY <1>2, <2>1, Powers
<1>8. CASE f = "display_mode"
  <2>1. f \notin Flags /\ Limit(f) = 3 /\ Greatest(f) = 3 /\ Bits(f) = 3
    BY <1>8 DEF Limit, Greatest, Documented, Bits, Flags
  <2> QED
    BY <1>2, <2>1, Powers
<1> QED
  BY <1>1, <1>3, <1>4, <1>5, <1>6, <1>7, <1>8 DEF Fields

\* Settings that are parameters' values.
Legal(s) == s \in [Params -> Nat] /\ \A p \in Params : s[p] <= Greatest(p[1])

\* What is in force is what the next start will make of the settings.
InForceInv ==
  /\ DOMAIN live = Applied \cup AtStart
  /\ \A p \in Applied \cup AtStart :
       p \notin loose /\ ~ForcedAtStart(p) => live[p] = Started(settings)[p]

HostInv ==
  /\ session \in Sessions /\ loose \subseteq Applied \cup AtStart
  /\ Legal(settings) /\ asked \in [Params -> Nat]
  /\ \A p \in Params : settings[p] = AtMost(asked[p], Greatest(p[1]))
  /\ InForceInv

\* A start makes of a parameter what its setting says, unless it is forced.
LEMMA StartOf ==
  ASSUME NEW s, Legal(s), NEW p \in Applied \cup AtStart
  PROVE  Started(s)[p] = IF p[1] = "mouse_layer_on" THEN 1
                         ELSE IF p = DisplayP /\ s[p] = SelectedKey THEN 0
                         ELSE InForce(p, s[p])
<1>1. s \in [Params -> Nat] /\ p \in Params /\ DisplayP \in Params
  BY AppliedParams DEF Legal, Applied, DisplayP
<1>2. s[DisplayP] < 4
  <2>1. Greatest("display_mode") = 3 /\ DisplayP[1] = "display_mode"
    BY DEF Greatest, Documented, Flags, DisplayP
  <2> QED
    BY <1>1, <2>1 DEF Legal
<1>3. Accepted(s)[p] = IF p = DisplayP /\ s[p] = SelectedKey THEN 0 ELSE s[p]
  BY <1>1, <1>2 DEF Accepted
<1>4. Started(s)[p] = IF p[1] = "mouse_layer_on" THEN 1 ELSE InForce(p, Accepted(s)[p])
  BY DEF Started
<1>5. InForce(DisplayP, 0) = 0
  BY DEF InForce, DisplayP
<1> QED
  BY <1>3, <1>4, <1>5

LEMMA StartDomain == \A s : DOMAIN Started(s) = Applied \cup AtStart
  BY DEF Started

\* Defaults are legal.
LEMMA ResetLegal ==
  ASSUME NEW s, Legal(s)
  PROVE  Legal(Reset(s))
<1> SUFFICES ASSUME NEW p \in Params
             PROVE  Reset(s)[p] \in Nat /\ Reset(s)[p] <= Greatest(p[1])
  BY DEF Legal, Reset
<1>1. Reset(s)[p] =
     CASE p[1] = "display_mode"                                      -> s[p]
       [] p[1] \in {"mouse_layer_on", "rescan_i2c_on_read_error",
                    "permissive_hold", "led_base_mode"}              -> 1
       [] p[1] = "mouse_layer_off_delay_ms"                          -> 13
       [] p[1] = "tapping_term_50ms"                                 -> 6
       [] p[1] \in {"drag_scroll_speed_magnification", "cpi_step"}   -> 3
       [] p[1] = "resolution"                                        -> 2
       [] p[1] = "actuation_point"                                   -> 3551
       [] p[1] = "reset_point"                                       -> 2929
       [] OTHER                                                      -> 0
  BY DEF Reset
<1>2. CASE p[1] = "display_mode"
  BY <1>1, <1>2 DEF Legal
<1>3. CASE p[1] \in {"mouse_layer_on", "rescan_i2c_on_read_error", "permissive_hold"}
  <2>1. Greatest(p[1]) = 1
    BY <1>3 DEF Greatest, Documented, Flags
  <2>2. Reset(s)[p] = 1
    BY <1>1, <1>3
  <2> QED
    BY <2>1, <2>2
<1>4. CASE p[1] \in {"led_base_mode", "resolution"}
  <2>1. Greatest(p[1]) = 3
    BY <1>4 DEF Greatest, Documented, Flags
  <2>2. Reset(s)[p] \in {1, 2}
    BY <1>1, <1>4
  <2> QED
    BY <2>1, <2>2
<1>5. CASE p[1] = "mouse_layer_off_delay_ms"
  BY <1>1, <1>5 DEF Greatest, Documented, Flags
<1>6. CASE p[1] \in {"tapping_term_50ms", "drag_scroll_speed_magnification", "cpi_step"}
  <2>1. Greatest(p[1]) = 15
    BY <1>6 DEF Greatest, Documented, Flags
  <2>2. Reset(s)[p] \in {3, 6}
    BY <1>1, <1>6
  <2> QED
    BY <2>1, <2>2
<1>7. CASE p[1] \in {"actuation_point", "reset_point"}
  <2>1. Greatest(p[1]) = 4095
    BY <1>7 DEF Greatest, Documented, Flags
  <2>2. Reset(s)[p] \in {3551, 2929}
    BY <1>1, <1>7
  <2> QED
    BY <2>1, <2>2
<1>8. CASE Reset(s)[p] = 0
  BY <1>8, GreatestNat
<1> QED
  BY <1>1, <1>2, <1>3, <1>4, <1>5, <1>6, <1>7, <1>8

\* A legal value is within the limit.
LEMMA LegalIsKept ==
  ASSUME NEW s, Legal(s), NEW p \in Params
  PROVE  s[p] = AtMost(s[p], Greatest(p[1]))
  BY GreatestNat DEF Legal, AtMost

LEMMA HostInvInit == HostInit => HostInv
<1> SUFFICES ASSUME HostInit PROVE HostInv
  OBVIOUS
<1>1. Legal([p \in Params |-> 0])
  BY GreatestNat DEF Legal
<1>2. Legal(settings)
  BY <1>1, ResetLegal DEF HostInit
<1>3. InForceInv
  BY StartDomain DEF HostInit, InForceInv
<1>4. asked \in [Params -> Nat] /\ \A p \in Params : settings[p] = AtMost(asked[p], Greatest(p[1]))
  <2>1. asked = settings
    BY DEF HostInit
  <2> QED
    BY <1>2, <2>1, LegalIsKept DEF Legal
<1> QED
  BY <1>2, <1>3, <1>4 DEF HostInit, HostInv

\* Another parameter that changes leaves what is in force of one as it should be.
LEMMA RestIsUntouched ==
  ASSUME NEW s, NEW t, Legal(s), Legal(t), NEW p \in Applied \cup AtStart, s[p] = t[p]
  PROVE  Started(s)[p] = Started(t)[p]
  BY StartOf

LEMMA LegalValue ==
  ASSUME NEW f \in Fields, NEW v \in Nat
  PROVE  AtMost(v, Greatest(f)) \in Nat /\ AtMost(v, Greatest(f)) <= Greatest(f)
  BY GreatestNat DEF AtMost

LEMMA SetParamStep ==
  ASSUME HostInv, NEW id \in Ids \ {0}, NEW v \in Nat, SetParam(id, v)
  PROVE  HostInv'
<1> USE DEF HostInv
<1> DEFINE p == ParamOf(id)
           x == AtMost(v, Greatest(p[1]))
<1>1. p \in Params /\ p[1] \in Fields
  BY ParamOfField DEF Params
<1>2. x \in Nat /\ x <= Greatest(p[1]) /\ Kept(p[1], AtMost(v, Limit(p[1]))) = x
  BY <1>1, LegalValue, KeptAsGreatest
<1>3. /\ settings' = [settings EXCEPT ![p] = x] /\ asked' = [asked EXCEPT ![p] = v]
      /\ live' = SideEffect(p, settings')
      /\ loose' = IF p \in AtStart THEN loose \cup {p} ELSE loose \ {p}
      /\ session' = session
  BY <1>2 DEF SetParam
<1>4. x = AtMost(v, Greatest(p[1]))
  OBVIOUS
<1> HIDE DEF p, x
<1>5. /\ asked' \in [Params -> Nat]
      /\ \A q \in Params : settings'[q] = AtMost(asked'[q], Greatest(q[1]))
  BY <1>1, <1>3, <1>4 DEF Legal
<1>6. Legal(settings') /\ settings'[p] = x /\ \A q \in Params \ {p} : settings'[q] = settings[q]
  BY <1>1, <1>2, <1>3 DEF Legal
<1>7. loose' \subseteq Applied \cup AtStart
  BY <1>3
<1>8. InForceInv'
  <2>1. DOMAIN live' = Applied \cup AtStart
    BY <1>3 DEF InForceInv, SideEffect
  <2>2. ASSUME NEW q \in Applied \cup AtStart, q \notin loose', ~ForcedAtStart(q)'
        PROVE  live'[q] = Started(settings')[q]
    <3>1. live'[q] = IF q = p /\ q \in Applied THEN InForce(q, settings'[q]) ELSE live[q]
      BY <1>3 DEF SideEffect, InForceInv
    <3>2. CASE q = p
      <4>1. q \in Applied
        BY <1>3, <2>2, <3>2
      <4>2. q[1] = "mouse_layer_on" => settings'[q] = 1 /\ InForce(q, settings'[q]) = 1
        <5> SUFFICES ASSUME q[1] = "mouse_layer_on" PROVE settings'[q] = 1 /\ InForce(q, settings'[q]) = 1
          OBVIOUS
        <5>1. Greatest(q[1]) = 1
          BY DEF Greatest, Documented, Flags
        <5>2. settings'[q] # 0
          BY <2>2 DEF ForcedAtStart
        <5>3. settings'[q] = 1
          BY <1>2, <1>6, <3>2, <5>1, <5>2
        <5> QED
          BY <5>3 DEF InForce
      <4>3. ~(q = DisplayP /\ settings'[q] = SelectedKey)
        BY <2>2 DEF ForcedAtStart
      <4> QED
        BY <1>6, <3>1, <3>2, <4>1, <4>2, <4>3, StartOf
    <3>3. CASE q # p
      <4>1. q \in Params /\ settings'[q] = settings[q]
        BY <1>6, <3>3, AppliedParams
      <4>2. q \notin loose
        BY <1>3, <2>2, <3>3
      <4>3. ~ForcedAtStart(q)
        BY <2>2, <4>1 DEF ForcedAtStart
      <4> QED
        BY <1>6, <3>1, <3>3, <4>1, <4>2, <4>3, RestIsUntouched DEF InForceInv
    <3> QED
      BY <3>2, <3>3
  <2> QED
    BY <2>1, <2>2 DEF InForceInv
<1> QED
  BY <1>3, <1>5, <1>6, <1>7, <1>8

LEMMA SetMagkeyStep ==
  ASSUME HostInv, NEW a \in Nat, NEW r \in Nat, NEW rapid \in Nat, NEW present,
         SetMagkey(a, r, rapid, present)
  PROVE  HostInv'
<1> USE DEF HostInv
<1> DEFINE sent == [p \in KeyParams |-> CASE p[1] = "actuation_point" -> a
                                          [] p[1] = "reset_point"     -> r
                                          [] OTHER                    -> rapid]
<1>1. /\ settings' = [p \in Params |-> IF p \in KeyParams THEN Kept(p[1], AtMost(sent[p], Limit(p[1])))
                                       ELSE settings[p]]
      /\ asked' = [p \in Params |-> IF p \in KeyParams THEN sent[p] ELSE asked[p]]
      /\ UNCHANGED <<session, live, loose>>
  BY DEF SetMagkey
<1>2. \A p \in KeyParams : sent[p] \in Nat /\ p[1] \in Fields
  BY ParamField DEF KeyParams, Params
<1> HIDE DEF sent
<1>3. \A p \in KeyParams : /\ Kept(p[1], AtMost(sent[p], Limit(p[1]))) = AtMost(sent[p], Greatest(p[1]))
                           /\ AtMost(sent[p], Greatest(p[1])) \in Nat
                           /\ AtMost(sent[p], Greatest(p[1])) <= Greatest(p[1])
  BY <1>2, KeptAsGreatest, LegalValue
<1>4. /\ asked' \in [Params -> Nat]
      /\ \A p \in Params : settings'[p] = AtMost(asked'[p], Greatest(p[1]))
  BY <1>1, <1>2, <1>3
<1>5. Legal(settings')
  BY <1>1, <1>3 DEF Legal
<1>6. InForceInv'
  <2>1. \A q \in Applied \cup AtStart : q \in Params /\ q \notin KeyParams
    <3>1. \A id \in Ids \ {0} : ParamOf(id) \notin KeyParams \/ ParamOf(id) \notin AtStart
      BY DEF AtStart, KeyParams
    <3> QED
      BY AppliedParams DEF Applied, AtStart, KeyParams
  <2>2. \A q \in Applied \cup AtStart : settings'[q] = settings[q]
    BY <1>1, <2>1
  <2>3. \A q \in Applied \cup AtStart : Started(settings')[q] = Started(settings)[q]
    BY <1>5, <2>2, RestIsUntouched
  <2>4. \A q \in Applied \cup AtStart : ForcedAtStart(q)' <=> ForcedAtStart(q)
    BY <2>2 DEF ForcedAtStart
  <2> QED
    BY <1>1, <2>3, <2>4 DEF InForceInv
<1> QED
  BY <1>1, <1>4, <1>5, <1>6

LEMMA RestartStep ==
  ASSUME HostInv, Restart
  PROVE  HostInv'
<1> USE DEF HostInv
<1>1. /\ settings' = Accepted(settings) /\ asked' = [asked EXCEPT ![DisplayP] = settings'[DisplayP]]
      /\ live' = Started(settings) /\ loose' = {} /\ session' = session
  BY DEF Restart
<1>2. settings \in [Params -> Nat] /\ DisplayP \in Params
  BY AppliedParams DEF Legal, Applied, DisplayP
<1>3. settings' = [settings EXCEPT ![DisplayP] = 0] \/ settings' = settings
  BY <1>1 DEF Accepted
<1>4. Legal(settings')
  BY <1>2, <1>3, GreatestNat DEF Legal
<1>5. /\ asked' \in [Params -> Nat]
      /\ \A p \in Params : settings'[p] = AtMost(asked'[p], Greatest(p[1]))
  <2> SUFFICES ASSUME NEW p \in Params
               PROVE  asked' \in [Params -> Nat] /\ settings'[p] = AtMost(asked'[p], Greatest(p[1]))
    BY <1>1
  <2>1. settings'[DisplayP] \in Nat
    BY <1>2, <1>4 DEF Legal
  <2>2. asked' \in [Params -> Nat]
    BY <1>1, <1>2, <2>1
  <2>3. asked'[p] = IF p = DisplayP THEN settings'[DisplayP] ELSE asked[p]
    BY <1>1, <1>2
  <2>4. CASE p = DisplayP
    <3>1. settings'[p] = AtMost(settings'[p], Greatest(p[1]))
      BY <1>4, LegalIsKept
    <3> QED
      BY <2>2, <2>3, <2>4, <3>1
  <2>5. CASE p # DisplayP
    <3>1. settings'[p] = settings[p]
      BY <1>2, <1>3, <2>5
    <3>2. settings[p] = AtMost(asked[p], Greatest(p[1]))
      OBVIOUS
    <3>3. asked'[p] = asked[p]
      BY <2>3, <2>5
    <3> QED
      BY <2>2, <3>1, <3>2, <3>3
  <2> QED
    BY <2>4, <2>5
<1>6. \A q \in Applied \cup AtStart : Started(settings')[q] = Started(settings)[q]
  <2> SUFFICES ASSUME NEW q \in Applied \cup AtStart PROVE Started(settings')[q] = Started(settings)[q]
    OBVIOUS
  <2>1. CASE q # DisplayP
    <3>1. settings'[q] = settings[q]
      BY <1>2, <1>3, <2>1, AppliedParams
    <3> QED
      BY <1>4, <3>1, RestIsUntouched
  <2>2. CASE q = DisplayP
    <3>1. settings[q] = SelectedKey \/ settings[q] >= 4 => settings'[q] = 0
      BY <1>1, <1>2, <2>2 DEF Accepted
    <3>2. settings[q] # SelectedKey /\ ~(settings[q] >= 4) => settings'[q] = settings[q]
      BY <1>1, <1>2, <2>2 DEF Accepted
    <3>3. q[1] # "mouse_layer_on" /\ InForce(q, 0) = 0 /\ 0 # SelectedKey
      BY <2>2 DEF DisplayP, InForce, SelectedKey
    <3>4. ~(settings[q] >= 4)
      <4>1. Greatest(q[1]) = 3
        BY <2>2 DEF Greatest, Documented, Flags, DisplayP
      <4> QED
        BY <1>2, <2>2, <4>1 DEF Legal
    <3> QED
      BY <1>4, <2>2, <3>1, <3>2, <3>3, <3>4, StartOf
  <2> QED
    BY <2>1, <2>2
<1>7. InForceInv'
  BY <1>1, <1>6, StartDomain DEF InForceInv
<1> QED
  BY <1>1, <1>4, <1>5, <1>7

LEMMA ShowPageStep ==
  ASSUME HostInv, NEW mode, ShowPage(mode)
  PROVE  HostInv'
<1>1. DisplayP \in Applied
  BY DEF DisplayP, Applied
<1>2. /\ live' = [live EXCEPT ![DisplayP] = mode] /\ loose' = loose \cup {DisplayP}
      /\ UNCHANGED <<session, settings, asked>>
  BY DEF ShowPage
<1>3. InForceInv'
  BY <1>1, <1>2 DEF HostInv, InForceInv, ForcedAtStart
<1> QED
  BY <1>1, <1>2, <1>3 DEF HostInv

LEMMA HostInvStep == HostInv /\ [HostNext]_hostVars => HostInv'
<1> SUFFICES ASSUME HostInv, [HostNext]_hostVars PROVE HostInv'
  OBVIOUS
<1>1. ASSUME NEW id \in session \cap Ids, NEW v \in HostValues, SetParam(id, v) PROVE HostInv'
  <2>1. id \in Ids \ {0} /\ v \in Nat
    BY <1>1, HostAssumption DEF HostInv, Ids, KnownParam, SetMagkeyConfig
  <2> QED
    BY <1>1, <2>1, SetParamStep
<1>2. ASSUME NEW a \in HostValues, NEW r \in HostValues, NEW rapid \in {0, 1}, NEW present \in BOOLEAN,
             SetMagkey(a, r, rapid, present)
      PROVE  HostInv'
  <2>1. a \in Nat /\ r \in Nat /\ rapid \in Nat
    BY HostAssumption
  <2> QED
    BY <1>2, <2>1, SetMagkeyStep
<1>3. CASE ResetParams
  <2>1. Legal(settings')
    BY <1>3, ResetLegal DEF ResetParams, HostInv
  <2>2. InForceInv'
    BY <1>3 DEF ResetParams, HostInv, InForceInv
  <2>3. /\ asked' \in [Params -> Nat]
        /\ \A p \in Params : settings'[p] = AtMost(asked'[p], Greatest(p[1]))
    <3>1. asked' = settings'
      BY <1>3 DEF ResetParams
    <3> QED
      BY <2>1, <3>1, LegalIsKept DEF Legal
  <2> QED
    BY <1>3, <2>1, <2>2, <2>3 DEF ResetParams, HostInv
<1>4. CASE NextPage \/ SetKeypressTarget
  BY <1>4, ShowPageStep DEF NextPage, SetKeypressTarget
<1>5. CASE Restart
  BY <1>5, RestartStep
<1>6. CASE UNCHANGED hostVars
  BY <1>6 DEF hostVars, HostInv, InForceInv, ForcedAtStart
<1> QED
  BY <1>1, <1>2, <1>3, <1>4, <1>5, <1>6 DEF HostNext

LEMMA HostAlways == HostSpec => []HostInv
  BY HostInvInit, HostInvStep, PTL DEF HostSpec

\* A legal value of a parameter is one its users expect, and the tapping term of
\* get_tapping_term is what the documentation says.
THEOREM HostTypes == HostSpec => []HostTypeOK
<1>1. HostInv => HostTypeOK
  <2> SUFFICES ASSUME HostInv PROVE HostTypeOK
    OBVIOUS
  <2>1. settings \in [Params -> Nat] /\ \A p \in Params : settings[p] <= Greatest(p[1])
    BY DEF HostInv, Legal
  <2>2. \A p \in Params : settings[p] \in 0 .. Greatest(p[1])
    BY <2>1, GreatestNat
  <2>3. TappingTerm \in 50 .. 425
    <3>1. Greatest("tapping_term_50ms") = 15
      BY DEF Greatest, Documented, Flags
    <3>2. settings[<<"tapping_term_50ms", 0>>] \in 0 .. 15
      BY <2>1, <3>1, AppliedParams
    <3> QED
      BY <3>2 DEF TappingTerm
  <2> QED
    BY <2>1, <2>2, <2>3 DEF HostInv, InForceInv, HostTypeOK
<1> QED
  BY <1>1, HostAlways, PTL

\* handle_get_kbc_param gives the host what it has set, up to the documented
\* maximum, and for a key's points up to what their fields hold, one less.
THEOREM ReadsBack == HostSpec => []ReadsBackAsAsked
<1>1. HostInv => ReadsBackAsAsked
  <2> SUFFICES ASSUME HostInv PROVE ReadsBackAsAsked
    OBVIOUS
  <2>1. \A id \in session \cap Ids : ParamOf(id) \in Params
    BY HostAssumption DEF HostInv, Params, Ids, KnownParam, SetMagkeyConfig
  <2> QED
    BY <2>1 DEF HostInv, ReadsBackAsAsked, Get
<1> QED
  BY <1>1, HostAlways, PTL

\* The side effects of set_param and keyboard_post_init_kb agree.
THEOREM RestartIsNoChange == HostSpec => []RestartChangesNothing
<1>1. HostInv => RestartChangesNothing
  BY DEF HostInv, InForceInv, RestartChangesNothing
<1> QED
  BY <1>1, HostAlways, PTL

(***************************************************************************)
(* The device list in parts.                                               *)
(***************************************************************************)

LEMMA DivBounds ==
  ASSUME NEW x \in Nat, NEW s \in Nat \ {0}
  PROVE  /\ x \div s \in Nat
         /\ (x \div s) * s <= x
         /\ x < (x \div s) * s + s
  BY SMT

LEMMA TimesMonotone ==
  ASSUME NEW a \in Int, NEW b \in Int, a <= b, NEW s \in Nat
  PROVE  a * s <= b * s
  BY SMT

\* While parts are sent the host has had all before partNo, each of them full.
ReplyInv ==
  /\ listed \in ReplyCounts /\ partNo \in 0 .. 256 /\ ~emptyPart
  /\ sending => /\ Payload > 0 /\ ~complete
                /\ partNo <= LastPart(Payload)
                /\ arrived = partNo * PartSize
  /\ complete => arrived = Payload

LEMMA PayloadFits ==
  ASSUME listed \in ReplyCounts
  PROVE  Payload \in Nat /\ Payload <= PartSize * 256
<1>1. listed \in Nat /\ MaxItems \in Nat /\ ItemSize \in Nat /\ ItemSize * MaxItems <= PartSize * 256
      /\ PartSize \in Nat
  BY ReplyAssumption
<1> DEFINE items == IF listed > MaxItems THEN MaxItems ELSE listed
<1>2. items \in Nat /\ items <= MaxItems
  BY <1>1
<1> HIDE DEF items
<1>3. items * ItemSize <= MaxItems * ItemSize /\ items * ItemSize \in Nat
  BY <1>1, <1>2, TimesMonotone
<1>4. MaxItems * ItemSize = ItemSize * MaxItems
  BY <1>1
<1>5. Payload = items * ItemSize
  BY DEF Payload, items
<1> QED
  BY <1>1, <1>3, <1>4, <1>5

\* The last part holds the rest, at least a byte and at most a whole part.
LEMMA LastPartHoldsRest ==
  ASSUME NEW total \in Nat, total > 0, total <= PartSize * 256
  PROVE  /\ LastPart(total) \in 0 .. 255
         /\ LastPart(total) * PartSize < total
         /\ total <= LastPart(total) * PartSize + PartSize
<1>1. PartSize \in Nat \ {0} /\ total - 1 \in Nat
  BY ReplyAssumption
<1> DEFINE k == (total - 1) \div PartSize
<1>2. k \in Nat /\ k * PartSize <= total - 1 /\ total - 1 < k * PartSize + PartSize
  BY <1>1, DivBounds
<1> HIDE DEF k
<1>3. k <= 255
  <2>1. SUFFICES ASSUME k >= 256 PROVE FALSE
    BY <1>2
  <2>2. 256 * PartSize <= k * PartSize
    BY <1>1, <1>2, <2>1, TimesMonotone
  <2>3. 256 * PartSize = PartSize * 256 /\ k * PartSize \in Nat
    BY <1>1, <1>2
  <2> QED
    BY <1>1, <1>2, <2>2, <2>3
<1>4. LastPart(total) = k
  BY DEF LastPart, k
<1>5. k * PartSize \in Nat
  BY <1>1, <1>2
<1> QED
  BY <1>1, <1>2, <1>3, <1>4, <1>5

LEMMA ReplyInvInit == ReplyInit => ReplyInv
<1>1. 0 \in 0 .. 256
  BY SMT
<1> QED
  BY <1>1, Zenon DEF ReplyInit, ReplyInv

LEMMA ReplyInvStep == ReplyInv /\ [ReplyNext]_replyVars => ReplyInv'
<1> SUFFICES ASSUME ReplyInv, [ReplyNext]_replyVars PROVE ReplyInv'
  OBVIOUS
<1>0. PartSize \in Nat \ {0}
  BY ReplyAssumption
<1>1. CASE RequestList
  <2>1. Payload' = Payload /\ Payload \in Nat /\ Payload <= PartSize * 256
    BY <1>1, PayloadFits DEF RequestList, ReplyInv, Payload
  <2>3. 0 = 0 * PartSize
    BY <1>0
  <2>4. /\ listed' = listed /\ partNo' = 0 /\ arrived' = 0 /\ complete' = FALSE
        /\ emptyPart' = emptyPart /\ sending' = (Payload > 0)
    BY <1>1 DEF RequestList
  <2>5. LastPart(Payload)' = LastPart(Payload)
    BY <2>1 DEF LastPart
  <2>6. Payload > 0 => 0 <= LastPart(Payload)
    BY <2>1, LastPartHoldsRest
  <2>7. 0 \in 0 .. 256
    BY SMT
  <2>8. sending' => /\ Payload' > 0 /\ ~complete'
                    /\ partNo' <= LastPart(Payload)'
                    /\ arrived' = partNo' * PartSize
    BY <2>1, <2>3, <2>4, <2>5, <2>6, Zenon
  <2>9. listed' \in ReplyCounts /\ partNo' \in 0 .. 256 /\ ~emptyPart' /\ ~complete'
    BY <2>4, <2>7, Zenon DEF ReplyInv
  <2> QED
    BY <2>8, <2>9, Zenon DEF ReplyInv
<1>2. CASE SendPart
  <2> DEFINE P == Payload
             k == LastPart(Payload)
  <2>1. P' = P /\ P \in Nat /\ P <= PartSize * 256 /\ k' = k /\ P > 0
    BY <1>2, PayloadFits DEF SendPart, ReplyInv, Payload, LastPart
  <2>2. k \in 0 .. 255 /\ k * PartSize < P /\ P <= k * PartSize + PartSize
    BY <2>1, LastPartHoldsRest
  <2>3. /\ partNo \in Nat /\ partNo <= k /\ arrived = partNo * PartSize
        /\ arrived' = arrived + Take(P)
        /\ emptyPart' = (Take(P) = 0)
        /\ complete' = (partNo = k) /\ sending' = (partNo < k)
        /\ partNo' = partNo + 1 /\ listed' = listed
    BY <1>2 DEF SendPart, ReplyInv
  <2>4. Take(P) = IF P - partNo * PartSize > PartSize THEN PartSize ELSE P - partNo * PartSize
    BY DEF Take
  <2> HIDE DEF P, k
  <2>5. partNo * PartSize \in Nat /\ k * PartSize \in Nat /\ (partNo + 1) * PartSize = partNo * PartSize + PartSize
    BY <1>0, <2>2, <2>3
  <2>6. partNo * PartSize <= k * PartSize
    BY <1>0, <2>2, <2>3, TimesMonotone
  <2>7. Take(P) # 0
    BY <1>0, <2>1, <2>2, <2>4, <2>5, <2>6
  <2>10. listed' \in ReplyCounts /\ partNo' \in 0 .. 256 /\ ~emptyPart'
    <3>1. ~emptyPart' /\ listed' \in ReplyCounts
      BY <2>3, <2>7 DEF ReplyInv
    <3> QED
      BY <2>2, <2>3, <3>1
  <2>8. CASE partNo = k
    <3>1. arrived' = P
      BY <1>0, <2>1, <2>2, <2>3, <2>4, <2>5, <2>8
    <3>2. ~sending'
      <4>1. ~(partNo < k)
        BY <2>2, <2>3, <2>8
      <4> QED
        BY <2>3, <4>1, Zenon
    <3> QED
      BY <2>1, <2>10, <3>1, <3>2 DEF ReplyInv, P
  <2>9. CASE partNo < k
    <3>1. (partNo + 1) * PartSize <= k * PartSize
      BY <1>0, <2>2, <2>3, <2>9, TimesMonotone
    <3>2. arrived' = (partNo + 1) * PartSize
      BY <1>0, <2>1, <2>2, <2>3, <2>4, <2>5, <3>1
    <3>3. ~complete'
      <4>1. partNo # k
        BY <2>2, <2>3, <2>9
      <4> QED
        BY <2>3, <4>1, Zenon
    <3>4. partNo' <= k' /\ arrived' = partNo' * PartSize
      BY <2>1, <2>2, <2>3, <2>9, <3>2
    <3> QED
      BY <2>1, <2>10, <3>3, <3>4 DEF ReplyInv, P, k
  <2> QED
    BY <2>2, <2>3, <2>8, <2>9
<1>3. ASSUME NEW count \in ReplyCounts, ListChanges(count) PROVE ReplyInv'
  BY <1>3 DEF ListChanges, ReplyInv
<1>4. CASE UNCHANGED replyVars
  BY <1>4 DEF replyVars, ReplyInv, Payload, LastPart
<1> QED
  BY <1>1, <1>2, <1>3, <1>4 DEF ReplyNext

\* The host that has the last part of a device list has all of it and no more, and
\* none was empty, for every size of items and parts and any length of the list.
THEOREM RepliesAreWhole == ReplySpec => []ReplyIsWhole
<1>1. ReplyInv => ReplyIsWhole
  BY DEF ReplyInv, ReplyIsWhole
<1> QED
  BY <1>1, ReplyInvInit, ReplyInvStep, PTL DEF ReplySpec

(***************************************************************************)
(* The LEDs that scan.                                                     *)
(***************************************************************************)

\* The remainder of what is within one span of 0 .. m - 1.
LEMMA ModInside ==
  ASSUME NEW m \in Nat \ {0}, NEW x \in 0 .. m - 1
  PROVE  x % m = x
  BY SMT

LEMMA ModAbove ==
  ASSUME NEW m \in Nat \ {0}, NEW x \in m .. 2 * m - 1
  PROVE  x % m = x - m
  BY SMT

LEMMA ModBelow ==
  ASSUME NEW m \in Nat \ {0}, NEW x \in (-m) .. (-1)
  PROVE  x % m = x + m
  BY SMT

\* A time since l goes on with a clock that wraps.
LEMMA ElapsedGoesOn ==
  ASSUME NEW m \in Nat \ {0}, NEW c \in 0 .. m - 1, NEW l \in 0 .. m - 1, NEW t \in Nat,
         ((c - l) % m) + t < m
  PROVE  (((c + t) % m) - l) % m = ((c - l) % m) + t
<1>1. CASE c >= l
  <2>1. c - l \in 0 .. m - 1
    BY <1>1
  <2>2. (c - l) % m = c - l
    BY <2>1, ModInside
  <2>3. c - l + t < m
    BY <2>2
  <2>4. CASE c + t < m
    <3>1. c + t \in 0 .. m - 1 /\ c + t - l \in 0 .. m - 1
      BY <1>1, <2>4
    <3>2. (c + t) % m = c + t /\ (c + t - l) % m = c + t - l
      BY <3>1, ModInside
    <3> QED
      BY <2>2, <3>2
  <2>5. CASE c + t >= m
    <3>1. c + t \in m .. 2 * m - 1 /\ c + t - m - l \in (-m) .. (-1)
      BY <2>3, <2>5
    <3>2. (c + t) % m = c + t - m
      BY <3>1, ModAbove
    <3>3. (c + t - m - l) % m = c + t - m - l + m
      BY <3>1, ModBelow
    <3> QED
      BY <2>2, <3>2, <3>3
  <2> QED
    BY <2>4, <2>5
<1>2. CASE c < l
  <2>1. c - l \in (-m) .. (-1)
    BY <1>2
  <2>2. (c - l) % m = c - l + m
    BY <2>1, ModBelow
  <2>3. c + t < l
    BY <2>2
  <2>4. c + t \in 0 .. m - 1 /\ c + t - l \in (-m) .. (-1)
    BY <2>3
  <2>5. (c + t) % m = c + t
    BY <2>4, ModInside
  <2>6. (c + t - l) % m = c + t - l + m
    BY <2>4, ModBelow
  <2> QED
    BY <2>2, <2>5, <2>6
<1> QED
  BY <1>1, <1>2

\* While Scanning lights an LED the time it has been lit is that of the timer, and
\* the index is the next LED's.
ScanInv ==
  inScan =>
    /\ \E led \in Leds : lit = {led} /\ scanIndex = (led + 1) % 4
    /\ waited < ScanPeriod + gap
    /\ (clock - scanLast) % ClockSpan = waited

\* While it does not, it waits from LED 0 and time 0: since the last refresh of
\* another mode, or the timer has not reached the period since it wrapped.
NoScanInv ==
  ~inScan =>
    /\ scanIndex = 0 /\ scanLast = 0
    /\ \/ waited <= gap
       \/ /\ gap <= clock /\ clock - gap < ScanPeriod
          /\ waited <= MaxGap + clock

LedInv == LedTypeOK /\ ScanInv /\ NoScanInv

LEMMA LedNumbers ==
  /\ ScanPeriod \in Nat \ {0} /\ MaxGap \in Nat
  /\ ClockSpan \in Nat \ {0} /\ ClockSpan > ScanPeriod + MaxGap
  BY LedAssumption

LEMMA LedInvInit == LedInit => LedInv
<1> SUFFICES ASSUME LedInit PROVE LedInv
  OBVIOUS
<1>1. LedTypeOK
  <2>1. random = 0 /\ scanIndex = 0 /\ scanLast = 0 /\ lit = {} /\ gap = 0 /\ waited = 0
        /\ clock \in 0 .. ClockSpan - 1
    BY DEF LedInit
  <2>2. 0 \in 0 .. 15 /\ 0 \in Leds /\ 0 \in 0 .. ClockSpan - 1 /\ 0 \in 0 .. MaxGap /\ 0 \in Nat
    BY LedNumbers DEF Leds
  <2>3. ledMode \in LedModes /\ inScan \in BOOLEAN
    BY Zenon DEF LedInit
  <2> QED
    BY <2>1, <2>2, <2>3, Zenon DEF LedTypeOK
<1>2. ScanInv
  BY Zenon DEF LedInit, ScanInv
<1>3. NoScanInv
  BY LedNumbers DEF LedInit, NoScanInv
<1> QED
  BY <1>1, <1>2, <1>3 DEF LedInv

LEMMA TickStep ==
  ASSUME LedInv, NEW ticks \in 1 .. MaxGap, LedTick(ticks)
  PROVE  LedInv'
<1> USE DEF LedInv
<1>1. /\ gap \in Nat /\ gap + ticks <= MaxGap /\ gap' = gap + ticks /\ ticks \in Nat /\ waited \in Nat
      /\ clock \in 0 .. ClockSpan - 1 /\ scanLast \in 0 .. ClockSpan - 1
      /\ clock' = (clock + ticks) % ClockSpan /\ waited' = waited + ticks
      /\ UNCHANGED <<ledMode, random, scanIndex, scanLast, lit, inScan>>
  BY LedNumbers DEF LedTick, LedTypeOK
<1>2. LedTypeOK'
  <2>1. clock' \in 0 .. ClockSpan - 1 /\ gap' \in 0 .. MaxGap /\ waited' \in Nat
    BY <1>1, LedNumbers
  <2> QED
    BY <1>1, <2>1 DEF LedTypeOK
<1>3. ScanInv'
  <2> SUFFICES ASSUME inScan
               PROVE  /\ \E led \in Leds : lit = {led} /\ scanIndex = (led + 1) % 4
                      /\ waited' < ScanPeriod + gap'
                      /\ (clock' - scanLast) % ClockSpan = waited'
    BY <1>1 DEF ScanInv
  <2>1. /\ \E led \in Leds : lit = {led} /\ scanIndex = (led + 1) % 4
        /\ waited < ScanPeriod + gap
        /\ (clock - scanLast) % ClockSpan = waited
    BY DEF ScanInv
  <2>2. waited' < ScanPeriod + gap' /\ waited + ticks < ClockSpan
    BY <1>1, <2>1, LedNumbers
  <2>3. (clock' - scanLast) % ClockSpan = waited'
    BY <1>1, <2>1, <2>2, LedNumbers, ElapsedGoesOn
  <2> QED
    BY <2>1, <2>2, <2>3
<1>4. NoScanInv'
  <2> SUFFICES ASSUME ~inScan
               PROVE  /\ scanIndex = 0 /\ scanLast = 0
                      /\ \/ waited' <= gap'
                         \/ /\ gap' <= clock' /\ clock' - gap' < ScanPeriod
                            /\ waited' <= MaxGap + clock'
    BY <1>1 DEF NoScanInv
  <2>1. scanIndex = 0 /\ scanLast = 0
    BY DEF NoScanInv
  <2>2. CASE waited <= gap
    BY <1>1, <2>1, <2>2
  <2>3. CASE gap <= clock /\ clock - gap < ScanPeriod /\ waited <= MaxGap + clock
    <3>1. clock + ticks \in 0 .. ClockSpan - 1
      BY <1>1, <2>3, LedNumbers
    <3>2. clock' = clock + ticks
      BY <1>1, <3>1, LedNumbers, ModInside
    <3> QED
      BY <1>1, <2>1, <2>3, <3>2, LedNumbers
  <2> QED
    BY <2>2, <2>3 DEF NoScanInv
<1> QED
  BY <1>2, <1>3, <1>4

\* A refresh in another mode than Scanning.
LEMMA OtherModeStep ==
  ASSUME LedInv, NEW layer \in Layers, Refresh(layer), ledMode # "Scanning"
  PROVE  LedInv'
<1> USE DEF LedInv
<1>1. /\ scanIndex' = 0 /\ scanLast' = 0 /\ waited' = 0 /\ gap' = 0 /\ ~inScan'
      /\ UNCHANGED <<ledMode, random, clock>>
  BY Zenon DEF Refresh, IndexFrom
<1>2. lit' \subseteq Leds
  BY DEF Refresh, LedsOf, LedTypeOK, LedModes, IndexFrom
<1>3. inScan' \in BOOLEAN
  BY <1>1, Zenon DEF Refresh
<1>4. LedTypeOK'
  BY <1>1, <1>2, <1>3, LedNumbers DEF LedTypeOK, Leds
<1>5. ScanInv' /\ NoScanInv'
  BY <1>1 DEF ScanInv, NoScanInv
<1> QED
  BY <1>4, <1>5

\* A refresh in the mode Scanning that lights the next LED.
LEMMA LightStep ==
  ASSUME LedInv, NEW layer \in Layers, Refresh(layer), ledMode = "Scanning", Due(scanLast)
  PROVE  /\ LedInv' /\ inScan' /\ lit' = {scanIndex}
<1> USE DEF LedInv
<1>1. /\ lit' = {scanIndex} /\ scanIndex' = (scanIndex + 1) % 4 /\ scanLast' = clock
      /\ waited' = 0 /\ gap' = 0 /\ inScan' = TRUE /\ UNCHANGED <<ledMode, random, clock>>
  BY DEF Refresh, IndexFrom, After
<1>2. scanIndex \in 0 .. 3 /\ scanIndex' \in 0 .. 3 /\ clock \in 0 .. ClockSpan - 1
  BY <1>1 DEF LedTypeOK, Leds
<1>3. LedTypeOK'
  BY <1>1, <1>2, LedNumbers DEF LedTypeOK, Leds
<1>4. (clock' - scanLast') % ClockSpan = 0
  <2>1. clock - clock = 0 /\ 0 \in 0 .. ClockSpan - 1
    BY <1>2, LedNumbers
  <2> QED
    BY <1>1, <2>1, LedNumbers, ModInside
<1>5. ScanInv'
  BY <1>1, <1>2, <1>4, LedNumbers DEF ScanInv, Leds
<1>6. NoScanInv'
  BY <1>1 DEF NoScanInv
<1> QED
  BY <1>1, <1>3, <1>5, <1>6

\* A refresh in the mode Scanning before the time is over.
LEMMA WaitStep ==
  ASSUME LedInv, NEW layer \in Layers, Refresh(layer), ledMode = "Scanning", ~Due(scanLast)
  PROVE  LedInv' /\ lit' = lit
<1> USE DEF LedInv
<1>1. /\ gap' = 0 /\ UNCHANGED <<ledMode, random, clock, lit, scanIndex, scanLast, waited>>
  BY DEF Refresh, IndexFrom
<1>2. inScan' = inScan
  BY Zenon DEF Refresh, LedTypeOK
<1>3. LedTypeOK'
  BY <1>1, <1>2, LedNumbers DEF LedTypeOK
<1>4. (clock - scanLast) % ClockSpan < ScanPeriod
  <2>1. (clock - scanLast) % ClockSpan \in Int
    BY LedNumbers DEF LedTypeOK
  <2> QED
    BY <2>1, LedNumbers DEF Due
<1>5. ScanInv'
  BY <1>1, <1>2, <1>4, LedNumbers DEF ScanInv
<1>6. NoScanInv'
  <2> SUFFICES ASSUME ~inScan
               PROVE  /\ scanIndex = 0 /\ scanLast = 0
                      /\ 0 <= clock /\ clock - 0 < ScanPeriod /\ waited <= MaxGap + clock
    BY <1>1, <1>2 DEF NoScanInv
  <2>1. /\ scanIndex = 0 /\ scanLast = 0
        /\ waited <= gap \/ waited <= MaxGap + clock
        /\ clock \in 0 .. ClockSpan - 1 /\ gap \in 0 .. MaxGap /\ waited \in Nat
    BY DEF NoScanInv, LedTypeOK
  <2>2. clock < ScanPeriod
    <3>1. clock - 0 = clock /\ clock \in Int
      BY <2>1
    <3>2. (clock - scanLast) % ClockSpan = clock
      BY <2>1, <3>1, LedNumbers, ModInside
    <3> QED
      BY <1>4, <3>2
  <2> QED
    BY <2>1, <2>2, LedNumbers
<1> QED
  BY <1>1, <1>3, <1>5, <1>6

LEMMA LedInvStep == LedInv /\ [LedNext]_ledVars => LedInv'
<1> SUFFICES ASSUME LedInv, [LedNext]_ledVars PROVE LedInv'
  OBVIOUS
<1>1. ASSUME NEW mode \in LedModes, SetLedMode(mode) PROVE LedInv'
  BY <1>1 DEF SetLedMode, LedInv, LedTypeOK, ScanInv, NoScanInv
<1>2. ASSUME NEW value \in Randoms, OnTyping(value) PROVE LedInv'
  <2>1. value \in 0 .. 15
    BY LedAssumption
  <2> QED
    BY <1>2, <2>1 DEF OnTyping, LedInv, LedTypeOK, ScanInv, NoScanInv
<1>3. ASSUME NEW layer \in Layers, Refresh(layer) PROVE LedInv'
  BY <1>3, OtherModeStep, LightStep, WaitStep
<1>4. ASSUME NEW ticks \in 1 .. MaxGap, LedTick(ticks) PROVE LedInv'
  BY <1>4, TickStep
<1>5. CASE UNCHANGED ledVars
  BY <1>5 DEF ledVars, LedInv, LedTypeOK, ScanInv, NoScanInv
<1> QED
  BY <1>1, <1>2, <1>3, <1>4, <1>5 DEF LedNext

LEMMA LedAlways == LedSpec => []LedInv
  BY LedInvInit, LedInvStep, PTL DEF LedSpec

\* Only LEDs there are light up, whatever layer and random value is shown.
THEOREM LedTypes == LedSpec => []LedTypeOK
  BY LedAlways, PTL DEF LedInv

\* pendant_led_refresh scans steadily: one LED at a time, each the successor of
\* the last, neither too early nor later than two rounds of the superloop, for any
\* period and any span of a timer that wraps.
THEOREM ScanSteady == LedSpec => ScanIsSteady
<1>1. LedInv => ScanKeepsTime /\ OneLedLit
  <2> SUFFICES ASSUME LedInv PROVE ScanKeepsTime /\ OneLedLit
    OBVIOUS
  <2>0. gap \in 0 .. MaxGap /\ waited \in Nat /\ clock \in Nat
    BY LedNumbers DEF LedInv, LedTypeOK
  <2>1. waited <= ScanPeriod + 2 * MaxGap
    <3>1. CASE inScan
      BY <2>0, <3>1, LedNumbers DEF LedInv, ScanInv
    <3>2. CASE ~inScan
      BY <2>0, <3>2, LedNumbers DEF LedInv, NoScanInv
    <3> QED
      BY <3>1, <3>2
  <2> QED
    BY <2>1 DEF LedInv, ScanInv, ScanKeepsTime, OneLedLit
<1>2. ASSUME LedInv, [LedNext]_ledVars, ledMode = "Scanning", lit' # lit
      PROVE  IF inScan THEN waited >= ScanPeriod /\ \E led \in Leds : lit = {led} /\ lit' = {(led + 1) % 4}
             ELSE lit' = {0}
  <2>1. PICK layer \in Layers : Refresh(layer)
    BY <1>2 DEF LedNext, SetLedMode, OnTyping, LedTick, ledVars
  <2>2. Due(scanLast) /\ lit' = {scanIndex}
    BY <1>2, <2>1, LightStep, WaitStep
  <2>3. CASE inScan
    <3>1. PICK led \in Leds : lit = {led} /\ scanIndex = (led + 1) % 4
      BY <1>2, <2>3 DEF LedInv, ScanInv
    <3>2. waited >= ScanPeriod
      BY <1>2, <2>2, <2>3 DEF LedInv, ScanInv, Due
    <3> QED
      BY <2>2, <2>3, <3>1, <3>2
  <2>4. CASE ~inScan
    BY <1>2, <2>2, <2>4 DEF LedInv, NoScanInv
  <2> QED
    BY <2>3, <2>4
<1>3. LedInv /\ [LedNext]_ledVars =>
        [ledMode = "Scanning" /\ lit' # lit =>
           IF inScan THEN waited >= ScanPeriod /\ \E led \in Leds : lit = {led} /\ lit' = {(led + 1) % 4}
           ELSE lit' = {0}]_ledVars
  BY <1>2, Zenon
<1> QED
  BY <1>1, <1>3, LedAlways, PTL DEF LedSpec, ScanIsSteady, ScanGoesRound

(***************************************************************************)
(* The pages of the display.                                               *)
(***************************************************************************)

\* What a page may have written on a line.
WrittenBy(k) ==
  CASE page = "Info"        -> IF k \in 0 .. 6 THEN {"info"} ELSE {}
    [] page = "U1Walking"   -> {"logo"}
    [] page = "SelectedKey" -> IF k \in {0, 1, 2, 4, 5, 7} THEN {"key"} ELSE {}
    [] OTHER -> (IF k \in {0, 2, 4, 6, 7} THEN {"no input"} ELSE {})
                \cup (IF lastInput = "some" /\ k \in {0, 2, 4, 6} THEN {"input"} ELSE {})

\* The buffer has nothing of another page, drawn or not.
OwnLines ==
  /\ page \in Pages /\ lastInput \in {"none", "some"}
  /\ buffer = [k \in Lines |-> buffer[k]]
  /\ \A k \in Lines : buffer[k] \in {"blank"} \cup WrittenBy(k)

GaugeDrawn == target \in Targets /\ (gauge = NoGauge \/ gauge = GaugeOf)

PagesInv == OwnLines /\ GaugeDrawn /\ NothingIsLeftOver /\ OnlyLogoScrolls

LEMMA PagesAre == Pages = {"Info", "U1Walking", "SelectedKey", "InputDevice"}
<1>1. \A k \in 1 .. 4 : k = 1 \/ k = 2 \/ k = 3 \/ k = 4
  OBVIOUS
<1>2. 1 \in 1 .. 4 /\ 2 \in 1 .. 4 /\ 3 \in 1 .. 4 /\ 4 \in 1 .. 4
  OBVIOUS
<1> QED
  BY <1>1, <1>2 DEF Pages, PageNames

LEMMA PagesInvInit == PagesInit => PagesInv
<1> SUFFICES ASSUME PagesInit PROVE PagesInv
  OBVIOUS
<1>1. OwnLines
  BY PagesAre DEF PagesInit, OwnLines, Blank
<1>2. GaugeDrawn
  BY DEF PagesInit, GaugeDrawn
<1>3. NothingIsLeftOver /\ OnlyLogoScrolls
  BY DEF PagesInit, NothingIsLeftOver, OnlyLogoScrolls
<1> QED
  BY <1>1, <1>2, <1>3 DEF PagesInv

LEMMA GaugeStays ==
  ASSUME GaugeDrawn, UNCHANGED <<target, gauge>>
  PROVE  GaugeDrawn'
  BY DEF GaugeDrawn, GaugeOf, Reading

LEMMA SetPageStep ==
  ASSUME PagesInv, NEW new \in Pages, SetPage(new)
  PROVE  PagesInv'
<1> USE DEF PagesInv
<1>1. /\ page' = new /\ UNCHANGED <<target, lastInput, glass, gauge>>
      /\ buffer' = IF new # page THEN Blank ELSE buffer
  BY DEF SetPage, Cleared
<1>2. drawn' => drawn /\ new = page
  BY Zenon DEF SetPage
<1>3. PICK sent \in BOOLEAN : /\ scrolls' = ScrollsWith(new, sent)
                             /\ offFailed' = IF scrolls /\ new # page THEN ~sent ELSE offFailed
  BY Zenon DEF SetPage
<1>4. scrolls' => scrolls /\ (new = page \/ ~sent)
  BY <1>3, Zenon DEF ScrollsWith
<1>5. OnlyLogoScrolls'
  <2> SUFFICES ASSUME scrolls' PROVE glass = [k \in Lines |-> "logo"] /\ (new = "U1Walking" \/ offFailed')
    BY <1>1 DEF OnlyLogoScrolls
  <2>1. scrolls /\ (new = page \/ ~sent)
    BY <1>4
  <2>2. new = page => (offFailed' <=> offFailed)
    BY <1>3, Zenon
  <2>3. new # page => offFailed'
    BY <1>3, <2>1, Zenon
  <2> QED
    BY <2>1, <2>2, <2>3 DEF OnlyLogoScrolls
<1>6. CASE new = page
  <2>1. OwnLines'
    BY <1>1, <1>6 DEF OwnLines, WrittenBy
  <2>2. NothingIsLeftOver'
    BY <1>1, <1>2, <1>6 DEF NothingIsLeftOver, PageText
  <2> QED
    BY <1>1, <1>5, <2>1, <2>2, GaugeStays
<1>7. CASE new # page
  <2>1. OwnLines'
    BY <1>1, <1>7 DEF OwnLines, Blank
  <2>2. NothingIsLeftOver'
    BY <1>2, <1>7 DEF NothingIsLeftOver
  <2> QED
    BY <1>1, <1>5, <2>1, <2>2, GaugeStays
<1> QED
  BY <1>6, <1>7

LEMMA RecordStep ==
  ASSUME PagesInv, RecordInput
  PROVE  PagesInv'
<1> USE DEF PagesInv
<1>1. lastInput' = "some" /\ UNCHANGED <<target, page, buffer, glass, scrolls, gauge, offFailed>>
  BY DEF RecordInput
<1>2. drawn' => drawn /\ lastInput = "some"
  BY Zenon DEF RecordInput
<1>3. OwnLines'
  BY <1>1 DEF OwnLines, WrittenBy
<1>4. NothingIsLeftOver' /\ OnlyLogoScrolls'
  BY <1>1, <1>2 DEF NothingIsLeftOver, OnlyLogoScrolls, PageText
<1> QED
  BY <1>1, <1>3, <1>4, GaugeStays

\* What a page writes where, and what it leaves alone.
LEMMA TextOf ==
  ASSUME OwnLines, NEW k \in Lines
  PROVE  /\ k \in DOMAIN PageText => PageText[k] \in WrittenBy(k)
         /\ k \notin DOMAIN PageText =>
              \/ WrittenBy(k) = {}
              \/ page = "InputDevice" /\ lastInput = "some" /\ k = 7 /\ WrittenBy(k) = {"no input"}
<1>1. k \in 0 .. 7 /\ (k = 7 \/ k \in 0 .. 6)
  BY DEF Lines
<1>2. CASE page = "Info"
  BY <1>1, <1>2 DEF PageText, WrittenBy
<1>3. CASE page = "U1Walking"
  BY <1>1, <1>3 DEF PageText, WrittenBy, Lines
<1>4. CASE page = "SelectedKey"
  BY <1>1, <1>4 DEF PageText, WrittenBy
<1>5. CASE page = "InputDevice" /\ lastInput = "none"
  BY <1>1, <1>5 DEF PageText, WrittenBy
<1>6. CASE page = "InputDevice" /\ lastInput = "some"
  BY <1>1, <1>6 DEF PageText, WrittenBy
<1> QED
  BY <1>2, <1>3, <1>4, <1>5, <1>6, PagesAre DEF OwnLines

LEMMA DrawStep ==
  ASSUME PagesInv, Draw
  PROVE  PagesInv'
<1> USE DEF PagesInv
<1>1. /\ buffer' = [k \in Lines |-> IF k \in DOMAIN PageText THEN PageText[k] ELSE buffer[k]]
      /\ gauge' = (IF page = "SelectedKey" THEN GaugeOf ELSE gauge)
      /\ UNCHANGED <<target, page, lastInput, glass, offFailed>>
  BY DEF Draw, Over
<1>2. scrolls' => scrolls \/ (page = "U1Walking" /\ buffer' = glass)
  BY Zenon DEF Draw
<1>3. OwnLines'
  <2>1. \A k \in Lines : buffer'[k] \in {"blank"} \cup WrittenBy(k)
    BY <1>1, TextOf DEF OwnLines
  <2>2. \A k \in Lines : WrittenBy(k)' = WrittenBy(k)
    BY <1>1 DEF WrittenBy
  <2>3. buffer' = [k \in Lines |-> buffer'[k]]
    BY <1>1
  <2> QED
    BY <1>1, <2>1, <2>2, <2>3 DEF OwnLines
<1>4. GaugeDrawn'
  BY <1>1 DEF GaugeDrawn, GaugeOf, Reading
<1>5. NothingIsLeftOver'
  <2> SUFFICES ASSUME NEW k \in Lines
               PROVE  \/ buffer'[k] = Over(PageText, Blank)[k]
                      \/ page = "InputDevice" /\ lastInput = "some" /\ k = 7 /\ buffer'[k] = "no input"
    BY <1>1 DEF NothingIsLeftOver, PageText
  <2>1. Over(PageText, Blank)[k] = IF k \in DOMAIN PageText THEN PageText[k] ELSE "blank"
    BY DEF Over, Blank
  <2>2. CASE k \in DOMAIN PageText
    BY <1>1, <2>1, <2>2
  <2>3. CASE k \notin DOMAIN PageText
    <3>1. buffer'[k] = buffer[k] /\ buffer[k] \in {"blank"} \cup WrittenBy(k)
      BY <1>1, <2>3 DEF OwnLines
    <3> QED
      BY <2>1, <2>3, <3>1, TextOf
  <2> QED
    BY <2>2, <2>3
<1>6. OnlyLogoScrolls'
  <2> SUFFICES ASSUME page = "U1Walking", buffer' = glass PROVE glass = [k \in Lines |-> "logo"]
    BY <1>1, <1>2 DEF OnlyLogoScrolls
  <2>1. PageText = [k \in Lines |-> "logo"]
    BY DEF PageText
  <2> QED
    BY <1>1, <2>1
<1> QED
  BY <1>3, <1>4, <1>5, <1>6

LEMMA RenderStep ==
  ASSUME PagesInv, Render
  PROVE  PagesInv'
<1> USE DEF PagesInv
<1>1. ~scrolls /\ UNCHANGED <<target, page, lastInput, buffer, scrolls, gauge, drawn, offFailed>>
  BY DEF Render
<1>2. OwnLines'
  BY <1>1 DEF OwnLines, WrittenBy
<1>3. NothingIsLeftOver' /\ OnlyLogoScrolls'
  BY <1>1 DEF NothingIsLeftOver, OnlyLogoScrolls, PageText
<1> QED
  BY <1>1, <1>2, <1>3, GaugeStays

LEMMA PagesInvStep == PagesInv /\ [PagesNext]_pageVars => PagesInv'
<1> SUFFICES ASSUME PagesInv, [PagesNext]_pageVars PROVE PagesInv'
  OBVIOUS
<1>1. CASE PageKey
  <2>1. PICK k \in 1 .. 4 : SetPage(PageNames[(k % 4) + 1])
    BY <1>1 DEF PageKey
  <2>2. (k % 4) + 1 \in 1 .. 4
    OBVIOUS
  <2>3. PageNames[(k % 4) + 1] \in Pages
    BY <2>2 DEF Pages
  <2> QED
    BY <2>1, <2>3, SetPageStep
<1>2. CASE HostPage
  BY <1>2, SetPageStep DEF HostPage
<1>3. CASE RecordInput
  BY <1>3, RecordStep
<1>4. CASE Draw
  BY <1>4, DrawStep
<1>5. CASE Render
  BY <1>5, RenderStep
<1>6. CASE UNCHANGED pageVars
  <2>1. UNCHANGED <<target, page, lastInput, buffer, glass, scrolls, gauge, drawn, offFailed>>
    BY <1>6 DEF pageVars
  <2>2. OwnLines' /\ NothingIsLeftOver' /\ OnlyLogoScrolls'
    BY <2>1 DEF PagesInv, OwnLines, WrittenBy, NothingIsLeftOver, OnlyLogoScrolls, PageText
  <2> QED
    BY <2>1, <2>2, GaugeStays DEF PagesInv
<1> QED
  BY <1>1, <1>2, <1>3, <1>4, <1>5, <1>6 DEF PagesNext

LEMMA PagesAlways == PagesSpec => []PagesInv
  BY PagesInvInit, PagesInvStep, PTL DEF PagesSpec

\* Named, for a prover that need not look into them.
Readings == 0 .. 4095
Tops     == {3, 15, 255, 4095}

Scales == {<<3, 1024>>, <<15, 256>>, <<255, 16>>, <<4095, 1>>}

\* The scales of the four resolutions: the top of a reading and what divides a point.
LEMMA ScaleOf ==
  ASSUME NEW bytes \in {1, 2, 4, 6}
  PROVE  <<TopOf(BitsOf(bytes)), 2 ^ (12 - BitsOf(bytes))>> \in Scales
<1>1. BitsOf(1) = 2 /\ BitsOf(2) = 4 /\ BitsOf(4) = 8 /\ BitsOf(6) = 12
  BY DEF BitsOf
<1>2. TopOf(2) = 3 /\ TopOf(4) = 15 /\ TopOf(8) = 255 /\ TopOf(12) = 4095
  BY DEF TopOf
<1>3. 2 ^ (12 - 2) = 1024 /\ 2 ^ (12 - 4) = 256 /\ 2 ^ (12 - 8) = 16 /\ 2 ^ (12 - 12) = 1
  OBVIOUS
<1>4. <<TopOf(2), 2 ^ (12 - 2)>> \in Scales /\ <<TopOf(4), 2 ^ (12 - 4)>> \in Scales
      /\ <<TopOf(8), 2 ^ (12 - 8)>> \in Scales /\ <<TopOf(12), 2 ^ (12 - 12)>> \in Scales
  <2> HIDE DEF TopOf
  <2> QED
    BY <1>2, <1>3 DEF Scales
<1>5. bytes = 1 \/ bytes = 2 \/ bytes = 4 \/ bytes = 6
  OBVIOUS
<1> QED
  BY <1>1, <1>4, <1>5, Zenon

\* A bar and its marks, of readings and points up to the top.
LEMMA BarOrder ==
  ASSUME NEW top \in Tops, NEW v \in 0 .. top, NEW w \in 0 .. top
  PROVE  /\ (v * 15) \div top \in 0 .. 15
         /\ ((v * 15) \div top = 15 <=> v = top)
         /\ v <= w => (v * 15) \div top <= (w * 15) \div top
<1> USE DEF Tops
<1>1. CASE top = 3
  BY <1>1
<1>2. CASE top = 15
  BY <1>2
<1>3. CASE top = 255
  BY <1>3
<1>4. CASE top = 4095
  BY <1>4
<1> QED
  BY <1>1, <1>2, <1>3, <1>4

\* A point at the scale of the reading.
LEMMA PointOrder ==
  ASSUME NEW top, NEW scale, <<top, scale>> \in Scales, NEW a \in Readings, NEW r \in Readings
  PROVE  /\ top \in Tops
         /\ a \div scale \in 0 .. top /\ (a >= r => a \div scale >= r \div scale)
<1> USE DEF Readings, Tops
<1>0. \/ top = 3 /\ scale = 1024
      \/ top = 15 /\ scale = 256
      \/ top = 255 /\ scale = 16
      \/ top = 4095 /\ scale = 1
  BY DEF Scales
<1>1. CASE top = 3 /\ scale = 1024
  BY <1>1
<1>2. CASE top = 15 /\ scale = 256
  BY <1>2
<1>3. CASE top = 255 /\ scale = 16
  BY <1>3
<1>4. CASE top = 4095 /\ scale = 1
  BY <1>4
<1> QED
  BY <1>0, <1>1, <1>2, <1>3, <1>4

\* The bar and the marks that a reading, cut to the top, and two points give.
LEMMA BarAndMarks ==
  ASSUME NEW top \in Tops, NEW v \in 0 .. top, NEW ap \in 0 .. top,
         NEW rp \in 0 .. top
  PROVE  LET filled == (v * BarWidth) \div top
         IN  /\ v >= ap => filled >= Mark(ap, top)
             /\ filled > Mark(ap, top) /\ Mark(ap, top) < BarWidth - 1 => v > ap
             /\ ap >= rp => Mark(ap, top) >= Mark(rp, top)
             /\ filled \in 0 .. BarWidth /\ (filled = BarWidth <=> v = top)
<1> DEFINE At(w) == (w * 15) \div top
<1>1. \A w \in 0 .. top : At(w) \in 0 .. 15 /\ (At(w) = 15 <=> w = top)
  BY BarOrder, Zenon
<1>2. \A w \in 0 .. top : \A x \in 0 .. top : w <= x => At(w) <= At(x)
  BY BarOrder, Zenon
<1>3. \A w \in 0 .. top : Mark(w, top) = IF At(w) >= 15 THEN 14 ELSE At(w)
  BY DEF Mark, BarWidth
<1>4. v \in Int /\ ap \in Int /\ rp \in Int
  BY DEF Tops
<1> HIDE DEF At
<1>5. /\ v >= ap => At(v) >= Mark(ap, top)
      /\ At(v) > Mark(ap, top) /\ Mark(ap, top) < 14 => v > ap
      /\ ap >= rp => Mark(ap, top) >= Mark(rp, top)
      /\ At(v) \in 0 .. 15 /\ (At(v) = 15 <=> v = top)
  <2>1. At(v) \in 0 .. 15 /\ At(ap) \in 0 .. 15 /\ At(rp) \in 0 .. 15 /\ (At(v) = 15 <=> v = top)
    BY <1>1
  <2>2. /\ v >= ap => At(v) >= At(ap)
        /\ v <= ap => At(v) <= At(ap)
        /\ ap >= rp => At(ap) >= At(rp)
    BY <1>2, <1>4
  <2>3. /\ Mark(ap, top) = IF At(ap) >= 15 THEN 14 ELSE At(ap)
        /\ Mark(rp, top) = IF At(rp) >= 15 THEN 14 ELSE At(rp)
    BY <1>3
  <2> QED
    BY <1>4, <2>1, <2>2, <2>3
<1> QED
  BY <1>5 DEF At, BarWidth

LEMMA GaugeShowsKey == GaugeDrawn => GaugeIsRight
<1> SUFFICES ASSUME target \in Targets, gauge = GaugeOf PROVE GaugeIsRight
  BY DEF GaugeDrawn, GaugeIsRight
<1> DEFINE bits  == BitsOf(target.bytes)
           top   == TopOf(bits)
           scale == 2 ^ (12 - bits)
           ap    == target.actuation \div scale
           rp    == target.reset \div scale
<1>1. /\ target.reading \in GaugeValues /\ target.actuation \in GaugeValues
      /\ target.reset \in GaugeValues /\ target.bytes \in {1, 2, 4, 6}
  BY DEF Targets
<1>2. /\ target.reading \in Readings /\ target.actuation \in Readings
      /\ target.reset \in Readings
  <2>1. \A x \in GaugeValues : x \in Readings
    BY GaugeAssumption DEF Readings
  <2> QED
    BY <1>1, <2>1, Zenon
<1>3. <<top, scale>> \in Scales
  BY <1>1, ScaleOf
<1>4. /\ gauge.filled = (Reading * BarWidth) \div top
      /\ gauge.ap = Mark(ap, top) /\ gauge.rp = Mark(rp, top)
  BY DEF GaugeOf, Scaled
<1>5. Reading = IF target.reading > top THEN top ELSE target.reading
  BY DEF Reading
<1> HIDE DEF bits, top, scale
<1>6. /\ top \in Tops /\ ap \in 0 .. top /\ rp \in 0 .. top
      /\ target.actuation >= target.reset => ap >= rp
  BY <1>2, <1>3, PointOrder, Zenon
<1>7. Reading \in 0 .. top
  <2>1. \A x \in Readings : (IF x > top THEN top ELSE x) \in 0 .. top
    BY <1>6 DEF Tops, Readings
  <2> QED
    BY <1>2, <1>5, <2>1, Zenon
<1> HIDE DEF ap, rp
<1>8. LET filled == (Reading * BarWidth) \div top
      IN  /\ Reading >= ap => filled >= Mark(ap, top)
          /\ filled > Mark(ap, top) /\ Mark(ap, top) < BarWidth - 1 => Reading > ap
          /\ ap >= rp => Mark(ap, top) >= Mark(rp, top)
          /\ filled \in 0 .. BarWidth /\ (filled = BarWidth <=> Reading = top)
  BY <1>6, <1>7, BarAndMarks, Zenon
<1>9. /\ Reading >= ap => gauge.filled >= gauge.ap
      /\ gauge.filled > gauge.ap /\ gauge.ap < BarWidth - 1 => Reading > ap
      /\ ap >= rp => gauge.ap >= gauge.rp
      /\ gauge.filled \in 0 .. BarWidth /\ (gauge.filled = BarWidth <=> Reading = top)
  BY <1>4, <1>8, Zenon
<1>10. target.actuation >= target.reset => gauge.ap >= gauge.rp
  BY <1>6, <1>9
<1> QED
  BY <1>9, <1>10, Zenon DEF GaugeIsRight, ap, scale, bits, top

\* oled_task_kb shows what the page means to show.
THEOREM PagesAreRight == PagesSpec => []PageIsRight
<1>1. PagesInv => PageIsRight
  BY GaugeShowsKey DEF PagesInv, PageIsRight
<1> QED
  BY <1>1, PagesAlways, PTL

(***************************************************************************)
(* The whole.                                                              *)
(***************************************************************************)

\* Each component starts as it does alone.
LEMMA PartsStart ==
  PartsInit => /\ TrackballInit /\ EncoderInit /\ DragInit /\ HostInit
               /\ UsersInit /\ ReplyInit /\ LedInit /\ PagesInit
  BY Zenon DEF PartsInit

\* A step of the whole is one of each component, or leaves it as it was.
LEMMA PartsSteps ==
  [PartsNext]_partsVars =>
    /\ [TrackballNext]_tbVars /\ [EncoderNext]_encVars /\ [DragNext]_dragVars /\ [HostNext]_hostVars
    /\ [UsersNext]_<<vars, userVars>> /\ [ReplyNext]_replyVars /\ [LedNext]_ledVars /\ [PagesNext]_pageVars
<1>1. CASE UNCHANGED partsVars
  <2>1. /\ UNCHANGED tbVars /\ UNCHANGED encVars /\ UNCHANGED dragVars /\ UNCHANGED hostVars
        /\ UNCHANGED <<vars, userVars>> /\ UNCHANGED replyVars /\ UNCHANGED ledVars /\ UNCHANGED pageVars
    BY <1>1 DEF partsVars
  <2> QED
    BY <2>1
<1>2. CASE PartsNext
  <2>1. others(part)
    BY <1>2, Zenon DEF PartsNext
  <2>2. [TrackballNext]_tbVars
    <3>1. CASE part = "trackball"
      <4>1. TrackballNext
        BY <1>2, <3>1 DEF PartsNext
      <4> QED
        BY <4>1
    <3>2. CASE part # "trackball"
      <4>1. UNCHANGED tbVars
        BY <2>1, <3>2, Zenon DEF others
      <4> QED
        BY <4>1
    <3> QED
      BY <3>1, <3>2
  <2>3. [EncoderNext]_encVars
    <3>1. CASE part = "encoder"
      <4>1. EncoderNext
        BY <1>2, <3>1 DEF PartsNext
      <4> QED
        BY <4>1
    <3>2. CASE part # "encoder"
      <4>1. UNCHANGED encVars
        BY <2>1, <3>2, Zenon DEF others
      <4> QED
        BY <4>1
    <3> QED
      BY <3>1, <3>2
  <2>4. [DragNext]_dragVars
    <3>1. CASE part = "drag"
      <4>1. DragNext
        BY <1>2, <3>1 DEF PartsNext
      <4> QED
        BY <4>1
    <3>2. CASE part # "drag"
      <4>1. UNCHANGED dragVars
        BY <2>1, <3>2, Zenon DEF others
      <4> QED
        BY <4>1
    <3> QED
      BY <3>1, <3>2
  <2>5. [HostNext]_hostVars
    <3>1. CASE part = "host"
      <4>1. HostNext
        BY <1>2, <3>1 DEF PartsNext
      <4> QED
        BY <4>1
    <3>2. CASE part # "host"
      <4>1. UNCHANGED hostVars
        BY <2>1, <3>2, Zenon DEF others
      <4> QED
        BY <4>1
    <3> QED
      BY <3>1, <3>2
  <2>6. [UsersNext]_<<vars, userVars>>
    <3>1. CASE part = "users"
      <4>1. UsersNext
        BY <1>2, <3>1 DEF PartsNext
      <4> QED
        BY <4>1
    <3>2. CASE part # "users"
      <4>1. UNCHANGED <<vars, userVars>>
        BY <2>1, <3>2, Zenon DEF others
      <4> QED
        BY <4>1
    <3> QED
      BY <3>1, <3>2
  <2>7. [ReplyNext]_replyVars
    <3>1. CASE part = "reply"
      <4>1. ReplyNext
        BY <1>2, <3>1 DEF PartsNext
      <4> QED
        BY <4>1
    <3>2. CASE part # "reply"
      <4>1. UNCHANGED replyVars
        BY <2>1, <3>2, Zenon DEF others
      <4> QED
        BY <4>1
    <3> QED
      BY <3>1, <3>2
  <2>8. [LedNext]_ledVars
    <3>1. CASE part = "led"
      <4>1. LedNext
        BY <1>2, <3>1 DEF PartsNext
      <4> QED
        BY <4>1
    <3>2. CASE part # "led"
      <4>1. UNCHANGED ledVars
        BY <2>1, <3>2, Zenon DEF others
      <4> QED
        BY <4>1
    <3> QED
      BY <3>1, <3>2
  <2>9. [PagesNext]_pageVars
    <3>1. CASE part = "pages"
      <4>1. PagesNext
        BY <1>2, <3>1 DEF PartsNext
      <4> QED
        BY <4>1
    <3>2. CASE part # "pages"
      <4>1. UNCHANGED pageVars
        BY <2>1, <3>2, Zenon DEF others
      <4> QED
        BY <4>1
    <3> QED
      BY <3>1, <3>2
  <2> QED
    BY <2>2, <2>3, <2>4, <2>5, <2>6, <2>7, <2>8, <2>9
<1> QED
  BY <1>1, <1>2

\* The components of the firmware that share no variable: in a behaviour of the
\* whole each does what its own specification allows, so that what has been proved
\* of it alone holds there, from whatever state the others are in.
THEOREM PartsAreAlone ==
  PartsSpec => /\ TrackballSpec /\ EncoderSpec /\ DragSpec /\ HostSpec
               /\ UsersSpec /\ ReplySpec /\ LedSpec /\ PagesSpec
  BY PartsStart, PartsSteps, PTL DEF PartsSpec, TrackballSpec, EncoderSpec, DragSpec, HostSpec,
     UsersSpec, ReplySpec, LedSpec, PagesSpec

\* The types of all components hold in the whole, with the bounds they state: what
\* the drivers, the decoder, the host's handler, the display and the LEDs store in
\* their fields stays within what their users bear.
THEOREM PartsTypes == PartsSpec => []PartsTypeOK
<1>1. /\ TrackballTypeOK /\ EncoderTypeOK /\ DragTypeOK /\ HostTypeOK /\ UsersTypeOK /\ LedTypeOK
        => PartsTypeOK
  BY Zenon DEF PartsTypeOK
<1> QED
  BY <1>1, PartsAreAlone, TrackballTypes, EncoderTypes, DragTypes, HostTypes, UsersTypes, LedTypes, PTL
================================================================================
