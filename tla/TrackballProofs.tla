---------------------------- MODULE TrackballProofs ----------------------------
(***************************************************************************)
(* For every number of slots, every pairing and every setting: sensors in  *)
(* use agree about their pins and work as configured, a lost sensor is     *)
(* left alone, the stray power-down comes once, and the idle timer runs    *)
(* out exactly when its driver's sensors have all been still.              *)
(*                                                                         *)
(* For any number of balls and any motion: up to the default speed the     *)
(* accumulator all balls share neither loses motion nor turns the wheel    *)
(* against the ball that is read.                                          *)
(***************************************************************************)
EXTENDS Trackball, DragScroll, TLAPS

\* Before the probe nothing is known and nothing was sent.
Untouched ==
  tbStage = "reset" =>
    /\ \A s \in TbSlots : sensor[s] = "none" /\ stray[s] = 0
    /\ linked["pmw"] = {} /\ linked["adns"] = {} /\ down["pmw"] = TbSlots

\* Only sensors in use count as powered, apart from those the ADNS driver was
\* never told of, which are in pairs with a motion pin.
PoweredAreLinked ==
  tbStage # "reset" => \A s \in TbSlots :
    /\ s \in down["pmw"] \/ s \in linked["pmw"]
    /\ s \in down["adns"] \/ s \in linked["adns"] \/ pinMode[PairOf[s]] = "motion"

\* A sensor that is not in use has no powered flag of its own driver.
LostAreDown ==
  \A s \in TbSlots : \A d \in Drivers : sensor[s] = d /\ s \notin linked[d] => s \in down[d]

\* The register of a sensor in use holds the driver's setting.
RegisterIsSetting ==
  \A s \in TbSlots : InUse(s) => chip[s].awake /\ chip[s].cpi = cpiSetting[sensor[s]][s]

\* In the superloop the driver's settings, asleep or not, are those of the slot
\* but for slots that were reset.
SettingsFollow ==
  tbStage = "run" => \A s \in TbSlots \ stale : \A d \in Drivers : sensor[s] = d =>
    cpiSetting[d][s] = Effective(d, tb[s].cpi_step) /\ angleOf[d][s] = tb[s].angle

TInv ==
  /\ TrackballTypeOK /\ PinServesPair /\ StrayWriteOnce
  /\ Untouched /\ PoweredAreLinked /\ LostAreDown /\ RegisterIsSetting /\ SettingsFollow

CpiRange == 200 .. 3200

LEMMA CpiTypes ==
  /\ \A n \in 0 .. 15 : CalcCpi(n) \in Nat /\ CalcCpi(n) > 0 /\ AdnsCpi(CalcCpi(n)) \in Nat
  /\ \A n \in 0 .. 15 : Near(AdnsCpi(CalcCpi(n)), CalcCpi(n))
<1>1. \A n \in 0 .. 15 : CalcCpi(n) \in CpiRange
  BY SMT DEF CalcCpi, Clamped, CpiRange
<1>2. \A c \in CpiRange : AdnsCpi(c) \in Nat /\ Near(AdnsCpi(c), c)
  BY SMT DEF AdnsCpi, Clamped, Near, CpiRange
<1>3. \A c \in CpiRange : c \in Nat /\ c > 0
  BY SMT DEF CpiRange
<1> QED
  BY <1>1, <1>2, <1>3, Zenon

LEMMA EffectiveType ==
  ASSUME NEW d \in Drivers, NEW w \in Wanted
  PROVE  Effective(d, w.cpi_step) \in Nat /\ w.angle % 360 = w.angle /\ w.angle \in 0 .. 359
<1>1. w.cpi_step \in 0 .. 15 /\ w.angle \in 0 .. 359
  BY TrackballAssumption
<1> QED
  BY <1>1, CpiTypes DEF Effective

LEMMA TInit == TrackballInit => TInv
<1> SUFFICES ASSUME TrackballInit PROVE TInv
  OBVIOUS
<1> USE DEF TrackballInit, Drivers
<1>1. TrackballTypeOK
  BY TrackballAssumption DEF TrackballTypeOK
<1>2. PinServesPair /\ StrayWriteOnce /\ Untouched
  BY DEF PinServesPair, StrayWriteOnce, Untouched
<1>3. PoweredAreLinked /\ LostAreDown /\ RegisterIsSetting /\ SettingsFollow
  BY DEF PoweredAreLinked, LostAreDown, RegisterIsSetting, SettingsFollow, InUse
<1> QED
  BY <1>1, <1>2, <1>3 DEF TInv

LEMMA ProbeStep ==
  ASSUME TInv, NEW answers \in SUBSET TbSlots, DriverInit(answers)
  PROVE  TInv'
<1> DEFINE pmw  == FoundPmw(answers)
           rest == OtherPairs(pmw)
           adns == FoundAdns(answers, rest)
<1> USE DEF TInv
<1>1. /\ pmw \subseteq TbSlots /\ rest \subseteq TbSlots /\ adns \subseteq rest
      /\ pmw \cap rest = {} /\ pmw \cap adns = {}
      /\ \A s \in TbSlots \ rest : \E t \in pmw : PairOf[t] = PairOf[s]
      /\ \A s \in rest, t \in TbSlots : PairOf[t] = PairOf[s] => t \in rest
  BY DEF OtherPairs, FoundAdns, FoundPmw
<1> HIDE DEF rest
<1>2. /\ sensor' = [s \in TbSlots |-> IF s \in adns THEN "adns" ELSE IF s \in pmw THEN "pmw" ELSE "none"]
      /\ pinMode' = [p \in Pairs |-> IF \E s \in rest : PairOf[s] = p THEN "reset" ELSE "motion"]
      /\ linked' = [pmw |-> pmw, adns |-> adns]
      /\ down' = [pmw |-> TbSlots \ pmw, adns |-> rest \ adns]
      /\ tbStage = "reset" /\ tbStage' = "probed"
      /\ UNCHANGED <<plugged, angleOf, timeoutLen, tb, quiet, stray, stale>>
  BY DEF DriverInit, rest
<1>3. /\ cpiSetting' = [pmw  |-> [s \in TbSlots |-> 800],
                        adns |-> [s \in TbSlots |-> IF s \in rest THEN 750 ELSE 0]]
      /\ chip' = [s \in TbSlots |-> IF s \in adns THEN [awake |-> TRUE, cpi |-> 750]
                                  ELSE IF s \in pmw THEN [awake |-> TRUE, cpi |-> 800]
                                  ELSE chip[s]]
      /\ timeLeft' = [d \in Drivers |-> IF d = "pmw" \/ rest # {} THEN timeoutLen[d] ELSE 0]
  BY DEF DriverInit, rest, DefaultCpi, Drivers
<1>4. TrackballTypeOK'
  <2>1. /\ sensor' \in [TbSlots -> Drivers \cup {"none"}]
        /\ pinMode' \in [Pairs -> {"unset", "motion", "reset"}]
        /\ linked' \in [Drivers -> SUBSET TbSlots] /\ down' \in [Drivers -> SUBSET TbSlots]
    BY <1>1, <1>2 DEF Drivers
  <2>2. /\ cpiSetting' \in [Drivers -> [TbSlots -> Nat]]
        /\ chip' \in [TbSlots -> [awake : BOOLEAN, cpi : Nat]]
    <3>1. cpiSetting' \in [Drivers -> [TbSlots -> Nat]]
      BY <1>3 DEF Drivers
    <3>2. chip \in [TbSlots -> [awake : BOOLEAN, cpi : Nat]]
      BY DEF TrackballTypeOK
    <3> QED
      BY <3>1, <3>2, <1>3
  <2>3. timeLeft' \in [Drivers -> Nat]
    BY <1>3, TrackballAssumption DEF TrackballTypeOK
  <2>4. /\ \A s \in TbSlots : sensor'[s] \in {"none", plugged'[s]}
        /\ \A d \in Drivers : \A s \in linked'[d] : sensor'[s] = d
    BY <1>1, <1>2 DEF Drivers, FoundAdns, FoundPmw
  <2> QED
    BY <1>2, <2>1, <2>2, <2>3, <2>4 DEF TrackballTypeOK
<1>5. PinServesPair'
  BY <1>1, <1>2 DEF PinServesPair, Pairs
<1>6. StrayWriteOnce' /\ Untouched'
  BY <1>2 DEF Untouched, StrayWriteOnce
<1>7. PoweredAreLinked'
  BY <1>1, <1>2 DEF PoweredAreLinked, Pairs
<1>8. LostAreDown' /\ SettingsFollow'
  BY <1>1, <1>2 DEF LostAreDown, SettingsFollow, Drivers
<1>9. RegisterIsSetting'
  BY <1>1, <1>2, <1>3 DEF RegisterIsSetting, InUse, Drivers
<1> QED
  BY <1>4, <1>5, <1>6, <1>7, <1>8, <1>9

\* The steps that change neither who is who nor what is stored where.
LEMMA QuietSteps ==
  ASSUME TInv,
         UNCHANGED <<plugged, tbStage, sensor, pinMode, linked, down, cpiSetting, angleOf,
                     timeoutLen, tb, chip, stray, stale>>,
         timeLeft' \in [Drivers -> Nat], quiet' \in [TbSlots -> Nat]
  PROVE  TInv'
  BY DEF TInv, TrackballTypeOK, PinServesPair, StrayWriteOnce, Untouched, PoweredAreLinked,
         LostAreDown, RegisterIsSetting, SettingsFollow, InUse

\* trackball_apply_sensor_config leaves the sensors of its slots as configured.
LEMMA ApplyStep ==
  ASSUME TInv, NEW S \in SUBSET TbSlots, NEW new \in [TbSlots -> Wanted],
         ApplySensorConfig(S, new), tb' = new, tbStage' = "run",
         tbStage # "reset", tbStage = "run" \/ S = TbSlots,
         \A s \in TbSlots \ S : new[s] = tb[s],
         UNCHANGED <<plugged, sensor, pinMode, linked, down, quiet, stray>>,
         timeoutLen' \in [Drivers -> Lengths], timeLeft' \in [Drivers -> Nat]
  PROVE  TInv'
<1> USE DEF TInv
<1>1. /\ \A d \in Drivers, s \in TbSlots : Effective(d, new[s].cpi_step) \in Nat
      /\ \A s \in TbSlots : new[s].angle % 360 = new[s].angle /\ new[s].angle \in 0 .. 359
  BY EffectiveType DEF Drivers
<1>2. /\ cpiSetting' \in [Drivers -> [TbSlots -> Nat]]
      /\ \A d \in Drivers, s \in TbSlots :
           /\ s \in S /\ sensor[s] = d => cpiSetting'[d][s] = Effective(d, new[s].cpi_step)
           /\ s \notin S => cpiSetting'[d][s] = cpiSetting[d][s]
  BY <1>1 DEF ApplySensorConfig, SettingOf, TrackballTypeOK
<1>3. /\ angleOf' \in [Drivers -> [TbSlots -> 0 .. 359]]
      /\ \A d \in Drivers, s \in TbSlots :
           /\ s \in S /\ sensor[s] = d => angleOf'[d][s] = new[s].angle
           /\ s \notin S => angleOf'[d][s] = angleOf[d][s]
  BY <1>1 DEF ApplySensorConfig, TrackballTypeOK
<1>4. \A s \in TbSlots :
        /\ RegisterOf(s, new) \in [awake : BOOLEAN, cpi : Nat]
        /\ RegisterOf(s, new).awake = chip[s].awake
        /\ sensor[s] \in Drivers /\ s \notin down[sensor[s]]
             => RegisterOf(s, new).cpi = Effective(sensor[s], new[s].cpi_step)
  <2> SUFFICES ASSUME NEW s \in TbSlots
               PROVE  /\ RegisterOf(s, new) \in [awake : BOOLEAN, cpi : Nat]
                      /\ RegisterOf(s, new).awake = chip[s].awake
                      /\ sensor[s] \in Drivers /\ s \notin down[sensor[s]]
                           => RegisterOf(s, new).cpi = Effective(sensor[s], new[s].cpi_step)
    OBVIOUS
  <2>1. chip[s] \in [awake : BOOLEAN, cpi : Nat]
    BY DEF TrackballTypeOK
  <2>2. CASE sensor[s] \in Drivers /\ s \notin down[sensor[s]]
    <3>1. RegisterOf(s, new) = [awake |-> chip[s].awake, cpi |-> Effective(sensor[s], new[s].cpi_step)]
      BY <2>1, <2>2 DEF RegisterOf
    <3> QED
      BY <1>1, <2>1, <2>2, <3>1
  <2>3. CASE ~(sensor[s] \in Drivers /\ s \notin down[sensor[s]])
    BY <2>1, <2>3 DEF RegisterOf
  <2> QED
    BY <2>2, <2>3
<1>5. /\ chip' \in [TbSlots -> [awake : BOOLEAN, cpi : Nat]]
      /\ \A s \in TbSlots : chip'[s] = IF s \in S THEN RegisterOf(s, new) ELSE chip[s]
  BY <1>4 DEF ApplySensorConfig, TrackballTypeOK
<1>0. stale' = stale \ S
  BY DEF ApplySensorConfig
<1>6. TrackballTypeOK'
  BY <1>0, <1>2, <1>3, <1>5 DEF TrackballTypeOK
<1>7. SettingsFollow'
  BY <1>0, <1>2, <1>3 DEF SettingsFollow, Drivers
<1>8. RegisterIsSetting'
  <2> SUFFICES ASSUME NEW s \in TbSlots, InUse(s)'
               PROVE  chip'[s].awake /\ chip'[s].cpi = cpiSetting'[sensor[s]][s]
    BY DEF RegisterIsSetting
  <2>1. /\ sensor[s] \in Drivers /\ s \notin down[sensor[s]]
        /\ chip[s].awake /\ chip[s].cpi = cpiSetting[sensor[s]][s]
    BY DEF RegisterIsSetting, InUse
  <2>2. CASE s \in S
    BY <1>2, <1>4, <1>5, <2>1, <2>2
  <2>3. CASE s \notin S
    BY <1>2, <1>5, <2>1, <2>3
  <2> QED
    BY <2>2, <2>3
<1>9. PinServesPair' /\ StrayWriteOnce' /\ Untouched' /\ PoweredAreLinked' /\ LostAreDown'
  BY DEF PinServesPair, StrayWriteOnce, Untouched, PoweredAreLinked, LostAreDown
<1> QED
  BY <1>6, <1>7, <1>8, <1>9

\* A pass that may put sensors to sleep.
LEMMA ReportStep ==
  ASSUME TInv, NEW moved \in SUBSET TbSlots, GetReport(moved)
  PROVE  TInv'
<1> DEFINE expired == {d \in Drivers : timeoutLen[d] # 0 /\ Refreshed(moved, d) = 0}
           hit     == [d \in Drivers |-> IF d \in expired THEN TbSlots \ down[d] ELSE {}]
<1> USE DEF TInv
<1>1. /\ down' = [d \in Drivers |-> IF d \in expired THEN TbSlots ELSE down[d]]
      /\ tbStage = "run"
      /\ UNCHANGED <<plugged, tbStage, sensor, pinMode, linked, cpiSetting, angleOf, timeoutLen, tb, stale>>
  BY DEF GetReport, SetFlags
<1>2. PowerDown(hit)
  BY DEF GetReport
<1>3. timeLeft' \in [Drivers -> Nat] /\ quiet' \in [TbSlots -> Nat]
  BY TrackballAssumption DEF GetReport, Refreshed, TrackballTypeOK
<1>4. /\ down' \in [Drivers -> SUBSET TbSlots]
      /\ \A d \in Drivers : down[d] \subseteq down'[d] /\ hit[d] \subseteq down'[d]
      /\ \A d \in Drivers : hit[d] \cap down[d] = {} /\ hit[d] \subseteq TbSlots
  BY <1>1 DEF TrackballTypeOK
<1> HIDE DEF expired, hit
<1>5. /\ chip' \in [TbSlots -> [awake : BOOLEAN, cpi : Nat]]
      /\ \A s \in TbSlots : (\A d \in Drivers : s \notin hit[d] \/ plugged[s] # d) => chip'[s] = chip[s]
  <2>1. \A s \in TbSlots : [awake |-> FALSE, cpi |-> chip[s].cpi] \in [awake : BOOLEAN, cpi : Nat]
    BY DEF TrackballTypeOK
  <2> QED
    BY <1>2, <2>1 DEF PowerDown, TrackballTypeOK
<1>6. /\ stray' \in [TbSlots -> Nat]
      /\ \A s \in TbSlots : stray'[s] = IF \E d \in Drivers : s \in hit[d] /\ plugged[s] \in Drivers \ {d}
                                      THEN stray[s] + 1 ELSE stray[s]
  BY <1>2 DEF PowerDown, TrackballTypeOK
<1>7. TrackballTypeOK'
  BY <1>1, <1>3, <1>4, <1>5, <1>6 DEF TrackballTypeOK
<1>8. StrayWriteOnce'
  <2> SUFFICES ASSUME NEW s \in TbSlots, stray'[s] > 0
               PROVE  stray'[s] = 1 /\ pinMode[PairOf[s]] = "motion" /\ plugged[s] = "pmw" /\ s \in down'["adns"]
    BY <1>1 DEF StrayWriteOnce
  <2>0. stray[s] \in Nat /\ "adns" \in Drivers /\ "pmw" \in Drivers
    BY DEF TrackballTypeOK, Drivers
  <2>1. CASE \E d \in Drivers : s \in hit[d] /\ plugged[s] \in Drivers \ {d}
    <3>1. s \notin hit["pmw"] \/ plugged[s] \notin Drivers \ {"pmw"}
      BY <1>1, <1>4, <2>0 DEF PoweredAreLinked, TrackballTypeOK
    <3>2. s \in hit["adns"] /\ plugged[s] = "pmw"
      BY <2>1, <3>1 DEF Drivers
    <3>3. s \notin down["adns"] /\ s \in down'["adns"] /\ s \notin linked["adns"]
      BY <1>4, <2>0, <3>2 DEF TrackballTypeOK
    <3>4. stray[s] = 0 /\ pinMode[PairOf[s]] = "motion"
      BY <1>1, <2>0, <3>3 DEF StrayWriteOnce, PoweredAreLinked
    <3> QED
      BY <1>6, <2>1, <3>2, <3>3, <3>4
  <2>2. CASE ~(\E d \in Drivers : s \in hit[d] /\ plugged[s] \in Drivers \ {d})
    BY <1>4, <1>6, <2>0, <2>2 DEF StrayWriteOnce
  <2> QED
    BY <2>1, <2>2
<1>9. PinServesPair' /\ Untouched' /\ SettingsFollow'
  BY <1>1 DEF PinServesPair, Untouched, SettingsFollow
<1>10. PoweredAreLinked' /\ LostAreDown'
  BY <1>1, <1>4 DEF PoweredAreLinked, LostAreDown, Drivers
<1>11. RegisterIsSetting'
  <2> SUFFICES ASSUME NEW s \in TbSlots, InUse(s)'
               PROVE  chip'[s].awake /\ chip'[s].cpi = cpiSetting'[sensor[s]][s]
    BY <1>1 DEF RegisterIsSetting
  <2>1. InUse(s) /\ sensor[s] \in Drivers /\ plugged[s] = sensor[s] /\ s \notin hit[sensor[s]]
    BY <1>1, <1>4 DEF InUse, TrackballTypeOK, Drivers
  <2>2. chip'[s] = chip[s]
    BY <1>5, <2>1
  <2> QED
    BY <1>1, <2>1, <2>2 DEF RegisterIsSetting
<1> QED
  BY <1>7, <1>8, <1>9, <1>10, <1>11

\* A key wakes the sensors that answer and loses the others.
LEMMA WakeStep ==
  ASSUME TInv, NEW answers \in SUBSET TbSlots, WakeConnected(answers)
  PROVE  TInv'
<1> DEFINE asked == [d \in Drivers |-> {s \in linked[d] \cap down[d] : sensor[s] = d}]
<1> USE DEF TInv
<1>1. /\ linked' = [d \in Drivers |-> linked[d] \ (asked[d] \ answers)]
      /\ down' = [d \in Drivers |-> down[d] \ (asked[d] \cap answers)]
      /\ chip' = [s \in TbSlots |-> IF sensor[s] \in Drivers /\ s \in asked[sensor[s]] \cap answers
                                  THEN [awake |-> TRUE, cpi |-> cpiSetting[sensor[s]][s]]
                                  ELSE chip[s]]
      /\ tbStage = "run"
      /\ UNCHANGED <<plugged, tbStage, sensor, pinMode, cpiSetting, angleOf, timeoutLen, tb, stray, stale>>
  BY DEF WakeConnected
<1>2. timeLeft' \in [Drivers -> Nat] /\ quiet' \in [TbSlots -> Nat]
  BY TrackballAssumption DEF WakeConnected, TrackballTypeOK
<1>3. \A d \in Drivers : /\ asked[d] = linked[d] \cap down[d]
                         /\ linked'[d] = linked[d] \ (asked[d] \ answers)
                         /\ down'[d] = down[d] \ (asked[d] \cap answers)
  BY <1>1 DEF TrackballTypeOK
<1>4. linked' \in [Drivers -> SUBSET TbSlots] /\ down' \in [Drivers -> SUBSET TbSlots]
  BY <1>1 DEF TrackballTypeOK
<1> HIDE DEF asked
<1>5. chip' \in [TbSlots -> [awake : BOOLEAN, cpi : Nat]]
  <2>1. \A s \in TbSlots : sensor[s] \in Drivers
          => [awake |-> TRUE, cpi |-> cpiSetting[sensor[s]][s]] \in [awake : BOOLEAN, cpi : Nat]
    BY DEF TrackballTypeOK
  <2> QED
    BY <1>1, <2>1 DEF TrackballTypeOK
<1>6. TrackballTypeOK'
  BY <1>1, <1>2, <1>3, <1>4, <1>5 DEF TrackballTypeOK
<1>7. PinServesPair' /\ Untouched' /\ SettingsFollow'
  BY <1>1 DEF PinServesPair, Untouched, SettingsFollow
<1>8. StrayWriteOnce'
  BY <1>1, <1>3 DEF StrayWriteOnce, TrackballTypeOK, Drivers
<1>9. PoweredAreLinked'
  BY <1>1, <1>3 DEF PoweredAreLinked, Drivers
<1>10. LostAreDown'
  BY <1>1, <1>3 DEF LostAreDown
<1>11. RegisterIsSetting'
  <2> SUFFICES ASSUME NEW s \in TbSlots, InUse(s)'
               PROVE  chip'[s].awake /\ chip'[s].cpi = cpiSetting'[sensor[s]][s]
    BY <1>1 DEF RegisterIsSetting
  <2>1. CASE s \in asked[sensor[s]] \cap answers
    BY <1>1, <2>1 DEF InUse
  <2>2. CASE s \notin asked[sensor[s]] \cap answers
    <3>1. InUse(s)
      BY <1>1, <1>3, <2>2 DEF InUse
    <3> QED
      BY <1>1, <2>2, <3>1 DEF RegisterIsSetting
  <2> QED
    BY <2>1, <2>2
<1> QED
  BY <1>6, <1>7, <1>8, <1>9, <1>10, <1>11

LEMMA TStep == TInv /\ [TrackballNext]_tbVars => TInv'
<1> SUFFICES ASSUME TInv, [TrackballNext]_tbVars PROVE TInv'
  OBVIOUS
<1> USE DEF TInv
<1>1. ASSUME NEW answers \in SUBSET TbSlots, DriverInit(answers) PROVE TInv'
  BY <1>1, ProbeStep
<1>2. ASSUME NEW answers \in SUBSET TbSlots, WakeConnected(answers) PROVE TInv'
  BY <1>2, WakeStep
<1>3. ASSUME NEW n \in Lengths, PostInit(n) PROVE TInv'
  <2>1. tb \in [TbSlots -> Wanted] /\ tb' = tb
    BY <1>3 DEF PostInit, TrackballTypeOK
  <2>2. timeoutLen' \in [Drivers -> Lengths] /\ timeLeft' \in [Drivers -> Nat]
    BY <1>3, TrackballAssumption DEF PostInit, ApplyTimeout
  <2>3. /\ ApplySensorConfig(TbSlots, tb) /\ tbStage' = "run" /\ tbStage # "reset"
        /\ UNCHANGED <<plugged, sensor, pinMode, linked, down, quiet, stray>>
    BY <1>3 DEF PostInit
  <2> QED
    BY <2>1, <2>2, <2>3, ApplyStep
<1>4. ASSUME NEW n \in Lengths, SetTimeout(n) PROVE TInv'
  <2>1. timeoutLen' \in [Drivers -> Lengths] /\ timeLeft' \in [Drivers -> Nat] /\ quiet' \in [TbSlots -> Nat]
    BY <1>4, TrackballAssumption DEF SetTimeout, ApplyTimeout
  <2>2. UNCHANGED <<plugged, tbStage, sensor, pinMode, linked, down, cpiSetting, angleOf, tb, chip, stray, stale>>
    BY <1>4 DEF SetTimeout
  <2> QED
    BY <2>1, <2>2 DEF TrackballTypeOK, PinServesPair, StrayWriteOnce, Untouched,
       PoweredAreLinked, LostAreDown, RegisterIsSetting, SettingsFollow, InUse
<1>5. ASSUME NEW moved \in SUBSET TbSlots, GetReport(moved) PROVE TInv'
  BY <1>5, ReportStep
<1>6. ASSUME NEW s \in TbSlots, NEW new \in Wanted, SetTb(s, new) PROVE TInv'
  <2>1. /\ tb' \in [TbSlots -> Wanted] /\ \A t \in TbSlots \ {s} : tb'[t] = tb[t]
        /\ {s} \in SUBSET TbSlots
    BY <1>6 DEF SetTb, TrackballTypeOK
  <2>2. timeoutLen' \in [Drivers -> Lengths] /\ timeLeft' \in [Drivers -> Nat]
    BY <1>6 DEF SetTb, TrackballTypeOK
  <2>3. /\ ApplySensorConfig({s}, tb') /\ tbStage = "run" /\ tbStage' = "run"
        /\ UNCHANGED <<plugged, sensor, pinMode, linked, down, quiet, stray>>
    BY <1>6 DEF SetTb
  <2>4. PICK new2 \in [TbSlots -> Wanted] : new2 = tb'
    BY <2>1
  <2> QED
    BY <2>1, <2>2, <2>3, <2>4, ApplyStep
<1>7. CASE TrackballTick
  <2>1. timeLeft' \in [Drivers -> Nat]
    BY <1>7 DEF TrackballTick, TrackballTypeOK
  <2>2. quiet' \in [TbSlots -> Nat]
    BY <1>7 DEF TrackballTick, TrackballTypeOK
  <2>3. UNCHANGED <<plugged, tbStage, sensor, pinMode, linked, down, cpiSetting, angleOf,
                    timeoutLen, tb, chip, stray, stale>>
    BY <1>7 DEF TrackballTick
  <2> QED
    BY <2>1, <2>2, <2>3, QuietSteps
<1>9. CASE ResetTb
  <2>1. tb' \in [TbSlots -> Wanted] /\ stale' = TbSlots
    BY <1>9, TrackballAssumption DEF ResetTb
  <2>2. UNCHANGED <<plugged, tbStage, sensor, pinMode, linked, down, cpiSetting, angleOf,
                    timeoutLen, timeLeft, chip, quiet, stray>>
    BY <1>9 DEF ResetTb, drivers
  <2> QED
    BY <2>1, <2>2 DEF TrackballTypeOK, PinServesPair, StrayWriteOnce, Untouched,
       PoweredAreLinked, LostAreDown, RegisterIsSetting, SettingsFollow, InUse
<1>8. CASE UNCHANGED tbVars
  BY <1>8, QuietSteps DEF tbVars, TrackballTypeOK
<1> QED
  BY <1>1, <1>2, <1>3, <1>4, <1>5, <1>6, <1>7, <1>8, <1>9 DEF TrackballNext, Answers

LEMMA TAlways == TrackballSpec => []TInv
  BY TInit, TStep, PTL DEF TrackballSpec

\* Every variable keeps its type.
THEOREM TrackballTypes == TrackballSpec => []TrackballTypeOK
  BY TAlways, PTL DEF TInv

\* The pin a pair shares serves the sensors found on it.
THEOREM PinsServe == TrackballSpec => []PinServesPair
  BY TAlways, PTL DEF TInv

\* A sensor in use is awake and has its slot's settings.
THEOREM Configured == TrackballSpec => []AwakeAsConfigured
<1>1. TInv => AwakeAsConfigured
  <2> SUFFICES ASSUME TInv, tbStage = "run", NEW s \in TbSlots, InUse(s)
               PROVE  /\ chip[s].awake
                      /\ s \notin stale =>
                           /\ angleOf[sensor[s]][s] = tb[s].angle
                           /\ IF sensor[s] = "pmw" THEN chip[s].cpi = CalcCpi(tb[s].cpi_step)
                              ELSE Near(chip[s].cpi, CalcCpi(tb[s].cpi_step))
    BY DEF AwakeAsConfigured
  <2>1. /\ chip[s].awake
        /\ s \notin stale => /\ chip[s].cpi = Effective(sensor[s], tb[s].cpi_step)
                            /\ angleOf[sensor[s]][s] = tb[s].angle
    BY DEF TInv, RegisterIsSetting, SettingsFollow, InUse
  <2>2. tb[s].cpi_step \in 0 .. 15
    BY TrackballAssumption DEF TInv, TrackballTypeOK
  <2>3. Near(AdnsCpi(CalcCpi(tb[s].cpi_step)), CalcCpi(tb[s].cpi_step))
    BY <2>2, CpiTypes, Zenon
  <2> QED
    BY <2>1, <2>3 DEF Effective
<1> QED
  BY <1>1, TAlways, PTL

\* No sensor gets more than one power-down meant for the other kind.
THEOREM StrayOnce == TrackballSpec => []StrayWriteOnce
  BY TAlways, PTL DEF TInv

\* A sensor that failed to wake is never used, configured or woken again.
THEOREM LostForGood == TrackballSpec => LostIsLeftAlone
<1>1. ASSUME TInv, [TrackballNext]_tbVars, NEW s \in TbSlots, tbStage = "run", Lost(s)
      PROVE  Lost(s)' /\ chip'[s] = chip[s]
  <2> USE DEF TInv, Lost, Reported
  <2>0. sensor[s] \in Drivers /\ s \in down[sensor[s]] /\ s \notin linked[sensor[s]]
    BY <1>1 DEF LostAreDown
  <2>1. ASSUME NEW answers \in SUBSET TbSlots, WakeConnected(answers)
        PROVE  Lost(s)' /\ chip'[s] = chip[s]
    BY <2>0, <2>1 DEF WakeConnected, TrackballTypeOK
  <2>2. ASSUME NEW moved \in SUBSET TbSlots, GetReport(moved)
        PROVE  Lost(s)' /\ chip'[s] = chip[s]
    <3> DEFINE after   == [d \in Drivers |-> Refreshed(moved, d)]
               expired == {d \in Drivers : timeoutLen[d] # 0 /\ after[d] = 0}
               hit     == [d \in Drivers |-> IF d \in expired THEN TbSlots \ down[d] ELSE {}]
    <3>1. PowerDown(hit) /\ UNCHANGED <<sensor, linked>>
      BY <2>2 DEF GetReport
    <3>2. \A d \in Drivers : s \notin hit[d] \/ plugged[s] # d
      <4>1. plugged[s] = sensor[s]
        BY <1>1, <2>0 DEF TrackballTypeOK, Drivers
      <4> QED
        BY <1>1, <2>0, <4>1 DEF TrackballTypeOK
    <3> HIDE DEF hit
    <3>3. chip'[s] = chip[s]
      BY <3>1, <3>2 DEF PowerDown
    <3> QED
      BY <1>1, <3>1, <3>3
  <2>3. CASE \E answers \in Answers : WakeConnected(answers)
    BY <2>1, <2>3 DEF Answers
  <2>4. ~ \E answers \in Answers : DriverInit(answers)
    BY <1>1 DEF DriverInit
  <2> QED
    BY <1>1, <2>0, <2>2, <2>3, <2>4 DEF TrackballNext, PostInit, SetTimeout, SetTb,
       ResetTb, TrackballTick, drivers, ApplySensorConfig, RegisterOf, tbVars, TrackballTypeOK
<1>2. TInv /\ [TrackballNext]_tbVars
        => [\A s \in TbSlots : tbStage = "run" /\ Lost(s) => Lost(s)' /\ chip'[s] = chip[s]]_tbVars
  BY <1>1
<1> QED
  BY <1>2, TAlways, PTL DEF TrackballSpec, LostIsLeftAlone

\* On its wires each sensor gets what is meant for it, or the one stray power-down.
THEOREM WiresServe == TrackballSpec => WiresServeSensors
  BY PinsServe, StrayOnce, LostForGood, PTL DEF WiresServeSensors

(***************************************************************************)
(* The timers.  While sensors of a kind are in use, their timer is what is *)
(* left of the timeout after the shortest time any of them was idle.       *)
(***************************************************************************)

InUseOf(d) == linked[d] \ down[d]

\* What is left of length L after the shortest idle time of the sensors in U.
LeftOfIdle(left, L, idle, U) ==
  /\ left <= L
  /\ \A s \in U : idle[s] + left >= L
  /\ left > 0 => \E s \in U : idle[s] = L - left

FreshAtStart == tbStage # "run" => \A s \in TbSlots : quiet[s] = 0

TimerFollows ==
  tbStage = "run" => \A d \in Drivers : timeoutLen[d] > 0 /\ InUseOf(d) # {} =>
    LeftOfIdle(timeLeft[d], timeoutLen[d], quiet, InUseOf(d))

LEMMA LongestIsLongest == MaxLength \in Lengths /\ \A k \in Lengths : k <= MaxLength /\ k \in Nat
  BY TrackballAssumption DEF MaxLength

\* A timer that starts anew while everything counts as idle since now.
LEMMA AnewIsLeft ==
  ASSUME NEW U \in SUBSET TbSlots, U # {}, NEW L \in Nat, NEW idle, \A s \in U : idle[s] = 0
  PROVE  LeftOfIdle(L, L, idle, U)
  BY DEF LeftOfIdle

\* Time passes: the timer and the idle times go on together.
LEMMA TickIsLeft ==
  ASSUME NEW U \in SUBSET TbSlots, NEW L \in Lengths, NEW left \in Nat,
         NEW idle \in [TbSlots -> Nat], LeftOfIdle(left, L, idle, U),
         NEW idle2, \A s \in TbSlots : idle2[s] = IF idle[s] < MaxLength THEN idle[s] + 1 ELSE idle[s]
  PROVE  LeftOfIdle(IF left > 0 THEN left - 1 ELSE 0, L, idle2, U)
<1>1. L \in Nat /\ L <= MaxLength /\ MaxLength \in Nat
  BY LongestIsLongest
<1>2. CASE left > 0
  <2>1. left - 1 <= L
    BY <1>1, <1>2 DEF LeftOfIdle
  <2>2. \A s \in U : idle2[s] + (left - 1) >= L
    BY <1>1, <1>2 DEF LeftOfIdle
  <2>3. left - 1 > 0 => \E s \in U : idle2[s] = L - (left - 1)
    BY <1>1, <1>2 DEF LeftOfIdle
  <2> QED
    BY <1>2, <2>1, <2>2, <2>3 DEF LeftOfIdle
<1>3. CASE left = 0
  <2>1. \A s \in U : idle2[s] >= L
    BY <1>1, <1>3 DEF LeftOfIdle
  <2>2. \A s \in U : idle2[s] + 0 >= L
    BY <1>1, <2>1
  <2> QED
    BY <1>1, <1>3, <2>2 DEF LeftOfIdle
<1> QED
  BY <1>2, <1>3

LEMMA TimerInit == TrackballInit => FreshAtStart /\ TimerFollows
  BY DEF TrackballInit, FreshAtStart, TimerFollows

\* Steps in the superloop that leave timers, idle times and who is in use alone.
LEMMA TimersAlone ==
  ASSUME FreshAtStart, TimerFollows, UNCHANGED <<tbStage, linked, down, timeoutLen, timeLeft, quiet>>
  PROVE  FreshAtStart' /\ TimerFollows'
  BY DEF FreshAtStart, TimerFollows, InUseOf

\* Steps after which the timers of all that is in use have started anew.
LEMMA TimersAnew ==
  ASSUME TInv', tbStage' = "run", \A s \in TbSlots : quiet'[s] = 0,
         \A d \in Drivers : InUseOf(d)' # {} => timeLeft'[d] = timeoutLen'[d]
  PROVE  FreshAtStart' /\ TimerFollows'
<1>1. \A d \in Drivers : InUseOf(d)' \in SUBSET TbSlots /\ timeoutLen'[d] \in Nat
  BY TrackballAssumption DEF TInv, TrackballTypeOK, InUseOf
<1> QED
  BY <1>1, AnewIsLeft DEF FreshAtStart, TimerFollows

LEMMA ReportTimers ==
  ASSUME TInv, TimerFollows, NEW moved \in SUBSET TbSlots, GetReport(moved)
  PROVE  FreshAtStart' /\ TimerFollows'
<1>1. /\ tbStage = "run" /\ tbStage' = "run"
      /\ \A s \in moved : InUse(s)
      /\ \A d \in Drivers : timeLeft'[d] = Refreshed(moved, d)
      /\ \A d \in Drivers :
           down'[d] = IF timeoutLen[d] # 0 /\ Refreshed(moved, d) = 0 THEN TbSlots ELSE down[d]
      /\ \A s \in TbSlots : quiet'[s] = IF s \in moved THEN 0 ELSE quiet[s]
      /\ UNCHANGED <<sensor, linked, timeoutLen>>
  BY DEF GetReport, SetFlags
<1>2. ASSUME NEW d \in Drivers, timeoutLen[d] > 0, InUseOf(d)' # {}
      PROVE  LeftOfIdle(timeLeft'[d], timeoutLen[d], quiet', InUseOf(d)')
  <2>1. /\ linked[d] \subseteq TbSlots /\ timeoutLen[d] \in Nat /\ timeLeft[d] \in Nat
        /\ \A s \in linked[d] : sensor[s] = d
    BY TrackballAssumption DEF TInv, TrackballTypeOK
  <2>2. InUseOf(d)' = InUseOf(d) /\ Refreshed(moved, d) # 0
    BY <1>1, <1>2, <2>1 DEF InUseOf
  <2>3. CASE \E s \in moved : sensor[s] = d
    <3>1. PICK s \in moved : sensor[s] = d
      BY <2>3
    <3>2. s \in InUseOf(d) /\ quiet'[s] = 0 /\ timeLeft'[d] = timeoutLen[d]
      BY <1>1, <2>3, <3>1 DEF InUse, InUseOf, Refreshed
    <3>3. \A t \in InUseOf(d) : quiet'[t] \in Nat
      <4>1. \A t \in TbSlots : quiet[t] \in Nat
        BY DEF TInv, TrackballTypeOK
      <4> QED
        BY <1>1, <2>1, <4>1 DEF InUseOf
    <3> QED
      BY <2>1, <2>2, <3>2, <3>3 DEF LeftOfIdle
  <2>4. CASE ~ \E s \in moved : sensor[s] = d
    <3>1. timeLeft'[d] = timeLeft[d] /\ \A s \in InUseOf(d) : quiet'[s] = quiet[s]
      BY <1>1, <2>1, <2>4 DEF Refreshed, InUseOf
    <3>2. LeftOfIdle(timeLeft[d], timeoutLen[d], quiet, InUseOf(d))
      BY <1>1, <1>2, <2>2 DEF TimerFollows
    <3> QED
      BY <2>2, <3>1, <3>2 DEF LeftOfIdle
  <2> QED
    BY <2>3, <2>4
<1> QED
  BY <1>1, <1>2 DEF FreshAtStart, TimerFollows

LEMMA TimerStep == TInv /\ TInv' /\ FreshAtStart /\ TimerFollows /\ [TrackballNext]_tbVars
                     => FreshAtStart' /\ TimerFollows'
<1> SUFFICES ASSUME TInv, TInv', FreshAtStart, TimerFollows, [TrackballNext]_tbVars
             PROVE  FreshAtStart' /\ TimerFollows'
  OBVIOUS
<1>1. ASSUME NEW answers \in Answers, DriverInit(answers) PROVE FreshAtStart' /\ TimerFollows'
  BY <1>1 DEF DriverInit, FreshAtStart, TimerFollows
<1>2. ASSUME NEW answers \in Answers, WakeConnected(answers) PROVE FreshAtStart' /\ TimerFollows'
  <2>1. /\ tbStage' = "run" /\ \A s \in TbSlots : quiet'[s] = 0
        /\ UNCHANGED <<sensor, timeoutLen>>
        /\ \A d \in Drivers : timeLeft'[d] = IF \E s \in TbSlots : sensor[s] = d THEN timeoutLen[d] ELSE timeLeft[d]
    BY <1>2 DEF WakeConnected
  <2>2. \A d \in Drivers : InUseOf(d)' # {} => \E s \in TbSlots : sensor'[s] = d
    BY DEF InUseOf, TInv, TrackballTypeOK
  <2> QED
    BY <2>1, <2>2, TimersAnew
<1>3. ASSUME NEW n \in Lengths, PostInit(n) PROVE FreshAtStart' /\ TimerFollows'
  <2>1. \A s \in TbSlots : quiet'[s] = 0
    BY <1>3 DEF PostInit, FreshAtStart
  <2> QED
    BY <1>3, <2>1, TimersAnew DEF PostInit, ApplyTimeout
<1>4. ASSUME NEW n \in Lengths, SetTimeout(n) PROVE FreshAtStart' /\ TimerFollows'
  BY <1>4, TimersAnew DEF SetTimeout, ApplyTimeout
<1>5. ASSUME NEW moved \in SUBSET TbSlots, GetReport(moved) PROVE FreshAtStart' /\ TimerFollows'
  BY <1>5, ReportTimers
<1>6. CASE (\E s \in TbSlots, new \in Wanted : SetTb(s, new)) \/ ResetTb \/ UNCHANGED tbVars
  BY <1>6, TimersAlone DEF SetTb, ResetTb, drivers, tbVars
<1>7. CASE TrackballTick
  <2>1. /\ tbStage = "run" /\ tbStage' = "run" /\ UNCHANGED <<linked, down, timeoutLen>>
        /\ \A d \in Drivers : timeLeft'[d] = IF timeLeft[d] > 0 THEN timeLeft[d] - 1 ELSE 0
        /\ \A s \in TbSlots : quiet'[s] = IF quiet[s] < MaxLength THEN quiet[s] + 1 ELSE quiet[s]
    BY <1>7 DEF TrackballTick
  <2>2. ASSUME NEW d \in Drivers, timeoutLen[d] > 0, InUseOf(d) # {}
        PROVE  LeftOfIdle(timeLeft'[d], timeoutLen[d], quiet', InUseOf(d))
    <3>1. LeftOfIdle(timeLeft[d], timeoutLen[d], quiet, InUseOf(d))
      BY <2>1, <2>2 DEF TimerFollows
    <3>2. /\ InUseOf(d) \in SUBSET TbSlots /\ timeoutLen[d] \in Lengths /\ timeLeft[d] \in Nat
          /\ quiet \in [TbSlots -> Nat]
      BY DEF TInv, TrackballTypeOK, InUseOf
    <3> QED
      BY <2>1, <3>1, <3>2, TickIsLeft
  <2> QED
    BY <2>1, <2>2 DEF FreshAtStart, TimerFollows, InUseOf
<1> QED
  BY <1>1, <1>2, <1>3, <1>4, <1>5, <1>6, <1>7 DEF TrackballNext

LEMMA TimersAlways == TrackballSpec => [](TInv /\ FreshAtStart /\ TimerFollows)
  BY TAlways, TimerInit, TimerStep, PTL DEF TrackballSpec

\* A driver's timer has run out exactly if each of its sensors in use has been
\* idle for the whole length, however often motion, keys and the host restart it.
THEOREM DueExactly == TrackballSpec => []DueWhenIdle
<1>1. TInv /\ TimerFollows => DueWhenIdle
  <2> SUFFICES ASSUME TInv, TimerFollows, tbStage = "run", NEW d \in Drivers,
                      timeoutLen[d] > 0, linked[d] \ down[d] # {}
               PROVE  timeLeft[d] = 0 <=> IdleFor(d, quiet)
    BY DEF DueWhenIdle
  <2>1. LeftOfIdle(timeLeft[d], timeoutLen[d], quiet, linked[d] \ down[d])
    BY DEF TimerFollows, InUseOf
  <2>2. /\ timeLeft[d] \in Nat /\ timeoutLen[d] \in Nat
        /\ \A s \in linked[d] \ down[d] : quiet[s] \in Nat
    BY TrackballAssumption DEF TInv, TrackballTypeOK
  <2> QED
    BY <2>1, <2>2 DEF LeftOfIdle, IdleFor
<1> QED
  BY <1>1, TimersAlways, PTL

\* A pass puts a sensor to sleep only if all of its driver were idle for the whole
\* timeout, and never with the timeout "never".
THEOREM SleepIsEarned == TrackballSpec => SleepsWhenIdle
<1>1. ASSUME TInv, TimerFollows, [TrackballNext]_tbVars, tbStage = "run",
             NEW d \in Drivers, (linked[d] \cap down'[d]) \ down[d] # {}
      PROVE  timeoutLen[d] > 0 /\ IdleFor(d, quiet')
  <2>1. ~ \E answers \in Answers : WakeConnected(answers)
    BY <1>1 DEF WakeConnected, TInv, TrackballTypeOK
  <2>2. ~ \E answers \in Answers : DriverInit(answers)
    BY <1>1 DEF DriverInit
  <2>3. PICK moved \in SUBSET TbSlots : GetReport(moved)
    BY <1>1, <2>1, <2>2 DEF TrackballNext, PostInit, SetTimeout, SetTb, ResetTb, TrackballTick, drivers, tbVars
  <2>4. timeoutLen[d] # 0 /\ Refreshed(moved, d) = 0
    BY <1>1, <2>3 DEF GetReport, SetFlags
  <2>5. /\ timeoutLen[d] \in Nat /\ timeLeft[d] \in Nat
        /\ \A s \in linked[d] : sensor[s] = d /\ s \in TbSlots /\ quiet[s] \in Nat
    BY <1>1, TrackballAssumption DEF TInv, TrackballTypeOK
  <2>6. timeLeft[d] = 0 /\ \A s \in moved : sensor[s] # d
    BY <2>4 DEF Refreshed
  <2>7. \A s \in linked[d] : quiet'[s] = quiet[s]
    BY <2>3, <2>5, <2>6 DEF GetReport
  <2>8. LeftOfIdle(0, timeoutLen[d], quiet, InUseOf(d))
    <3>1. timeoutLen[d] > 0 /\ InUseOf(d) # {}
      BY <1>1, <2>4, <2>5 DEF InUseOf
    <3> QED
      BY <1>1, <2>6, <3>1, Zenon DEF TimerFollows
  <2>9. \A s \in InUseOf(d) : quiet'[s] >= timeoutLen[d]
    BY <2>5, <2>7, <2>8 DEF LeftOfIdle, InUseOf
  <2> QED
    BY <2>4, <2>5, <2>9 DEF IdleFor, InUseOf
<1>2. TInv /\ TimerFollows /\ [TrackballNext]_tbVars
        => [tbStage = "run" => \A d \in Drivers : (linked[d] \cap down'[d]) \ down[d] # {} =>
             timeoutLen[d] > 0 /\ IdleFor(d, quiet')]_tbVars
  BY <1>1
<1> QED
  BY <1>2, TimersAlways, PTL DEF TrackballSpec, SleepsWhenIdle

(***************************************************************************)
(* Scrolling with the balls.                                               *)
(***************************************************************************)

\* What the history "exact" stands for.
ExactSpeeds == exact => \A b \in Balls : dragSpeed[b] = 3

DInv == DragTypeOK /\ NoMotionLost /\ ExactSpeeds

\* What one slot may move, and what may then be collected.
Strokes   == -2896 .. 2896
Collected == -2927 .. 2927

\* The low byte is the number itself when that fits, and a number in any case.
LEMMA Int8Facts == \A n \in Int : Int8(n) \in Int /\ (n \in -128 .. 127 => Int8(n) = n)
BY DEF Int8

\* What is collected with the longest stroke of a ball fits the byte.
LEMMA TruncatedFacts ==
  ASSUME NEW acc \in Collected
  PROVE  /\ Truncated(acc, Divisor) \in -128 .. 127
         /\ acc - Divisor * Truncated(acc, Divisor) \in 1 - Divisor .. Divisor - 1
<1>1. CASE acc >= 0
  BY <1>1 DEF Truncated, Divisor, Collected
<1>2. CASE ~(acc >= 0)
  BY <1>2 DEF Truncated, Divisor, Collected
<1> QED
  BY <1>1, <1>2

\* Less than a unit is left, and at the default speed the steps are the units that
\* are taken off.
LEMMA LeftOverFacts ==
  ASSUME NEW acc \in Collected
  PROVE  /\ LeftOver(acc) \in 1 - Divisor .. Divisor - 1
         /\ LeftOver(acc) = acc - Divisor * WheelSteps(acc, 3)
<1> DEFINE units == Truncated(acc, Divisor)
<1>1. units \in Int /\ Int8(units) = units /\ acc - Divisor * units \in 1 - Divisor .. Divisor - 1
  <2>1. units \in -128 .. 127 /\ acc - Divisor * units \in 1 - Divisor .. Divisor - 1
    BY TruncatedFacts, Zenon
  <2> HIDE DEF units
  <2> QED
    BY <2>1, Int8Facts
<1>2. Truncated(acc * (3 + 1), 4 * Divisor) = units
  BY DEF Truncated, Divisor, Collected
<1> HIDE DEF units
<1> QED
  BY <1>1, <1>2 DEF LeftOver, WheelSteps, units

\* At a slow speed a step takes a whole unit, more than was left over before; one
\* step faster more than a unit must have been moved.
LEMMA ForwardSteps ==
  ASSUME NEW rest \in 1 - Divisor .. Divisor - 1, NEW x \in Strokes, NEW speed \in 0 .. 4,
         speed = 4 => x > Divisor \/ x < -Divisor
  PROVE  WheelSteps(rest + x, speed) \in Int /\ Forward(x, WheelSteps(rest + x, speed))
<1> DEFINE acc   == rest + x
           steps == Truncated(acc * (speed + 1), 4 * Divisor)
<1>1. acc \in Int
  BY DEF Divisor, Strokes
<1>2. steps \in -128 .. 127 /\ Forward(x, steps)
  <2>1. CASE speed = 0
    BY <1>1, <2>1 DEF Truncated, Divisor, Forward, Strokes
  <2>2. CASE speed = 1
    BY <1>1, <2>2 DEF Truncated, Divisor, Forward, Strokes
  <2>3. CASE speed = 2
    BY <1>1, <2>3 DEF Truncated, Divisor, Forward, Strokes
  <2>4. CASE speed = 3
    BY <1>1, <2>4 DEF Truncated, Divisor, Forward, Strokes
  <2>5. CASE speed = 4
    BY <1>1, <2>5 DEF Truncated, Divisor, Forward, Strokes
  <2> QED
    BY <2>1, <2>2, <2>3, <2>4, <2>5
<1>3. WheelSteps(acc, speed) = Int8(steps)
  BY DEF WheelSteps
<1> HIDE DEF steps
<1>4. Int8(steps) = steps /\ steps \in Int
  BY <1>2, Int8Facts
<1> QED
  BY <1>2, <1>3, <1>4

LEMMA StepsAreInt ==
  ASSUME NEW acc \in Int, NEW speed \in 0 .. 15
  PROVE  WheelSteps(acc, speed) \in Int
<1> DEFINE n == Truncated(acc * (speed + 1), 4 * Divisor)
<1>1. acc * (speed + 1) \in Int /\ -(acc * (speed + 1)) \in Int
  OBVIOUS
<1>2. n \in Int
  BY <1>1 DEF Truncated, Divisor
<1>3. WheelSteps(acc, speed) = Int8(n)
  BY DEF WheelSteps
<1> HIDE DEF n
<1> QED
  BY <1>2, <1>3, Int8Facts

LEMMA MotionsAreShort == Motions \subseteq Strokes
<1>1. \A x \in Strides : x \in -2896 .. 2896 /\ -x \in -2896 .. 2896
  BY DragAssumption DEF LongestStride
<1> QED
  BY <1>1 DEF Motions, Strokes

LEMMA DInit == DragInit => DInv
<1> SUFFICES ASSUME DragInit PROVE DInv
  OBVIOUS
<1>1. exact \in BOOLEAN /\ scrolling \in BOOLEAN
  BY Zenon DEF DragInit
<1>2. 1 \in Balls /\ 0 \in 1 - Divisor .. Divisor - 1
  BY DragAssumption DEF Balls, Divisor
<1> QED
  BY <1>1, <1>2 DEF DragInit, DInv, DragTypeOK, NoMotionLost, ExactSpeeds

LEMMA ReadStep ==
  ASSUME DInv, NEW x \in Motions, ReadBall(x)
  PROVE  DInv'
<1> DEFINE acc   == dragAcc + x
           steps == WheelSteps(acc, dragSpeed[ball])
<1>0. ball \in Balls /\ dragSpeed \in [Balls -> Speeds] /\ Speeds \subseteq 0 .. 15
  BY DragAssumption DEF DInv, DragTypeOK
<1>1. /\ acc \in Int /\ acc \in Collected /\ x \in Int /\ dragAcc \in Int /\ owed \in Int
      /\ ball \in Balls /\ dragSpeed[ball] \in 0 .. 15
  <2>1. x \in Strokes /\ x \in Int
    BY MotionsAreShort DEF Strokes
  <2>2. dragSpeed[ball] \in 0 .. 15
    BY <1>0
  <2>3. dragAcc \in -31 .. 31 /\ owed \in Int
    BY DEF DInv, DragTypeOK, Divisor
  <2>4. acc \in Collected /\ acc \in Int
    BY <2>1, <2>3 DEF Strokes, Collected
  <2> QED
    BY <1>0, <2>1, <2>2, <2>3, <2>4
<1>2. steps \in Int
  BY <1>1, StepsAreInt
<1>3. ball' \in Balls
  BY <1>1, DragAssumption DEF ReadBall, Balls
<1>4. UNCHANGED <<scrolling, dragSpeed, dragInvert, exact>>
  BY DEF ReadBall
<1>5. CASE scrolling
  <2>1. /\ wheel' = (IF dragInvert[ball] THEN -steps ELSE steps)
        /\ dragAcc' = LeftOver(acc)
        /\ owed' = (IF exact THEN owed + x - Divisor * steps ELSE 0)
    BY <1>5 DEF ReadBall
  <2>2. wheel' \in Int /\ owed' \in Int
    BY <1>1, <1>2, <2>1 DEF Divisor
  <2>3. dragAcc' \in 1 - Divisor .. Divisor - 1
    BY <1>1, <2>1, LeftOverFacts
  <2>4. ASSUME exact PROVE owed' = dragAcc'
    <3>1. dragSpeed[ball] = 3 /\ owed = dragAcc
      BY <1>1, <2>4 DEF DInv, ExactSpeeds, NoMotionLost
    <3>2. LeftOver(acc) = acc - Divisor * steps
      BY <1>1, <3>1, LeftOverFacts
    <3> HIDE DEF steps
    <3> QED
      BY <1>1, <1>2, <2>1, <2>4, <3>1, <3>2 DEF Divisor
  <2> QED
    BY <1>3, <1>4, <2>2, <2>3, <2>4 DEF DInv, DragTypeOK, NoMotionLost, ExactSpeeds
<1>6. CASE ~scrolling
  BY <1>3, <1>4, <1>6 DEF ReadBall, DInv, DragTypeOK, NoMotionLost, ExactSpeeds
<1> QED
  BY <1>5, <1>6

LEMMA DStep == DInv /\ [DragNext]_dragVars => DInv'
<1> SUFFICES ASSUME DInv, [DragNext]_dragVars PROVE DInv'
  OBVIOUS
<1>1. CASE \E x \in Motions : ReadBall(x)
  BY <1>1, ReadStep
<1>2. CASE DragKey
  <2>1. scrolling' \in BOOLEAN
    BY <1>2, Zenon DEF DragKey
  <2> QED
    BY <1>2, <2>1 DEF DragKey, DInv, DragTypeOK, NoMotionLost, ExactSpeeds
<1>3. ASSUME NEW b \in Balls, NEW speed \in Speeds, NEW invert \in BOOLEAN, SetDrag(b, speed, invert)
      PROVE  DInv'
  <2>1. exact' \in BOOLEAN /\ (exact' => \A c \in Balls : dragSpeed'[c] = 3)
    BY <1>3, Zenon DEF SetDrag
  <2>2. dragSpeed' \in [Balls -> Speeds] /\ dragInvert' \in [Balls -> BOOLEAN]
    BY <1>3 DEF SetDrag, DInv, DragTypeOK
  <2>3. dragAcc' = 0 /\ owed' = 0 /\ 0 \in 1 - Divisor .. Divisor - 1 /\ UNCHANGED <<scrolling, ball, wheel>>
    BY <1>3 DEF SetDrag, Divisor
  <2> QED
    BY <2>1, <2>2, <2>3 DEF DInv, DragTypeOK, NoMotionLost, ExactSpeeds
<1>4. CASE ResetDrag
  <2>1. dragSpeed' \in [Balls -> Speeds] /\ dragInvert' \in [Balls -> BOOLEAN]
        /\ \A b \in Balls : dragSpeed'[b] = 3
    BY <1>4, DragAssumption DEF ResetDrag
  <2>2. UNCHANGED <<scrolling, dragAcc, ball, wheel, exact, owed>>
    BY <1>4 DEF ResetDrag
  <2> QED
    BY <2>1, <2>2 DEF DInv, DragTypeOK, NoMotionLost, ExactSpeeds
<1>5. CASE UNCHANGED dragVars
  BY <1>5 DEF dragVars, DInv, DragTypeOK, NoMotionLost, ExactSpeeds
<1> QED
  BY <1>1, <1>2, <1>3, <1>4, <1>5 DEF DragNext

LEMMA DAlways == DragSpec => []DInv
  BY DInit, DStep, PTL DEF DragSpec

\* Every variable keeps its type; less than a unit is ever left over.
THEOREM DragTypes == DragSpec => []DragTypeOK
  BY DAlways, PTL DEF DInv

\* A wheel at rest is at rest the other way round.
LEMMA AtMostNothing == \A w \in Int : w >= 0 /\ w <= 0 => -w \in Int /\ -w >= 0 /\ -w <= 0
OBVIOUS

LEMMA OnlyNothing == \A w \in Int : w >= 0 /\ w <= 0 => w = 0
OBVIOUS

\* The wheel turns the way its steps go, whichever way round it is.
LEMMA WheelTurns ==
  ASSUME DInv, NEW x \in Motions, ReadBall(x), dragSpeed[ball] <= 4,
         dragSpeed[ball] = 4 => x > Divisor \/ x < -Divisor
  PROVE  Forward(x, Turns(ball))
<1>0. ball \in Balls /\ dragSpeed \in [Balls -> Speeds] /\ Speeds \subseteq 0 .. 15
  BY DragAssumption DEF DInv, DragTypeOK
<1>1. x \in Strokes /\ dragAcc \in 1 - Divisor .. Divisor - 1 /\ dragSpeed[ball] \in 0 .. 4
  <2>1. x \in Strokes
    BY MotionsAreShort
  <2>2. dragSpeed[ball] \in 0 .. 4
    <3>1. dragSpeed[ball] \in 0 .. 15
      BY <1>0
    <3>2. \A k \in 0 .. 15 : k <= 4 => k \in 0 .. 4
      OBVIOUS
    <3> QED
      BY <3>1, <3>2, Zenon
  <2> QED
    BY <2>1, <2>2 DEF DInv, DragTypeOK
<1> DEFINE steps == WheelSteps(dragAcc + x, dragSpeed[ball])
<1>2. steps \in Int /\ Forward(x, steps)
  BY <1>1, ForwardSteps
<1>3. CASE scrolling
  <2>1. wheel' = (IF dragInvert[ball] THEN -steps ELSE steps)
    BY <1>3 DEF ReadBall
  <2>2. (IF dragInvert[ball] THEN -wheel' ELSE wheel') = steps
    <3> HIDE DEF steps
    <3> QED
      BY <1>2, <2>1
  <2> QED
    BY <1>2, <2>2, Zenon DEF Turns
<1>4. CASE ~scrolling
  <2>1. wheel' = 0
    BY <1>4 DEF ReadBall
  <2>2. (IF dragInvert[ball] THEN -wheel' ELSE wheel') = 0
    <3>1. 0 \in Int /\ 0 >= 0 /\ 0 <= 0
      OBVIOUS
    <3>2. -wheel' \in Int /\ -wheel' >= 0 /\ -wheel' <= 0
      BY <2>1, <3>1, AtMostNothing, Zenon
    <3>3. -wheel' = 0
      BY <3>2, OnlyNothing, Zenon
    <3> QED
      BY <2>1, <3>3, Zenon
  <2> QED
    BY <2>2 DEF Forward, Turns
<1> QED
  BY <1>3, <1>4

LEMMA SlowerThanFour ==
  DInv /\ dragSpeed[ball] <= 3 => dragSpeed[ball] <= 4 /\ dragSpeed[ball] # 4
<1>1. DInv => dragSpeed[ball] \in 0 .. 15
  BY DragAssumption DEF DInv, DragTypeOK
<1> QED
  BY <1>1

\* Up to the default speed the wheel turns the way the ball turns, however far the
\* ball moved in the twelve bits of its sensor.
THEOREM SlowFollows == DragSpec => SlowWheelFollowsBall
<1>1. DInv /\ [DragNext]_dragVars
        => [\A x \in Motions : ReadBall(x) /\ dragSpeed[ball] <= 3 => Forward(x, Turns(ball))]_dragVars
  BY WheelTurns, SlowerThanFour
<1> QED
  BY <1>1, DAlways, PTL DEF DragSpec, SlowWheelFollowsBall

\* A stroke of more than a unit does so one step faster, as a byte holds its steps.
THEOREM StrokesFollow == DragSpec => StrokeScrollsItsWay
<1>1. DInv /\ [DragNext]_dragVars
        => [\A x \in Motions : ReadBall(x) /\ dragSpeed[ball] <= 4 /\ (x > Divisor \/ x < -Divisor)
              => Forward(x, Turns(ball))]_dragVars
  BY WheelTurns
<1> QED
  BY <1>1, DAlways, PTL DEF DragSpec, StrokeScrollsItsWay

\* And no motion is lost or doubled at the default speed.
THEOREM ScrollFollows == DragSpec => ScrollFollowsBalls
<1>1. DInv => NoMotionLost /\ LittleIsOwed
  BY DEF DInv, DragTypeOK, NoMotionLost, LittleIsOwed
<1> QED
  BY <1>1, DAlways, SlowFollows, StrokesFollow, PTL DEF ScrollFollowsBalls
==============================================================================
