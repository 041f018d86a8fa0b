------------------------------- MODULE Trackball -------------------------------
(***************************************************************************)
(* The trackball sensors (trackball.c) and their two drivers               *)
(* (modular_pmw3610.c, modular_adns5050.c): the probe at the start, which  *)
(* settles what kind of sensor each pair of slots works with, the live CPI *)
(* and angle, and the timeout that puts idle sensors to sleep until a key  *)
(* is pressed.  A slot has the same pins in both drivers, and either       *)
(* driver has one timeout for all of its sensors.                          *)
(***************************************************************************)
EXTENDS Integers, FiniteSets

CONSTANTS
  TbSlots,  \* sensor slots, 0 .. TRACKBALL_SLOT_COUNT - 1
  PairOf,   \* PairOf[s]: the pair whose motion or reset pin s shares
  Wanted,   \* settings of a slot: records of cpi_step and angle
  Fallback, \* the one of them kb_config_init_defaults assigns
  Lengths   \* timeout lengths the host can set, in ticks; 0 is never

ASSUME TrackballAssumption ==
  /\ Wanted \subseteq [cpi_step : 0 .. 15, angle : 0 .. 359] /\ Fallback \in Wanted
  /\ Lengths \subseteq Nat /\ 1 \in Lengths
  /\ \E n \in Lengths : \A k \in Lengths : k <= n

Drivers == {"pmw", "adns"}
Pairs   == {PairOf[s] : s \in TbSlots}

VARIABLES
  plugged,    \* the sensor on a slot: a driver's name or "none"
  tbStage,    \* "reset", "probed" (pointing_device_driver_init is over) or "run"
  sensor,     \* trackball_sensor_type; trackball_connected is # "none"
  pinMode,    \* what the pin of a pair is set up as
  linked,     \* by driver, the slots whose connected flag is set
  down,       \* by driver, the slots whose powered_down flag is set
  cpiSetting, \* by driver and slot, cpi_setting
  angleOf,    \* by driver and slot, angle_deg or angle
  timeoutLen, \* by driver, trackball_timeout_length
  timeLeft,   \* by driver, the ticks until trackball_timeout
  tb,         \* the slots' settings, kb_config's v.tb
  chip,       \* the sensors themselves: awake or not, resolution register
  quiet,      \* history: ticks since a slot's sensor moved or all were refreshed
  stray,      \* history: times a sensor got a write meant for the other kind
  stale       \* history: slots whose settings were reset and not applied since

drivers == <<linked, down, cpiSetting, angleOf, timeoutLen, timeLeft>>
tbVars  == <<plugged, tbStage, sensor, pinMode, linked, down, cpiSetting, angleOf,
             timeoutLen, timeLeft, tb, chip, quiet, stray, stale>>

MaxLength == CHOOSE n \in Lengths : \A k \in Lengths : k <= n

(***************************************************************************)
(* Resolutions.                                                            *)
(***************************************************************************)

Clamped(x, low, high) == IF x < low THEN low ELSE IF x > high THEN high ELSE x

\* calc_cpi_by_kbconfig, calc_adns5050_cpi: the nearest step of 125.
CalcCpi(step) == Clamped((step + 1) * 200, 200, 3200)

AdnsCpi(cpi) ==
  Clamped(((Clamped(cpi, 125, 1375) + 62) \div 125) * 125, 125, 1375)

\* The resolution trackball_apply_sensor_config gives a sensor.
Effective(d, step) == IF d = "pmw" THEN CalcCpi(step) ELSE AdnsCpi(CalcCpi(step))

DefaultCpi == [d \in Drivers |-> IF d = "pmw" THEN 800 ELSE 750]

(***************************************************************************)
(* Start.                                                                  *)
(***************************************************************************)

\* The statics: only the ADNS flags say that its sensors are powered.
TrackballInit ==
  /\ plugged \in [TbSlots -> Drivers \cup {"none"}]
  /\ tbStage = "reset"
  /\ sensor = [s \in TbSlots |-> "none"]
  /\ pinMode = [p \in Pairs |-> "unset"]
  /\ linked = [d \in Drivers |-> {}]
  /\ down = [pmw |-> TbSlots, adns |-> {}]  \* init_slot sets the PMW flags first of all
  /\ cpiSetting = [d \in Drivers |-> [s \in TbSlots |-> 0]]
  /\ angleOf = [d \in Drivers |-> [s \in TbSlots |-> 0]]
  /\ timeoutLen = [d \in Drivers |-> 1]
  /\ timeLeft = [d \in Drivers |-> 0]
  /\ tb \in [TbSlots -> Wanted]
  /\ chip = [s \in TbSlots |-> [awake |-> TRUE, cpi |-> 0]]
  /\ quiet = [s \in TbSlots |-> 0]
  /\ stray = [s \in TbSlots |-> 0]
  /\ stale = {}

\* A bug to detect: the other kind is tried on every slot that is still free.
FreeSlots(pmw) == TbSlots \ pmw

\* The slots on which ADNS sensors are tried: those of pairs without any PMW.
OtherPairs(pmw) == {s \in TbSlots : \A t \in pmw : PairOf[t] # PairOf[s]}

\* The PMW sensors that give their product id.
FoundPmw(answers) == {s \in answers : plugged[s] = "pmw"}

\* A bug to detect: the product id is not compared.
AnyThing(answers, rest) == {s \in rest : plugged[s] # "none"}

\* The ADNS sensors that give their product id.
FoundAdns(answers, rest) == {s \in answers \cap rest : plugged[s] = "adns"}

\* pointing_device_driver_init with both drivers' init_slot and probe.  A sensor
\* in "answers" gives its product id when its own driver wakes it.
DriverInit(answers) ==
  LET pmw  == FoundPmw(answers)
      rest == OtherPairs(pmw)
      adns == FoundAdns(answers, rest)
  IN  /\ tbStage = "reset" /\ tbStage' = "probed"
      /\ sensor' = [s \in TbSlots |-> IF s \in adns THEN "adns" ELSE IF s \in pmw THEN "pmw" ELSE "none"]
      /\ pinMode' = [p \in Pairs |-> IF \E s \in rest : PairOf[s] = p THEN "reset" ELSE "motion"]
      /\ linked' = [pmw |-> pmw, adns |-> adns]
      /\ down' = [pmw |-> TbSlots \ pmw, adns |-> rest \ adns]
      /\ cpiSetting' = [pmw  |-> [s \in TbSlots |-> DefaultCpi["pmw"]],
                        adns |-> [s \in TbSlots |-> IF s \in rest THEN DefaultCpi["adns"] ELSE 0]]
      /\ chip' = [s \in TbSlots |-> IF s \in adns THEN [awake |-> TRUE, cpi |-> DefaultCpi["adns"]]
                                  ELSE IF s \in pmw THEN [awake |-> TRUE, cpi |-> DefaultCpi["pmw"]]
                                  ELSE chip[s]]
      /\ timeLeft' = [d \in Drivers |-> IF d = "pmw" \/ rest # {} THEN timeoutLen[d] ELSE 0]
      /\ UNCHANGED <<plugged, angleOf, timeoutLen, tb, quiet, stray, stale>>

\* A bug to detect: the register is written whether or not the sensor sleeps.
WrittenAnyway(s, new) ==
  IF sensor[s] \in Drivers THEN [chip[s] EXCEPT !.cpi = Effective(sensor[s], new[s].cpi_step)]
  ELSE chip[s]

\* set_cpi of either driver: a sleeping sensor gets the setting on waking.
RegisterOf(s, new) ==
  IF sensor[s] \in Drivers /\ s \notin down[sensor[s]]
  THEN [chip[s] EXCEPT !.cpi = Effective(sensor[s], new[s].cpi_step)]
  ELSE chip[s]

\* A bug to detect: set_cpi forgets the setting of a sleeping sensor.
SettingIfAwake(d, s, new) ==
  IF sensor[s] = d /\ s \notin down[d] THEN Effective(d, new[s].cpi_step) ELSE cpiSetting[d][s]

SettingOf(d, s, new) ==
  IF sensor[s] = d THEN Effective(d, new[s].cpi_step) ELSE cpiSetting[d][s]

\* trackball_apply_sensor_config for the slots in S.
ApplySensorConfig(S, new) ==
  /\ cpiSetting' = [d \in Drivers |-> [s \in TbSlots |->
       IF s \in S THEN SettingOf(d, s, new) ELSE cpiSetting[d][s]]]
  /\ angleOf' = [d \in Drivers |-> [s \in TbSlots |->
       IF s \in S /\ sensor[s] = d THEN new[s].angle % 360 ELSE angleOf[d][s]]]
  /\ chip' = [s \in TbSlots |-> IF s \in S THEN RegisterOf(s, new) ELSE chip[s]]
  /\ stale' = stale \ S

\* A bug to detect: a new length does not restart what is running.
LengthOnly(n) == timeoutLen' = [d \in Drivers |-> n] /\ UNCHANGED timeLeft

\* trackball_apply_timeout: both drivers start anew with the length.
ApplyTimeout(n) ==
  /\ timeoutLen' = [d \in Drivers |-> n]
  /\ timeLeft' = [d \in Drivers |-> n]

\* keyboard_post_init_kb_trackball
PostInit(n) ==
  /\ tbStage = "probed" /\ tbStage' = "run"
  /\ ApplySensorConfig(TbSlots, tb)
  /\ ApplyTimeout(n)
  /\ UNCHANGED <<plugged, sensor, pinMode, linked, down, tb, quiet, stray>>

(***************************************************************************)
(* The superloop, keys and the host.                                       *)
(***************************************************************************)

\* What power_down writes reaches the chip on the slot's pins, whatever it is.
PowerDown(hit) ==
  /\ chip' = [s \in TbSlots |-> IF \E d \in Drivers : s \in hit[d] /\ plugged[s] = d
                              THEN [awake |-> FALSE, cpi |-> chip[s].cpi] ELSE chip[s]]
  /\ stray' = [s \in TbSlots |-> IF \E d \in Drivers : s \in hit[d] /\ plugged[s] \in Drivers \ {d}
                               THEN stray[s] + 1 ELSE stray[s]]

\* Bugs to detect: the flag stays clear, so that the next pass powers down again;
\* motion does not put the timeout off.
KeepFlags(expired) == UNCHANGED down
NotRefreshed(moved, d) == timeLeft[d]

\* check_timeout with power_down_all.
SetFlags(expired) == down' = [d \in Drivers |-> IF d \in expired THEN TbSlots ELSE down[d]]

\* The sensors get_report of a driver reads, each believed connected and awake.
InUse(s) == sensor[s] \in Drivers /\ s \in linked[sensor[s]] \ down[sensor[s]]

\* The timeout of d after the sensors in "moved" were read.
Refreshed(moved, d) == IF \E s \in moved : sensor[s] = d THEN timeoutLen[d] ELSE timeLeft[d]

\* pointing_device_driver_get_report: only sensors in use are read, those that
\* report motion refresh their driver's timeout, then both timeouts are checked.
GetReport(moved) ==
  LET after   == [d \in Drivers |-> Refreshed(moved, d)]
      expired == {d \in Drivers : timeoutLen[d] # 0 /\ after[d] = 0}
      hit     == [d \in Drivers |-> IF d \in expired THEN TbSlots \ down[d] ELSE {}]
  IN  /\ tbStage = "run"
      /\ \A s \in moved : InUse(s)
      /\ timeLeft' = after
      /\ SetFlags(expired)
      /\ PowerDown(hit)
      /\ quiet' = [s \in TbSlots |-> IF s \in moved THEN 0 ELSE quiet[s]]
      /\ UNCHANGED <<plugged, tbStage, sensor, pinMode, linked, cpiSetting, angleOf, timeoutLen, tb,
                     stale>>

\* trackball_wake_connected, first of all when a key is pressed or released.  A
\* sensor that does not give its product id is lost.
WakeConnected(answers) ==
  LET asked == [d \in Drivers |-> {s \in linked[d] \cap down[d] : sensor[s] = d}]
  IN  /\ tbStage = "run"
      /\ linked' = [d \in Drivers |-> linked[d] \ (asked[d] \ answers)]
      /\ down' = [d \in Drivers |-> down[d] \ (asked[d] \cap answers)]
      /\ timeLeft' = [d \in Drivers |-> IF \E s \in TbSlots : sensor[s] = d THEN timeoutLen[d] ELSE timeLeft[d]]
      /\ chip' = [s \in TbSlots |-> IF sensor[s] \in Drivers /\ s \in asked[sensor[s]] \cap answers
                                  THEN [awake |-> TRUE, cpi |-> cpiSetting[sensor[s]][s]]
                                  ELSE chip[s]]
      /\ quiet' = [s \in TbSlots |-> 0]
      /\ UNCHANGED <<plugged, tbStage, sensor, pinMode, cpiSetting, angleOf, timeoutLen, tb, stray,
                     stale>>

\* trackball_get_connected_flags, for the host: what the probe found.
Reported(s) == sensor[s] \in Drivers

\* The host's parameters of one trackball, with apply_trackball_sensor_side_effect.
SetTb(s, new) ==
  /\ tbStage = "run"
  /\ tb' = [tb EXCEPT ![s] = new]
  /\ ApplySensorConfig({s}, tb')
  /\ UNCHANGED <<plugged, tbStage, sensor, pinMode, linked, down, timeoutLen, timeLeft, quiet, stray>>

\* The host's command reset_all_params, which applies nothing.
ResetTb ==
  /\ tbStage = "run"
  /\ tb' = [s \in TbSlots |-> Fallback] /\ stale' = TbSlots
  /\ UNCHANGED <<plugged, tbStage, sensor, pinMode, drivers, chip, quiet, stray>>

\* The host's parameter trackball_timeout.
SetTimeout(n) ==
  /\ tbStage = "run"
  /\ ApplyTimeout(n)
  /\ quiet' = [s \in TbSlots |-> 0]
  /\ UNCHANGED <<plugged, tbStage, sensor, pinMode, linked, down, cpiSetting, angleOf, tb, chip, stray,
                 stale>>

\* Time passes; the history counts up to the longest timeout.
TrackballTick ==
  /\ tbStage = "run"
  /\ timeLeft' = [d \in Drivers |-> IF timeLeft[d] > 0 THEN timeLeft[d] - 1 ELSE 0]
  /\ quiet' = [s \in TbSlots |-> IF quiet[s] < MaxLength THEN quiet[s] + 1 ELSE quiet[s]]
  /\ UNCHANGED <<plugged, tbStage, sensor, pinMode, linked, down, cpiSetting, angleOf,
                 timeoutLen, tb, chip, stray, stale>>

\* The sensors whose product id comes through on the slot's three wires, each bit
\* clocked by hand.  bound: at most one does not at a time
Answers == {answers \in SUBSET TbSlots : Cardinality(TbSlots \ answers) <= 1}

TrackballNext ==
  \/ \E answers \in Answers : DriverInit(answers) \/ WakeConnected(answers)
  \/ \E n \in Lengths : PostInit(n) \/ SetTimeout(n)
  \/ \E moved \in SUBSET TbSlots : GetReport(moved)
  \/ \E s \in TbSlots, new \in Wanted : SetTb(s, new)
  \/ ResetTb
  \/ TrackballTick

TrackballSpec == TrackballInit /\ [][TrackballNext]_tbVars

(***************************************************************************)
(* Properties.                                                             *)
(***************************************************************************)

\* Every variable has its type, and what a driver has connected is of its kind.
TrackballTypeOK ==
  /\ plugged \in [TbSlots -> Drivers \cup {"none"}]
  /\ tbStage \in {"reset", "probed", "run"}
  /\ sensor \in [TbSlots -> Drivers \cup {"none"}]
  /\ pinMode \in [Pairs -> {"unset", "motion", "reset"}]
  /\ linked \in [Drivers -> SUBSET TbSlots] /\ down \in [Drivers -> SUBSET TbSlots]
  /\ cpiSetting \in [Drivers -> [TbSlots -> Nat]] /\ angleOf \in [Drivers -> [TbSlots -> 0 .. 359]]
  /\ timeoutLen \in [Drivers -> Lengths] /\ timeLeft \in [Drivers -> Nat]
  /\ tb \in [TbSlots -> Wanted] /\ chip \in [TbSlots -> [awake : BOOLEAN, cpi : Nat]]
  /\ quiet \in [TbSlots -> Nat] /\ stray \in [TbSlots -> Nat] /\ stale \subseteq TbSlots
  /\ \A s \in TbSlots : sensor[s] \in {"none", plugged[s]}
  /\ \A d \in Drivers : \A s \in linked[d] : sensor[s] = d

\* Two sensors in use never disagree about the pin they share: it is the motion
\* input of one kind and the reset output of the other (trackball_probe_pair).
PinServesPair ==
  \A s \in TbSlots : /\ sensor[s] = "pmw"  => pinMode[PairOf[s]] = "motion"
                     /\ sensor[s] = "adns" => pinMode[PairOf[s]] = "reset"

\* A sensor in use works with the settings of its slot, also when they were
\* changed while it slept, its resolution within half a step of what was asked,
\* until reset_all_params changes them behind its back; and a sensor the driver
\* believes in use is awake.
Near(cpi, asked) == (cpi < asked + 63 /\ asked < cpi + 63) \/ (asked > 1375 /\ cpi = 1375)
AwakeAsConfigured ==
  tbStage = "run" => \A s \in TbSlots : InUse(s) =>
    /\ chip[s].awake
    /\ s \notin stale =>
         /\ angleOf[sensor[s]][s] = tb[s].angle
         /\ IF sensor[s] = "pmw" THEN chip[s].cpi = CalcCpi(tb[s].cpi_step)
            ELSE Near(chip[s].cpi, CalcCpi(tb[s].cpi_step))

\* A pass puts a sensor to sleep only when every sensor of its kind has been idle
\* for the whole timeout, and never with the timeout "never", although sensors
\* share a timer and the host changes its length at any time.
IdleFor(d, idle) == \A s \in linked[d] \ down[d] : idle[s] >= timeoutLen[d]
SleepsWhenIdle ==
  [][tbStage = "run" => \A d \in Drivers : (linked[d] \cap down'[d]) \ down[d] # {} =>
       timeoutLen[d] > 0 /\ IdleFor(d, quiet')]_tbVars

\* And the timer has run out at any time exactly if they have been, so that the
\* pass does not miss it: motion, a key and a change of the length restart it, and
\* nothing else does.
DueWhenIdle ==
  tbStage = "run" => \A d \in Drivers : timeoutLen[d] > 0 /\ linked[d] \ down[d] # {} =>
    (timeLeft[d] = 0 <=> IdleFor(d, quiet))

\* A sensor whose product id was misread on one wake-up is lost: still reported
\* to the host as connected, it is neither used nor configured nor woken again, so
\* that its driver leaves the chip as it is.
Lost(s) == Reported(s) /\ s \notin linked[sensor[s]]
LostIsLeftAlone ==
  [][\A s \in TbSlots : tbStage = "run" /\ Lost(s) => Lost(s)' /\ chip'[s] = chip[s]]_tbVars

\* The ADNS driver starts with every slot marked as powered and is not told of
\* pairs with PMW sensors, so that its timeout writes a power-down to them.  That
\* happens once at most, and after the probe no other write goes to a wrong sensor.
StrayWriteOnce ==
  \A s \in TbSlots : stray[s] > 0 =>
    stray[s] = 1 /\ pinMode[PairOf[s]] = "motion" /\ plugged[s] = "pmw" /\ s \in down["adns"]

\* On its wires each sensor gets what is meant for it: the shared pin has its mode,
\* the other driver writes to it at most the one stray power-down, and its own
\* driver neither uses nor configures nor wakes it once it was lost.  The stray
\* power-down may still reach a PMW sensor that was lost.
WiresServeSensors == [](PinServesPair /\ StrayWriteOnce) /\ LostIsLeftAlone
================================================================================
