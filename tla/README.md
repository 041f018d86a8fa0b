# The cue2keys v2 firmware in TLA+

This directory specifies the firmware of the cue2keys v2 keyboard: QMK keyboard
code in C that drives a set of modules (keys, magnetic keys, rotary encoders, a
display) which users plug into four connectors while the keyboard runs, and up
to four trackball sensors that are wired to it. TLC
checks the specifications on small instances, and TLAPS proves the properties
that matter most for every value of the constants.

Paths such as `cue2keys.c:303` are paths below `src/`.

## 1. The system

The firmware is one superloop without threads or interrupts of its own. A turn
reads the matrix row by row, polls the trackballs and encoders, draws the
display, serves the host's HID commands and runs deferred callbacks. What makes
it hard is not threads but its environment: every I2C transaction can fail,
modules come and go between any two transactions, the multiplexer can lose
power and with it its selection, the host changes settings and addresses at any
time, and power can go in the middle of a write.

| Component | State | Operations | Hard behaviour | What makes it correct |
|---|---|---|---|---|
| Module scanner `device_scanner.c` | `deviceList`, `nDevices` | `do_scan`, identification, sorting, `keymapShift`, `update_v2_address` | a scan fails halfway; the bus changes while it runs; it is called from the middle of a matrix row | an undisturbed scan lists exactly what is plugged in, where it is; addresses stay apart; matrix places do not overlap |
| I2C library `i2clib.c` | `last_channel` | `change_channel`, register reads and writes | the cached selection and the real one differ after a failed write | no module is read through the wrong channel |
| Matrix pass `cue2keys.c` | `current_matrix`, `consecutive_errors`, `encoder_data` | `matrix_read_cols_on_row`, `handle_i2c_read_result` | a read error replaces the list under the loop's feet | keys of a pulled module come up; a dead module is dropped; the loop goes on |
| Magnetic keys `magkey_utils.c` | last values, pressed, anchor per list index | `magkey_update_pressed`, `magkey_reset_cached_values` | history of the finger under settings, resolution and modules that change | rapid trigger turns exactly at delta, no phantom key, no stuck key |
| Configuration `kb_config.c` | settings, dirty flags, save timer | update, reset, load, deferred save | changes while a save waits; power cuts | no change is lost, nothing foreign is stored |
| EEPROM update `eeprom_driver.c` | the EEPROM | `eeprom_update_block` | last chunk, power cut inside a block | exact, terminating, at most one chunk torn |
| Encoders `encoder.c`, `drivers/encoder_dynamic_res.c` | `encoder_data`, quadrature state, pulses | lookup by index, decoding | lookup order against fill order, lost samples that read as 0 | an index means the same encoder everywhere; no quarter step is lost or invented |
| Trackballs `trackball.c`, `drivers/modular_*.c` | sensor kind per slot, connected and powered-down flags, two timeouts, accumulators | probe of pairs, reports, sleep and wake, drag scrolling | pins shared in pairs, a timer shared by all sensors of a kind, settings that change during sleep, misread product ids | pins serve the sensor in use, sensors sleep exactly when all are idle, a sensor in use is as configured, scrolling loses no motion at its default speed |
| Host commands `raw_hid_handler_via.c` | the accessor table, static reply buffer | set, get, save, reset, scan, readdress, multipart device list | limits, bit-field widths and side effects in three files; two paths to what is in force | what is written is what is read, stored and in force; replies are whole |
| Display `display.c` | page, last input, buffer | draws, selects its own channel, looks up modules | shares the multiplexer with the pass; scrolling stops rendering, and the command that ends it can fail; pages write only some lines | the pass does not notice it; only the logo scrolls, nothing of another page is left, the gauge tells the truth |
| Pendant LED `pendant_led.c` | mode, scan index and time | mode change, refresh | a timer that wraps, rounds of the loop longer than the period | the scan goes round at its pace from any moment |

The components interact through direct calls and shared globals: `do_scan` is
called at boot, by the host commands and from `handle_i2c_read_result` in the
middle of a row; `deviceList` is read by the pass, the encoder lookup, the
display and the host commands; `last_channel` is shared by all users of the
bus; the settings are read by the pass (magnetic keys, rescan option) and
written by the host commands and the boot.

The hazards found while reading, each with its line and the properties that
watch it, are in `PROJECT.json`.

## 2. Modules

| Module | Models | Extends / uses |
|---|---|---|
| `ModuleBus` | scan, channel cache, matrix pass, error counting, encoder storage, display and host access, environment | – |
| `MCModuleBus` | instances of it for TLC | `ModuleBus` |
| `BusErrors`, `MCBusErrors` | `ModuleBus` with a history of each device's reads | `ModuleBus` |
| `MCEncoderMix` | two encoders of different generations | `ModuleBus` |
| `ModuleBusProofs` | theorems about `ModuleBus` | `ModuleBus` |
| `KeymapLayout` | the end of a scan: sorting the list and placing the modules in the matrix | – |
| `MCKeymapLayout` | its instance | `KeymapLayout` |
| `KeymapLayoutProofs` | theorems about it and about the users of the list | `ListUsers` |
| `MagKey`, `MagKeyProofs` | one magnetic key with its settings, scans and the pass that reads it, and its theorems | – |
| `ConfigStore` | what the configuration promises, abstractly | – |
| `KbConfig` | settings, flags, timer, save, boot, power cuts; implements `ConfigStore` | `ConfigStore` |
| `MCKbConfig`, `KbConfigProofs` | its instance and its theorems | `KbConfig` |
| `EepromUpdate`, `EepromUpdateProofs` | one call of `eeprom_update_block`, and its theorems | – |
| `Trackball` | probe, sleep, waking and configuration of the sensors | – |
| `Encoder`, `EncoderProofs` | the quadrature decoder of one encoder, and its theorems | – |
| `DragScroll` | scrolling with the trackballs | – |
| `TrackballProofs` | theorems about both | `Trackball`, `DragScroll` |
| `HostParams` | the parameters by number: limits, bit-fields, side effects, starts | – |
| `ListUsers` | the bits of the modules in the matrix, and the lookups in the list | `KeymapLayout` |
| `ListReply` | the device list in several parts | – |
| `PendantLed` | the LEDs | – |
| `DisplayPages` | the pages of the display and the gauge | – |
| `MCPeripherals` | one instance of these eight | all eight |
| `PeripheralsProofs` | theorems about `HostParams`, `ListReply`, `PendantLed`, `DisplayPages`, and that in `MCPeripherals` each of the eight is as it is alone | `MCPeripherals` and the proofs of the others |

A definition whose comment begins "A bug to detect" is a plausible mistake in
the operator that follows it; nothing uses it. `PROJECT.json` pairs each with
the property that catches the mistake when it takes the operator's place.

### ModuleBus

One step is one I2C transaction of the superloop, so the environment can act
between any two. The hardware is `present`, `addrOf`, `muxPower`, `muxReg`;
`Responders(a, reg)` says who answers an address. The firmware's state carries
its C names: `lastChannel`, `devices` (`deviceList`), `row`, `rowData`,
`matrix`, `encIdx`, `encoder`, and `pc` says where the superloop is. A bit of
the matrix is modelled by where it came from: a record of the slot it stands
for and of the connector (`home`) of the module that answered. That is what the
properties are about; whether the key is up or down is not.

- `ScanStart`, `ScanSelect`, `ScanProbe` are `do_scan` from its ping of the
  multiplexer over the channel switches (their results ignored, as in the code)
  to the last address; `Return` is its end and goes back to the caller (`after`).
- `BeginPass`, `SelectDevice`, `ReadDevice`, `ReadFails`, `EndRow` are
  `matrix_read_cols_on_row` for the rows in turn. `ReadFails` contains
  `handle_i2c_read_result` with the scan it may start, after which the row is
  given up.
- `OledSend`, `HostRescan`, `HostUpdateAddress` are the other users of the bus.
- `Plug`, `Unplug`, `MuxDown`, `MuxPowerUp` are the environment, and `Fault` is
  a transaction that fails although somebody would answer. A write that fails
  may have been obeyed (`SwitchFails`, `HostUpdateAddress`).

The scan meets every channel and address once and in order, so the list is a
table by slot and its order is `Before` (that `sort_device_list` arrives at this order is the subject of
`KeymapLayout`). A channel's modules fill one
row here; rows 1 to `NumCh` are the channels and the last row the encoders.
`disturbed` and `missed` are history variables: they say what happened since
the running scan began and no action reads them.

### KeymapLayout

`sort_device_list` comparison by comparison (`Compare`, `NextRound`), then
`assign_keymap_shifts` device by device (`Place`). The loop counters begin at 1.
`ScanOrder` is what is known of the list at the start: the scan has gone through
the channels and through the addresses of each. The comparison
`deviceListShouldSwap` is no order, since of two devices of one channel the one
with the higher rank is moved back, and the one with the higher address too.
`next`, `nextRE`, `prevCh` are the C variables. First generation encoders have
no place of their own, as in the code: their shift stays 0.

### MagKey

One key of one module. Readings are full resolution values, shifted by the
resolution of the settings (`\div divisor`). `Rapid` and `Plain` are the two
halves of `magkey_update_pressed`. `Rescan` gives the index of the module to
another one (anything may change, the cache is forgotten), `Configure` is a
host command, `Move` the finger. The history `extreme` is the true highest
reading since the press, or lowest since the release, which the code keeps only
through its moving anchor.

### KbConfig and ConfigStore

A cell is a piece of the configuration that reaches the EEPROM separately; the
sections are what has a dirty flag. `NoteChange`, `Schedule`, `ResetDirty` are
the functions of those names; a save is `SaveBegin`, one `WriteCell` for each
cell, `SaveEnd`, and power can go between any two. Since the firmware is
single-threaded no command runs while it saves. Two histories follow where a
value comes from: `held` has what each setting had since all was saved, and
`left` the cells of the EEPROM that this firmware has not written. Loading a
value does not add it to `held`, so that what a first initialisation cut short
leaves of former contents (the version is written before the data,
`cue2keys.c:224`) does not pass for a setting. `ConfigStore` states the
promise without flags, timer or phases; the refinement mapping takes RAM to
`live`, the EEPROM to `stored` and "running with no timer" to `settled`.

### EepromUpdate

One call, with any block of a small memory, chunk by chunk. A power cut while a
chunk is written leaves any subset of its bytes.

### Trackball

`DriverInit` is `pointing_device_driver_init`: all slots are tried as PMW3610
first, and only pairs without any are then tried as ADNS5050. `linked` and
`down` are the drivers' own `connected` and `powered_down`, which differ from
`sensor` (`trackball_sensor_type`): the host is told of the latter.
`GetReport(moved)` is one call of `pointing_device_driver_get_report` with the
timeouts it checks, `WakeConnected` what a key event does first. What is
written on the wires matters only where it can hit the wrong chip or a sleeping
one: `chip` is the sensor's own state, and `answers` the sensors whose product
id comes through. The histories `quiet`, `stray`, `stale` are read by no action.

### Encoder and DragScroll

`shaft` is the truth that `Encoder` compares the decoder with, in quarter
steps; `SampleFails` is the pass that could not read the module, after which
`encoder_data` is 0 and the decoder runs all the same. `DragScroll` takes the
floating-point accumulator in units of 1/32, in which all its values are whole
numbers; one slot of a report is `ReadBall`, and nothing else runs between the
slots. The conversion to `int8_t` of a number that does not fit is undefined in
C; the RP2040 has no floating-point unit, its build converts to 32 bits and
keeps the low byte, which is `Int8`. A stroke has twelve bits along each axis and
may be turned, so that it is at most `LongestStride`.

### HostParams

A parameter is a field of a section, `ParamOf(id)` by the order of the accessor
table. `SetParam` limits (`Limit`), stores in the width of the bit-field
(`Bits`) and applies (`SideEffect`); `Restart` is a start with everything saved
(`Started`). What is in force is `live`. `asked` remembers the number the host
sent, `Documented` has the maxima of the comments in `kb_config.h`, `Greatest`
what the fields hold, and `loose` the copies that something else
than their setting determined, such as a page key.

### ListUsers, ListReply

`ListUsers` goes on where `KeymapLayout` ends, so that the places are those the
code assigns and not chosen ones. `RowBits` is the decoding of each kind of
register, `ReadRows` all rows of a pass; `FindForKey`, `FindMagnetic` and
`FindEncoder` are the searches of the display, the host's magnetic key query
and the encoder driver. `ListReply` is `send_device_list` part by part with the
payload as a number of bytes.

### PendantLed, DisplayPages

`PendantLed` has a clock that wraps. `DisplayPages` has for each line of the
buffer who wrote it, and QMK's OLED driver as `display.c` relies on it: nothing
is rendered while the panel scrolls, and a command that fails leaves the driver
scrolling or not as before. The result of `oled_scroll_off` is ignored
(`display.c:52`), so that `SetPage` may leave the panel scrolling.

### MCPeripherals

The eight components above share no variable, and none calls another; the
settings `Trackball` and `DragScroll` read are their own variables there. So
they are checked together as a disjoint sum: `part` says which of them runs in
a behaviour, the others stay where they are. Every property of a component
holds in the sum exactly if it holds in the component's own specification, as
its states are the same. `PartsTypeOK` is the conjunction of their type
invariants.

## 3. What the runs check

| Run | Instance | What it shows |
|---|---|---|
| `bus_safety` | an encoder on each of two channels, keys upstream, two addresses; two faults, one change | no bit of the matrix comes through a foreign channel; a device is listed elsewhere only when selecting the channel failed; an undisturbed scan is exact; counted errors are faults; the row stores encoders in the order the lookup counts them |
| `bus_address` | two modules on one channel, readdressed by the host | a clean list keeps addresses apart |
| `bus_live` | keys on channel 1, an encoder on channel 2, one address; one fault, two changes | keys of a pulled module are released, a dead module is dropped, the loop comes round |
| `bus_errors` | violated | good reads do not reset `consecutive_errors`: errors far apart add up to a scan, while `kb_config.h:40` speaks of consecutive errors |
| `encoder_mix` | violated; an encoder of each generation, plugged in from the start, no fault | with an encoder of the first generation listed before one of the second, index 0 reads the slot of the other encoder and index 1 an empty one (`encoder.c:31`) |
| `config` | two sections, three cells, two of three values and one of two | no change lost; wherever the power goes the EEPROM has only values the settings had, but for former contents where a first initialisation was cut; `ConfigStore` is implemented; once the host pauses everything is saved |
| `eeprom_update` | five bytes, buffer of two | exact, terminates, tears one chunk |
| `magkey` | readings 0 to 3 at two resolutions | the rapid trigger turns exactly at delta; a reading that repeats the last one does not release a key marked as pressed; a key that is let go comes up |
| `keymap_layout` | every list over six slots and six kinds, rows of 8 keys, two rows for each channel | the sort is right although its comparison is no order, no module crosses a row, none share keys unless a channel is overfull |
| `peripherals` | see Bounds | **sensors**: two in use never disagree about a shared pin; they sleep exactly when all of a kind have been idle, never with "never"; awake ones work as configured; one stray power-down at most; a lost one is not used, configured or woken by its driver. **encoder**: no quarter step is dropped; failed samples cost at most four each, always an even number, and nothing while the shaft rests. **drag scrolling**: at the default speed no motion is lost over any number of balls and reports, and up to it the wheel turns the way the ball turns, however long the stroke; one step faster long strokes still do. **parameters**: what is written is read back up to the maximum its field holds; a start changes nothing that is in force, but for the exceptions below. **list users**: the matrix has exactly the keys held, the lookups find the module of the key, turns and clicks are of one encoder. **reply**: whole, no empty part. **LEDs**: the scan goes round at its pace across the wrap and through rounds longer than its period. **pages**: only the logo scrolls, under another page only where stopping it failed; nothing is left over, the gauge is right |
| `drag_scroll` | violated | above the default speed the rest of a unit scrolls again in every report: a resting ball goes on scrolling, while `kb_config.h:74` speaks of a factor |
| `display_scroll` | violated; a gauge of one value | after a failed `oled_scroll_off` (`display.c:52`) the logo scrolls on under another page |

### Bounds

`MaxFaults` and `MaxChanges` bound failed transactions and changes of the bus.
One change and one or two faults already put the multiplexer, the cached
channel, the list and the modules at odds with each other in every order; reads of absent modules fail
without a bound. Two channels of the multiplexer are enough to confuse one with
another, and modules on different channels share an address, the case in which
a wrong channel goes unnoticed. `Threshold` 2 distinguishes one error from
several. In `KbConfig` the delay is two ticks, so that changes come before,
at and after the timer; two sections are enough for one to hide the other; one
section has two cells so that a cut can fall inside it; the display mode needs
three values (a default, another and a refused one), the third cell two. The EEPROM of five
bytes has blocks of zero, one, two and three chunks with full and partial last
ones, at every address. Readings 0 to 3 with a halved resolution give points
that are apart, adjacent, equal, equal after the shift, and 0.

In `peripherals`: three sensor slots, two of them a pair; the pair has no
sensor, two of a kind, or one of each (one order of these, as the slots of a
pair are alike; a slot without a sensor behaves like one whose sensor does not
answer, of which there are all cases), and not all three of one kind, as two
sensors already share its timer; at most one sensor fails to answer at a time, in
every probe and wake-up; the timeouts "never" and one tick, with a change at any time. The
shaft turns a whole cycle of the contacts each way, at all four resolutions, with
two failed samples (EncoderProofs has no bound). Two balls with strides below
a unit and far beyond what a byte of steps holds at a high speed, speeds below, at
and above the default. One host session has
a pair of parameters that lie next to each other or act on each other, or the
magnetic key settings, with values at 0, inside, at and above the limits. Lists
of up to three devices on the upstream channel and two others, in rows of five
keys so that modules do not fit; no, one or all keys held, one failed read.
Reply lengths around every multiple of a part, in reduced sizes, and beyond the
longest. A clock that wraps after 11 ticks with a period of 3 and rounds of up to 5, longer
than the period as when sensors wake up or a host command waits. Three gauge values
at four resolutions: 0, one below the default points (it rounds to 0 at two bits and
is a reading in the middle at eight), and the default actuation point.

### Preconditions that are not met everywhere

Some properties name a case in which the code does not do what one might
expect. `StillKeyStaysDown` excludes actuation and reset points that are equal
at the resolution in use: without rapid trigger such a key alternates between
pressed and released under a still finger (`magkey_utils.c:129-133`).
`ReleasedKeyRests` excludes points that are 0 at that resolution, where the key
is down whatever the finger does. `StillKeyStaysDown` is about good readings of
a key that is marked as pressed: a failed read clears its bit, a scan or a new
resolution its mark. `StoredWasCurrent` excludes the cells in `left`.
`UpdateKeepsAddressesApart` excludes modules
hidden by a module upstream with the same address: they are not listed, so
their address passes for free (`device_scanner.c:154`, `292`).

Of some properties the exception is in a part of the same module:
`LookupsAgree` is `OwnerIsShown` and `TurnAndClickAgree`, `PageIsRight` has
`NothingIsLeftOver`, `ScrollFollowsBalls` has `NoMotionLost` and
`SlowWheelFollowsBall`, and so on. `RowIsExact`, `OwnerIsShown` and
`TurnAndClickAgree` exclude overfull channels
and first generation encoders, whose place stays 0 (`device_scanner.c:204`).
`RowIsExact` also excludes modules of five keys with an XL9555 whose spare pins
float, as these are not masked (`i2clib.c:207`); `OwnerIsShown` excludes keys
upstream of the multiplexer, which the pass never reads but the display finds
at place 0. `RestartChangesNothing` excludes what a reset, a page key or an
encoder's resolution leaves for the next start, the auto mouse layer, which
every start enables again whatever the setting says (`trackball.c:226`), and the
page SelectedKey, which no start keeps. `ReadsBackAsAsked` expects 4095 for a
key's point of 4096, and `OnlyLogoScrolls` lets
the logo scroll under another page after a command to stop that failed (the
finding of `display_scroll`). `LostIsLeftAlone` is about a sensor's own driver:
the stray power-down of `StrayWriteOnce` may still be written to a lost one. `AwakeAsConfigured` excludes the time between `reset_all_params`,
which applies nothing, and the next change. `NothingIsLeftOver` excludes one
line: `TYPE: -` of a page without an input is not written over by the first
input (`display.c:454-468`). `NoMotionLost` holds at the default speed
only: below it the code takes whole units off the accumulator of which it has
scrolled a part, so that motion is lost, and above it what is left scrolls again
(the finding of `drag_scroll`). `SlowWheelFollowsBall` holds up to the default
speed and `StrokeScrollsItsWay` one step above it; from speed 5 on a long stroke
gives more steps than `int8_t` holds (`trackball.c:112`), and a stroke of -1100 at
speed 15 turns the wheel by +119.

### Fairness

`ModuleBus`: weak fairness of the scan and strong fairness of the pass. The
superloop never stops, every turn of it calls the matrix pass, and the display
and the host can use the bus only between two passes; without strong fairness
host commands could start scan after scan forever, which the loop does not
allow. Nothing of the environment is fair: a module need never come back, the
multiplexer need never get its power back. `KbConfig`: weak fairness of the
loop's own steps, the timer among them; nobody has to power the keyboard on.
`MagKey`: the key is read again and again, with or without success.
`EepromUpdate`: the call goes on. No fairness says that transactions succeed, but
the number of those that fail although somebody would answer is bounded where
`Bounds` says so, and by one in `bus_live`: a bus that fails forever would keep
the pass from ever reading. `DisplayPages` has no transactions of its own but the
commands to scroll, of which any may fail.

The components of `peripherals` have safety properties only: a sensor, for
instance, need not be polled, and what must happen in time is stated by
counting (`ScanKeepsTime` in `ScanIsSteady`, `DueWhenIdle`).

Deadlock is checked everywhere but in `EepromUpdate.cfg` and
`KeymapLayout.cfg`, whose algorithms end, and in `Peripherals.cfg`, which
contains the latter.

## 4. What is proved

All theorems hold for every value of the constants that satisfies the named
assumption of the module (`BusAssumption`, `ConfigAssumption`,
`UpdateAssumption`, `TrackballAssumption` and so on).

- `ModuleBusProofs`: `TypeCorrect`, `ReadsAreOwn`, `ListIsWhereMet`. A bit
  collected by the pass is right because of three facts that only hold
  together: the cached channel, when there is one, is what the multiplexer
  selects or the multiplexer has lost power (`SelectionKnown`); while the pass
  reads a device the cache names its channel (`ReadIsSelected`); while the scan
  probes a channel it could select, the cache names it (`ProbeIsSelected`).
  Their conjunction with the type invariant is the inductive invariant.
  `ScanIsExact`, `CountedErrorsAreFaults` and `AddressesStayApart` add the
  progress of a scan that nothing has disturbed: the slots it has passed are
  listed exactly and the others not at all (`ScanSoFar`); the cached channel is
  the one selected (`Fresh`, from the first channel on, since a scan may begin
  with a stale one); the errors counted are failed transactions
  (`ErrorsSoFar`, because a device that is listed exactly answers). A fault or
  a change of the bus ends all three until the next scan. `EncodersAreInOrder`
  rests on `EncodersSoFar`: while the encoder row is read, the encoders done
  come before those pending, the index is at most their number, and if it is
  equal each is stored at the number of encoders before it. An encoder passed
  over leaves the index behind for the rest of the row, which is what the
  second conjunct tolerates and `EncoderReadsIndexedOne` is violated by.
- `KbConfigProofs`: `TypeCorrect`, `NoChangeIsLost`, `StoredIsCurrent` and
  `ConfigImplements`. The strengthening says how the phases use the cells: what
  a save or the initialisation no longer has to do equals RAM, and what an
initialisation writes counts as held. The refinement
  maps each action to a step or a stutter of `ConfigStore`; the boot of an empty
  EEPROM is a `Boot` followed by `Store` steps.
- `EepromUpdateProofs`: `ExactUpdate` and `TornOnce`. Below `off` the block is
  new, above it old; the call ends only with `off = len`.
- `KeymapLayoutProofs`: `TypeCorrect`, `SortCorrect` and `PlacesCorrect`. That the list becomes
  sorted needs `Untangled`: of the devices still to sort, one behind another of
  its channel has the higher address or no higher rank. Where that holds the odd
  comparison agrees with the order, the list starts so because the scan finds
  addresses in order, and an exchange keeps it so because the device that goes
  back only passes devices it comes before (`Sorted`). The places follow from the
  order: since the devices of a channel come one after another, the running
  channel is the one of the device before (`ChannelOf`), so that `next` is
  behind all modules of the channel (`EachPlace`, `PairsOfPlaces`); two modules
  of different channels, or a module and an encoder, meet only where the first
  has passed the rows of its channel.
- `MagKeyProofs`: `TypeCorrect`, `RapidIsExact` and `NoChatter` (a step of
  hysteresis: the good reading of a key still marked as pressed). The code knows
  the anchor, the property the true extreme of the readings; `AnchorIsExtreme`
  says that they are the same while the settings stay, `HeldIsKnown` and
  `AboveLow` what a press without the rapid trigger leaves behind.
- `KeymapLayoutProofs` goes on with the users of the list: `UsersKeepList`,
  `UsersTypes`, `RowsAreExact` and `LookupsAreRight`. `ListUsers` implements
  `KeymapLayout`, so the places above hold for it. `RowsAreExact` is then a
  matter of the registers: the bits of a module are its keys whatever its
  expander and its spare pins, and they stay in its row. The walks back from a
  key need that the places of two modules share no key (`EachPlace`); those from
  a click need one invariant more, that the places of encoders are counted
  without a gap (`TurnsCounted`), since the display counts encoders while the
  sort counted places.
- `TrackballProofs`: `TrackballTypes`, `Configured` and `WiresServe` (from
  `PinsServe`, `StrayOnce`, `LostForGood`), for any number of slots, any pairing and any settings. A pin
  is right because a pair is never tried as ADNS once it has a PMW sensor; a
  sensor in use is as configured because its driver's copy is (also of a
  sensor that sleeps) and waking writes the copy; the step of ADNS is within 63
  of what was asked (`AdnsNear`). The stray write needs the stage: only the
  first timeout of ADNS finds flags that were never set.
  `DueExactly` and `SleepIsEarned` rest on `TimerFollows`: the timer a driver
  shares among its sensors is what is left of the timeout after the shortest of
  their idle times (`LeftOfIdle`), through every restart by motion, keys, waking
  and the host. It is the equality that is inductive; that the timer is not
  early and that it is not late follow only together.
  `DragTypes`, `SlowFollows` and `ScrollFollows`: the rest in the accumulator of
  drag scrolling is below a unit, so that up to the default speed it cannot turn
  the wheel by itself nor hold a step back that the ball does not make; and the
  longest stroke with that rest gives 91 units, which a byte holds (`Collected`).
- `EncoderProofs`: `EncoderTypes`, `FollowsShaft` and `RestingKeeps`. The first
  part of `FollowsShaft` is that the remainder takes nothing away; the second
  that the count stays near the shaft, by four for each failed sample at most
  and always an even number. It needs which samples are in step with the shaft
  (`InStep`): getting out of step costs two and getting into step again two.
  `RestingKeeps` needs that a failed sample of a resting encoder changes the
  count by the table's entry for that transition and the next good one by the
  opposite entry.
- `PeripheralsProofs`, for the components that share no variable with others:
  - `HostTypes`, `ReadsBack` and `RestartIsNoChange` for `HostParams`. The
    inductive invariant is that every setting is at most what its field holds
    of the documented maximum (`Legal`) and that each effect in force is what the start would compute from
    its setting unless it is loose (`InForceInv`). That a value survives being
    stored needs of each field that it holds what its accessor lets through, and
    that this is what the documentation promises, one less for a key's points
    (`KeptAsGreatest`).
  - `RepliesAreWhole` for `ListReply`: the last part holds the rest of the
    payload and at least one byte of it (`LastPartHoldsRest`).
  - `LedTypes` and `ScanSteady` for `PendantLed`. The time an LED has been lit
    is the difference of two readings of a timer that wraps, as long as that is
    less than its span (`ElapsedGoesOn`); while the scan does not show an LED,
    its timestamp is 0 and it waits for a period from there (`NoScanInv`).
  - `PagesAreRight` for `DisplayPages`. Each line has what the page writes on it
    or is blank (`OwnLines`); the gauge is drawn from the key as it is
    (`GaugeDrawn`), and its order follows from the monotony of the scaling.
  - `PartsAreAlone` and `PartsTypes` for the whole: a step of it is one of each
    component or leaves the component as it was, so that every theorem above
    holds in it.

TLC alone checks liveness, for which there is no backend here:
`KeysReleaseAfterUnplug`, `DeadDeviceIsDropped`, `PassCompletes`,
`PersistsWhenQuiet`, `Returns` and `ReleasedKeyRests`. Every other property of
the passing runs is a theorem.

## 5. What is not modelled

- Bit-level I2C recovery (`i2c_clean_and_init`), SPI bit-banging, the register
  maps of the chips: input and output, with no state the properties see. The
  rotation of a motion by the angle is floating-point arithmetic.
- The QMK framework: debouncing, the auto mouse layer, the wear-levelling flash
  driver, the OLED driver's rendering. They are external; the EEPROM is an
  array of bytes that a cut may leave half written.
- The words on the display's pages and the layout of the host's packets. The
  get commands only read state.
- More than 60 devices and more than 16 encoders: the code does not check
  either bound (`device_scanner.c:27`, `cue2keys.c:179`).
- The keys on the controller's own pins: `row_has_system_pins` is false for
  every row (`cue2keys.c:68`; with eight keys from place 288 in rows of 32, the
  range of rows is empty), so that the code never reads them.
- The parameter number 47, which counts as known but has no entry in the
  accessor table (`raw_hid_handler_via.c:616`).
- Switching the panel off: off and on again between two updates is not seen by
  the code that sets up the scrolling anew (`display.c:302-308`).
- The place of a module in the host's list, one byte that stops at 255
  (`raw_hid_handler_via.c:237`), so that every encoder is reported there.
- `keymaps/`, `tools/`, `generated/`: data, build scripts, generated
  serialisation, of which only the numbers of parameters are used.

Some comments in `kb_config.h` give other defaults than
`kb_config_init_defaults`: line 37 (trackball timeout 1, code 0), 57 (LED mode
3, code Layer), 75 (drag scroll speed 4, code 3), 79 (CPI step 2, code 3), 106
and 110 (key points 3000, code 3551 and 2929, and 4096 as their maximum, which
their 12 bits do not hold). `HostParams` has the code's. The flags that invert drag scrolling are used the
other way round: `invert_drag_scroll_y` turns the horizontal wheel
(`trackball.c:115-120`, `kb_config.h:82-87`).

Disagreements that the models contain without a run that shows them:
`reset_all_params` keeps `display_mode`, which is not among the defaults
(`kb_config.c:189`), although `kb_config.h:53` gives it one; a start enables the
auto mouse layer that the stored `mouse_layer_on` switches off
(`trackball.c:226`); the wheel steps of long strokes overflow from speed 5 on
(`trackball.c:112`).

## 6. What could follow

The composition of `Trackball` with `HostParams`, once both keep the same
settings; a bound on how late the pass notices a module, by counting
transactions, as a safety property that says more than the liveness does and can
be proved.
