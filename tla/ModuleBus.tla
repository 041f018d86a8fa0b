------------------------------ MODULE ModuleBus ------------------------------
(***************************************************************************)
(* The module bus of the keyboard: hot-pluggable I2C modules behind a      *)
(* PCA9546A multiplexer, the scan that lists them (device_scanner.c), the  *)
(* cached channel selection (i2clib.c) and the matrix pass that reads them *)
(* row by row, counts read errors and triggers a new scan (cue2keys.c).    *)
(*                                                                         *)
(* The firmware is one superloop.  A step of the model is one I2C          *)
(* transaction of it, so that modules, the multiplexer and single          *)
(* transactions can fail between any two of them.                          *)
(***************************************************************************)
EXTENDS Naturals, FiniteSets

CONSTANTS
  Modules,       \* the physical modules
  ChanOf,        \* ChanOf[m]: the connector m is plugged into, 0 = upstream of the mux
  KindOf,        \* KindOf[m]: what m identifies as
  NumCh,         \* MAX_MEX_CH, the channels of the multiplexer
  Addrs,         \* the 7-bit addresses modules use
  V2Addrs,       \* those is_v2_module_address accepts
  NumEnc,        \* NUM_ENCODERS, the slots of encoder_data
  Threshold,     \* I2C_READ_ERROR_RESCAN_THRESHOLD
  ErrMax,        \* UINT8_MAX, where consecutive_errors saturates
  RescanOnError, \* the option rescan_i2c_on_read_error
  MaxFaults,     \* bound: transactions that fail although somebody answers
  MaxChanges,    \* bound: modules plugged, unplugged or readdressed, mux resets
  NoChannel,     \* LAST_CHANNEL_DEFAULT
  Free           \* a slot no listed device occupies

\* Keys and magnetic keys of the second generation, its rotary encoders, the
\* same of the first generation, and the OLED display.
Kinds == {"keys", "re", "keysV1", "reV1", "display"}

AllChannels == 0 .. NumCh
Slots       == AllChannels \X Addrs
Rows        == 1 .. NumCh + 1
ReRow       == NumCh + 1

ASSUME BusAssumption ==
  /\ NumCh \in Nat \ {0} /\ NumEnc \in Nat /\ MaxFaults \in Nat /\ MaxChanges \in Nat
  /\ Threshold \in Nat \ {0} /\ ErrMax \in Nat /\ Threshold <= ErrMax
  /\ RescanOnError \in BOOLEAN
  /\ V2Addrs \subseteq Addrs /\ Addrs \subseteq Nat /\ Addrs # {} /\ IsFiniteSet(Addrs)
  /\ ChanOf \in [Modules -> AllChannels]
  /\ KindOf \in [Modules -> Kinds]
  /\ NoChannel \notin AllChannels
  /\ Free \notin [kind : Kinds, home : AllChannels, errs : 0 .. ErrMax]

VARIABLES
  present,      \* the modules that are plugged in
  addrOf,       \* the address each module answers at
  muxPower,     \* whether the multiplexer has power
  muxReg,       \* the channel its control register selects, 0 = none
  faults,       \* transactions that have failed so far
  changes,      \* changes of the bus so far
  lastChannel,  \* last_channel, the cached selection
  devices,      \* deviceList, by slot: kind, errs, and where the module really was
  pc,           \* what the superloop does next
  row,          \* current_row
  pending,      \* the listed devices of this row the pass has not reached
  rowData,      \* row_data: the slots whose bits were read, and from where
  matrix,       \* current_matrix
  encIdx,       \* encoder_index
  encoder,      \* encoder_data, by the slot whose read wrote it last
  scanCh,       \* the channel the scan is at
  probe,        \* the addresses left to ping on it
  after,        \* where do_scan returns to
  missed,       \* history: channels this scan could not select
  disturbed     \* history: a fault or a change of the bus since this scan began

bus      == <<present, addrOf, muxPower, changes>>
passVars == <<row, pending, rowData, encIdx>>
scanVars == <<scanCh, probe, after, missed>>
vars     == <<present, addrOf, muxPower, changes, muxReg, faults, lastChannel, devices, pc,
              row, pending, rowData, matrix, encIdx, encoder, scanCh, probe,
              after, missed, disturbed>>

Entry        == [kind : Kinds, home : AllChannels, errs : 0 .. ErrMax]
Contribution == [slot : Slots, home : AllChannels]

(***************************************************************************)
(* The bus.                                                                *)
(***************************************************************************)

MuxUp == muxPower = "on"

\* The modules that answer at address a while the multiplexer selects reg.
Responders(a, reg) ==
  {m \in present : /\ addrOf[m] = a
                   /\ ChanOf[m] = 0 \/ (MuxUp /\ ChanOf[m] = reg)}

\* One transaction fails although somebody would answer.
Fault == faults < MaxFaults /\ faults' = faults + 1

\* The bus changes.
Change ==
  /\ changes < MaxChanges /\ changes' = changes + 1
  /\ disturbed' = TRUE

\* change_channel(c) returning true, at once if c is the channel of last time.
SwitchOk(c) ==
  \/ lastChannel = c /\ UNCHANGED <<muxReg, lastChannel>>
  \/ /\ lastChannel # c /\ MuxUp
     /\ muxReg' = c
     /\ lastChannel' = c

\* A bug to detect: the channel of last time is kept.
KeepChannel == UNCHANGED lastChannel

\* A failed write may have reached the multiplexer all the same, which is why
\* the code forgets the channel then.
ForgetChannel == lastChannel' = NoChannel

\* change_channel(c) returning false.
SwitchFails(c) ==
  /\ lastChannel # c
  /\ ForgetChannel
  /\ \/ ~MuxUp /\ UNCHANGED <<muxReg, faults>>
     \/ MuxUp /\ Fault /\ muxReg' \in {muxReg, c}

(***************************************************************************)
(* The device list.  A scan meets every slot once, so the list is a table  *)
(* by channel and address; its order is that of sort_device_list.          *)
(***************************************************************************)

Listed(s) == devices[s] # Free

Rank == [keys |-> 0, re |-> 1, keysV1 |-> 2, reV1 |-> 3, display |-> 100]

\* Slot s comes before slot t in the sorted list.
Before(s, t) ==
  LET r == Rank[devices[s].kind]
      q == Rank[devices[t].kind]
  IN  \/ s[1] < t[1]
      \/ s[1] = t[1] /\ r < q
      \/ s[1] = t[1] /\ r = q /\ s[2] < t[2]

\* A bug to detect: devices read in the order the addresses were found.
HeadByAddress(s) == \A t \in pending \ {s} : s[2] < t[2] \/ (s[2] = t[2] /\ s[1] < t[1])

\* The device the pass is at.
Head(s) == \A t \in pending \ {s} : Before(s, t)

\* The row keymapShift puts a listed device in.  Keys of a channel fill the
\* rows of that channel (one row here) and encoders the encoder row; the
\* shift of a first generation encoder stays 0, the first row.
RowOf(s) ==
  CASE devices[s].kind \in {"keys", "keysV1"} -> s[1]
    [] devices[s].kind = "re"                 -> ReRow
    [] OTHER                                  -> 1

\* The devices matrix_read_cols_on_row(r) reads.
RowDevices(r) ==
  {s \in Slots : /\ Listed(s)
                 /\ s[1] # 0
                 /\ devices[s].kind # "display"
                 /\ RowOf(s) = r}

\* get_oled_channel: the channel of the first listed display, upstream if
\* there is none.
IsOledChannel(c) ==
  LET shown == {s[1] : s \in {t \in Slots : Listed(t) /\ devices[t].kind = "display"}}
  IN  IF shown = {} THEN c = 0 ELSE c \in shown /\ \A d \in shown : c <= d

(***************************************************************************)
(* Power on or a reset of the controller: RAM is fresh, the multiplexer    *)
(* keeps whatever selection it had.  keyboard_pre_init_kb scans first.     *)
(***************************************************************************)

Init ==
  /\ present \in SUBSET Modules
  /\ addrOf \in [Modules -> Addrs]
  /\ \A m \in Modules : addrOf[m] \in V2Addrs <=> KindOf[m] \in {"keys", "re"}
  /\ muxPower \in {"on", "off"}
  /\ muxReg \in AllChannels
  /\ MuxUp \/ muxReg = 0
  /\ faults = 0 /\ changes = 0
  /\ lastChannel = NoChannel
  /\ devices = [s \in Slots |-> Free]
  /\ pc = "scanStart"
  /\ row = 1 /\ pending = {} /\ rowData = {} /\ encIdx = 0
  /\ matrix = [r \in Rows |-> {}]
  /\ encoder = [k \in 0 .. NumEnc - 1 |-> Free]
  /\ scanCh = 0 /\ probe = {} /\ after = "idle"
  /\ missed = {}
  /\ disturbed = FALSE

(***************************************************************************)
(* do_scan.                                                                *)
(***************************************************************************)

\* Where the superloop goes on when do_scan returns.
Return ==
  /\ pc' = CASE after = "again" -> "scanStart"
             [] after = "row"   -> "select"
             [] OTHER           -> "idle"
  /\ after' = IF after = "again" THEN "idle" ELSE after

\* A bug to detect: a new scan adds to the list of the last.
KeepDevices == UNCHANGED devices

ResetDevices == devices' = [s \in Slots |-> Free]

\* The list is emptied and the multiplexer pinged; if it is silent the scan
\* is over, and the cached channel stays.
ScanStart ==
  /\ pc = "scanStart"
  /\ ResetDevices
  /\ missed' = {}
  /\ \/ /\ MuxUp
        /\ pc' = "scanSelect" /\ scanCh' = 0
        /\ disturbed' = FALSE
        /\ UNCHANGED <<faults, after>>
     \/ /\ ~MuxUp /\ UNCHANGED faults /\ disturbed' = FALSE
        /\ Return /\ UNCHANGED scanCh
     \/ /\ MuxUp /\ Fault /\ disturbed' = TRUE
        /\ Return /\ UNCHANGED scanCh
  /\ UNCHANGED <<bus, muxReg, lastChannel, passVars, matrix, encoder, probe>>

\* The result of change_channel is not looked at: the pings go out anyway.
ScanSelect ==
  /\ pc = "scanSelect"
  /\ \/ SwitchOk(scanCh) /\ UNCHANGED <<faults, missed, disturbed>>
     \/ /\ SwitchFails(scanCh)
        /\ missed' = missed \cup {scanCh}
        /\ disturbed' = TRUE
  /\ pc' = "probe" /\ probe' = Addrs
  /\ UNCHANGED <<bus, devices, passVars, matrix, encoder, scanCh, after>>

\* Past the last address, go to the next channel or finish: sort, place the
\* keys, forget the channel.
NextProbe(a) ==
  /\ probe' = probe \ {a}
  /\ IF probe' # {}
     THEN UNCHANGED <<pc, scanCh, after, lastChannel>>
     ELSE IF scanCh < NumCh
     THEN pc' = "scanSelect" /\ scanCh' = scanCh + 1 /\ UNCHANGED <<after, lastChannel>>
     ELSE lastChannel' = NoChannel /\ UNCHANGED scanCh /\ Return

\* One address: ping it and identify and list what answers, unless the same
\* address was listed upstream, where it hides the module behind the mux.
ScanProbe ==
  /\ pc = "probe"
  /\ \E a \in probe :
       /\ \A b \in probe : a <= b
       /\ NextProbe(a)
       /\ \/ \E m \in Responders(a, muxReg) :
               /\ devices' = IF scanCh # 0 /\ Listed(<<0, a>>) THEN devices
                             ELSE [devices EXCEPT ![<<scanCh, a>>] =
                                     [kind |-> KindOf[m], home |-> ChanOf[m], errs |-> 0]]
               /\ UNCHANGED <<faults, disturbed>>
          \/ /\ Responders(a, muxReg) = {}
             /\ UNCHANGED <<devices, faults, disturbed>>
          \/ /\ Responders(a, muxReg) # {}
             /\ Fault /\ disturbed' = TRUE /\ UNCHANGED devices
  /\ UNCHANGED <<bus, muxReg, passVars, matrix, encoder, missed>>

(***************************************************************************)
(* The matrix pass: matrix_read_cols_on_row for row 1, 2, ...              *)
(***************************************************************************)

BeginRow(r) ==
  /\ row' = r
  /\ pending' = RowDevices(r)
  /\ rowData' = {}
  /\ encIdx' = 0

BeginPass ==
  /\ pc = "idle"
  /\ BeginRow(1)
  /\ pc' = "select"
  /\ UNCHANGED <<bus, muxReg, faults, lastChannel, devices, matrix, encoder, scanVars, disturbed>>

\* A bug to detect: the switch is tried until it succeeds.
RetryDevice(s) == UNCHANGED pending

PassOver(s) == pending' = pending \ {s}

\* The next device of the row: switch to its channel, or pass it over when the
\* switch fails, without counting an error.
SelectDevice ==
  /\ pc = "select"
  /\ \E s \in pending :
       /\ Head(s)
       /\ \/ SwitchOk(s[1]) /\ pc' = "read" /\ UNCHANGED <<faults, pending>>
          \/ SwitchFails(s[1]) /\ PassOver(s) /\ UNCHANGED pc
  /\ UNCHANGED <<bus, devices, row, rowData, matrix, encIdx, encoder, scanVars, disturbed>>

\* encoder_data[encoder_index++] for an encoder of the second generation,
\* whether its read succeeded or not.
StoreEncoder(s) ==
  IF devices[s].kind = "re"
  THEN /\ encoder' = [encoder EXCEPT ![encIdx] = s]
       /\ encIdx' = encIdx + 1
  ELSE UNCHANGED <<encoder, encIdx>>

ReadDevice ==
  /\ pc = "read"
  /\ \E s \in pending :
       /\ Head(s)
       /\ \E m \in Responders(s[2], muxReg) :
            rowData' = rowData \cup {[slot |-> s, home |-> ChanOf[m]]}
       /\ StoreEncoder(s)
       /\ pending' = pending \ {s}
  /\ pc' = "select"
  /\ UNCHANGED <<bus, muxReg, faults, lastChannel, devices, row, matrix, scanVars, disturbed>>

\* A bug to detect: one error more than the threshold, which a counter that
\* saturates at the threshold never reaches.
PastThreshold(n) == RescanOnError = TRUE /\ n > Threshold

TooManyErrors(n) == RescanOnError = TRUE /\ n >= Threshold

\* A bug to detect: after the scan the row goes on with the old list.
RescanAndGoOn == pc' = "scanStart" /\ after' = "row" /\ UNCHANGED pending

RescanAndGiveUp == pc' = "scanStart" /\ after' = "row" /\ pending' = {}

\* handle_i2c_read_result: count the error and, at the threshold, scan again
\* and give up the rest of the row.
ReadFails ==
  /\ pc = "read"
  /\ \E s \in pending :
       /\ Head(s)
       /\ \/ Responders(s[2], muxReg) = {} /\ UNCHANGED faults
          \/ Responders(s[2], muxReg) # {} /\ Fault
       /\ StoreEncoder(s)
       /\ LET e == devices[s].errs
              n == IF e < ErrMax THEN e + 1 ELSE e
          IN  /\ devices' = [devices EXCEPT ![s].errs = n]
              /\ IF TooManyErrors(n)
                 THEN RescanAndGiveUp
                 ELSE pc' = "select" /\ pending' = pending \ {s} /\ UNCHANGED after
  /\ UNCHANGED <<bus, muxReg, lastChannel, row, rowData, matrix, scanCh, probe, missed, disturbed>>

\* A bug to detect: the bits of the last pass are not cleared.
PublishMore == matrix' = [matrix EXCEPT ![row] = @ \cup rowData]

PublishRow == matrix' = [matrix EXCEPT ![row] = rowData]

\* Publish the row, complete or given up, and go on to the next one.
EndRow ==
  /\ pc = "select" /\ pending = {}
  /\ PublishRow
  /\ after' = "idle"
  /\ IF row < ReRow
     THEN BeginRow(row + 1) /\ UNCHANGED pc
     ELSE pc' = "idle" /\ UNCHANGED passVars
  /\ UNCHANGED <<bus, muxReg, faults, lastChannel, devices, encoder, scanCh, probe, missed, disturbed>>

(***************************************************************************)
(* The other tasks of the superloop that use the bus.                      *)
(***************************************************************************)

\* A bug to detect: the multiplexer is written behind the back of the cache.
SelectUncached(c) == MuxUp /\ muxReg' = c /\ UNCHANGED <<lastChannel, faults>>

SelectOled(c) == (SwitchOk(c) /\ UNCHANGED faults) \/ SwitchFails(c)

\* oled_send_cmd and oled_send_data ignore the result of change_channel.
OledSend ==
  /\ pc = "idle"
  /\ \E c \in AllChannels :
       /\ IsOledChannel(c)
       /\ SelectOled(c)
  /\ UNCHANGED <<bus, devices, pc, passVars, matrix, encoder, scanVars, disturbed>>

\* The host command rescan_i2c_devices.
HostRescan ==
  /\ pc = "idle"
  /\ pc' = "scanStart" /\ after' = "idle"
  /\ UNCHANGED <<bus, muxReg, faults, lastChannel, devices, passVars, matrix, encoder,
                 scanCh, probe, missed, disturbed>>

\* A bug to detect: the new address is not looked for in the list.
NeverInUse(c, a) == FALSE

InUse(c, a) == Listed(<<c, a>>)

\* The modules that obey CHANGE_ADDR sent to address old.
Readdressed(old, new, reg) ==
  [m \in Modules |-> IF m \in Responders(old, reg) /\ KindOf[m] \in {"keys", "re"}
                     THEN new ELSE addrOf[m]]

\* The host command update_i2c_address: refused if the list has the new
\* address on that channel; on success two scans follow, 100 ms apart.  A write
\* that fails may have been obeyed.
HostUpdateAddress(c, old, new) ==
  /\ pc = "idle"
  /\ old # new /\ ~InUse(c, new)
  /\ \/ /\ SwitchOk(c) /\ UNCHANGED faults
        /\ Responders(old, muxReg') # {}
        /\ addrOf' = Readdressed(old, new, muxReg')
        /\ Change
        /\ pc' = "scanStart" /\ after' = "again"
     \/ /\ SwitchOk(c) /\ Fault
        /\ addrOf' = Readdressed(old, new, muxReg')
        /\ Change
        /\ UNCHANGED <<pc, after>>
     \/ /\ \/ SwitchOk(c) /\ Responders(old, muxReg') = {} /\ UNCHANGED faults
           \/ SwitchOk(c) /\ Fault
           \/ SwitchFails(c)
        /\ UNCHANGED <<addrOf, changes, pc, after, disturbed>>
  /\ UNCHANGED <<present, muxPower, devices, passVars, matrix, encoder, scanCh, probe, missed>>

(***************************************************************************)
(* The environment.                                                        *)
(***************************************************************************)

firmware == <<lastChannel, devices, pc, passVars, matrix, encoder, scanVars>>

Plug(m) ==
  /\ m \notin present
  /\ present' = present \cup {m}
  /\ Change
  /\ UNCHANGED <<addrOf, muxPower, muxReg, faults, firmware>>

Unplug(m) ==
  /\ m \in present
  /\ present' = present \ {m}
  /\ Change
  /\ UNCHANGED <<addrOf, muxPower, muxReg, faults, firmware>>

\* The multiplexer loses power and with it its selection.
MuxDown ==
  /\ MuxUp
  /\ muxPower' = "off" /\ muxReg' = 0
  /\ Change
  /\ UNCHANGED <<present, addrOf, faults, firmware>>

MuxPowerUp ==
  /\ ~MuxUp /\ muxPower' = "on"
  /\ disturbed' = TRUE
  /\ UNCHANGED <<present, addrOf, changes, muxReg, faults, firmware>>

Scan == ScanStart \/ ScanSelect \/ ScanProbe
Pass == BeginPass \/ SelectDevice \/ ReadDevice \/ ReadFails \/ EndRow

Host ==
  \/ HostRescan
  \/ \E c \in AllChannels, old \in Addrs, new \in V2Addrs : HostUpdateAddress(c, old, new)

Environment ==
  \/ \E m \in Modules : Plug(m) \/ Unplug(m)
  \/ MuxDown \/ MuxPowerUp

Next == Scan \/ Pass \/ OledSend \/ Host \/ Environment

\* The superloop never stops and runs the matrix pass in every turn, whatever
\* the display and the host ask for in between.
Fairness == WF_vars(Scan) /\ SF_vars(Pass)

Spec     == Init /\ [][Next]_vars
FairSpec == Spec /\ Fairness

(***************************************************************************)
(* Properties.                                                             *)
(***************************************************************************)

BusTypeOK ==
  /\ present \subseteq Modules /\ addrOf \in [Modules -> Addrs]
  /\ muxPower \in {"on", "off"} /\ muxReg \in AllChannels
  /\ lastChannel \in AllChannels \cup {NoChannel} /\ disturbed \in BOOLEAN

CountTypeOK ==
  /\ faults \in 0 .. MaxFaults /\ changes \in 0 .. MaxChanges /\ encIdx \in Nat
  /\ row \in Rows

ListTypeOK == devices \in [Slots -> Entry \cup {Free}]

PassTypeOK ==
  /\ pending \subseteq Slots
  /\ rowData \subseteq Contribution /\ matrix \in [Rows -> SUBSET Contribution]
  /\ encoder \in [0 .. NumEnc - 1 -> Slots \cup {Free}]

ScanTypeOK ==
  /\ pc \in {"idle", "select", "read", "scanStart", "scanSelect", "probe"}
  /\ scanCh \in AllChannels /\ probe \subseteq Addrs
  /\ after \in {"idle", "row", "again"}
  /\ missed \subseteq AllChannels

\* Every variable has its type; only a pass has devices left to read, which
\* are listed, and the superloop reads or probes only what there is.
TypeOK ==
  /\ BusTypeOK /\ CountTypeOK /\ ListTypeOK /\ PassTypeOK /\ ScanTypeOK
  /\ \A s \in pending : Listed(s)
  /\ pending # {} => pc \in {"select", "read"}
  /\ pc = "read" => pending # {}
  /\ pc = "probe" => probe # {}

\* The module behind every published or collected bit was on the channel the
\* bit stands for, or upstream of the multiplexer: the cached selection of
\* change_channel never lets a key be read from another channel's module.
ReadsReachOwnModule ==
  \A c \in rowData \cup UNION {matrix[r] : r \in Rows} : c.home \in {0, c.slot[1]}

\* A device is listed on a channel it was not met on only if the scan that
\* listed it could not select that channel (do_scan ignores change_channel).
ListedWhereMet ==
  \A s \in Slots : Listed(s) => devices[s].home \in {0, s[1]} \/ s[1] \in missed

\* The modules that are really at a channel and address.
ModulesAt(s) == {m \in present : ChanOf[m] = s[1] /\ addrOf[m] = s[2]}

\* The list is right about a slot: a module that is there is listed with its
\* kind, except behind the multiplexer what an upstream address hides.
Hides(s)  == s[1] # 0 /\ ModulesAt(<<0, s[2]>>) # {}
Exact(s) ==
  IF ModulesAt(s) = {} \/ Hides(s)
  THEN ~Listed(s)
  ELSE Listed(s) /\ \E m \in ModulesAt(s) : devices[s].kind = KindOf[m]

\* After a scan nothing disturbed, do_scan has listed exactly what is plugged in.
CleanScanIsExact ==
  ~disturbed /\ MuxUp /\ pc \in {"idle", "select", "read"} => \A s \in Slots : Exact(s)

\* Until the bus is disturbed again, the errors counted in the list are
\* transactions that failed: a bus without faults never triggers a scan.
ErrorsAreFaults ==
  ~disturbed /\ MuxUp /\ pc \in {"idle", "select", "read"} =>
    \A s \in Slots : Listed(s) => devices[s].errs <= faults

\* The listed encoders, in the order encoder_quadrature_read_pin counts them.
Encoders == {s \in Slots : Listed(s) /\ devices[s].kind \in {"re", "reV1"}}
EncoderAt(k) ==
  {s \in Encoders : Cardinality({t \in Encoders : Before(t, s)}) = k}

\* The encoder row has been read to its end.
EncodersRead == pc = "select" /\ row = ReRow /\ pending = {} /\ after # "row"

\* When no encoder was passed over in the row, each slot of encoder_data
\* holds the encoder encoder_quadrature_read_pin looks up by that index.
EncodersInOrder ==
  EncodersRead /\ encIdx = Cardinality(Encoders) =>
    \A k \in 0 .. NumEnc - 1 : \A s \in EncoderAt(k) : encoder[k] = s

\* What encoder_quadrature_read_pin says of itself ("skip if this RE is not the
\* indexed one"): the data it returns for an index is that encoder's.
EncoderReadsIndexedOne ==
  EncodersRead => \A k \in 0 .. NumEnc - 1 : \A s \in EncoderAt(k) : encoder[k] = s

\* No two modules of one mux channel share an address; no module is hidden by
\* one upstream.
Apart  == \A s \in Slots : s[1] # 0 => \A m, k \in ModulesAt(s) : m = k
Hidden == {s \in Slots : ModulesAt(s) # {} /\ Hides(s)}

\* After a clean scan that hid nothing, update_v2_address never gives two
\* modules of one mux channel the same address, although it looks for the new
\* address in the list and not on the bus.
UpdateKeepsAddressesApart ==
  [][~disturbed /\ MuxUp /\ Apart /\ Hidden = {} /\ pc = "idle" /\ addrOf' # addrOf
       => Apart']_vars

(***************************************************************************)
(* Liveness.                                                               *)
(***************************************************************************)

Silent(s) == ModulesAt(s) = {} /\ ModulesAt(<<0, s[2]>>) = {}

\* The keys of a module that is pulled out do not stay pressed: its bits leave
\* the matrix unless a module takes its place.
KeysReleaseAfterUnplug ==
  \A s \in Slots :
    Silent(s) ~> (~Silent(s) \/ \A r \in Rows : \A c \in matrix[r] : c.slot # s)

\* With the rescan option a listed device that stopped answering is dropped
\* from the list, whatever else fails meanwhile.
DeadDeviceIsDropped ==
  \A s \in Slots :
    (RescanOnError /\ Listed(s) /\ s \in UNION {RowDevices(r) : r \in Rows} /\ Silent(s) /\ MuxUp)
      ~> (~Listed(s) \/ ~Silent(s) \/ ~MuxUp)

\* The superloop always comes back to its other tasks, even when every row
\* triggers a scan.
PassCompletes == []<>(pc = "idle")
=============================================================================
