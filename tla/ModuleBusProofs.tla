--------------------------- MODULE ModuleBusProofs ---------------------------
(***************************************************************************)
(* For every set of modules, channels and addresses, every threshold and   *)
(* every number of faults: the types of ModuleBus hold, no bit of the      *)
(* matrix comes from another channel than its own, and a device is listed  *)
(* where it was met unless its channel could not be selected.  After a     *)
(* scan that nothing disturbed the list is what is plugged in, its errors  *)
(* are failed transactions, and a change of address keeps modules apart.   *)
(* The encoders are stored in the order in which they are looked up.       *)
(***************************************************************************)
EXTENDS ModuleBus, FiniteSetTheorems, TLAPS

\* The cached channel is the one the multiplexer selects, or it has lost power
\* since and selects none.
SelectionKnown ==
  lastChannel # NoChannel => muxReg \in {lastChannel, 0}

\* A device is read only after its channel was selected.
ReadIsSelected ==
  pc = "read" => \A s \in pending : Head(s) => lastChannel = s[1]

\* An address is probed on the scan's channel, or the scan knows it is not.
ProbeIsSelected ==
  pc = "probe" => scanCh \in missed \/ lastChannel = scanCh

IInv ==
  /\ TypeOK
  /\ SelectionKnown
  /\ ReadIsSelected
  /\ ProbeIsSelected
  /\ ReadsReachOwnModule
  /\ ListedWhereMet

LEMMA ZeroChannel == 0 \in AllChannels
  BY BusAssumption DEF AllChannels

LEMMA TypeInit == Init => TypeOK
<1> SUFFICES ASSUME Init PROVE TypeOK
  OBVIOUS
<1> USE BusAssumption DEF Init
<1>1. BusTypeOK
  BY DEF BusTypeOK
<1>2. CountTypeOK
  BY DEF CountTypeOK, Rows
<1>3. ListTypeOK
  BY DEF ListTypeOK
<1>4. PassTypeOK
  BY DEF PassTypeOK
<1>5. ScanTypeOK
  BY DEF ScanTypeOK, AllChannels
<1> QED
  BY <1>1, <1>2, <1>3, <1>4, <1>5 DEF TypeOK

LEMMA TypeStep == TypeOK /\ [Next]_vars => TypeOK'
<1> SUFFICES ASSUME TypeOK, [Next]_vars PROVE TypeOK'
  OBVIOUS
<1> USE BusAssumption, ZeroChannel DEF TypeOK
<1>1. CASE ScanStart
  <2>1. BusTypeOK'
    BY <1>1 DEF BusTypeOK, ScanStart, ResetDevices, Return, bus, passVars, Fault
  <2>2. CountTypeOK'
    BY <1>1 DEF CountTypeOK, ScanStart, ResetDevices, Return, bus, passVars, Fault
  <2>3. ListTypeOK'
    BY <1>1 DEF ListTypeOK, ScanStart, ResetDevices, Return, bus, passVars, Fault
  <2>4. PassTypeOK'
    BY <1>1 DEF PassTypeOK, ScanStart, ResetDevices, Return, bus, passVars, Fault
  <2>5. ScanTypeOK'
    BY <1>1 DEF ScanTypeOK, ScanStart, ResetDevices, Return, bus, passVars, Fault
  <2>7. (\A s \in pending : Listed(s))' /\ (pending # {} => pc \in {"select", "read"})'
    BY <1>1 DEF Listed, ScanStart, ResetDevices, Return, bus, passVars, Fault
  <2>6. (pc = "read" => pending # {})' /\ (pc = "probe" => probe # {})'
    BY <1>1 DEF ScanStart, ResetDevices, Return, bus, passVars, Fault
  <2> QED
    BY <2>1, <2>2, <2>3, <2>4, <2>5, <2>6, <2>7
<1>2. CASE ScanSelect
  <2>1. BusTypeOK'
    BY <1>2 DEF BusTypeOK, ScanSelect, SwitchOk, SwitchFails, ForgetChannel, Fault, bus, passVars, ScanTypeOK
  <2>2. CountTypeOK'
    BY <1>2 DEF CountTypeOK, ScanSelect, SwitchOk, SwitchFails, ForgetChannel, Fault, bus, passVars
  <2>3. ListTypeOK'
    BY <1>2 DEF ListTypeOK, ScanSelect, SwitchOk, SwitchFails, ForgetChannel, Fault, bus, passVars
  <2>4. PassTypeOK'
    BY <1>2 DEF PassTypeOK, ScanSelect, SwitchOk, SwitchFails, ForgetChannel, Fault, bus, passVars
  <2>5. ScanTypeOK'
    BY <1>2 DEF ScanTypeOK, ScanSelect, SwitchOk, SwitchFails, ForgetChannel, Fault, bus, passVars
  <2>7. (\A s \in pending : Listed(s))' /\ (pending # {} => pc \in {"select", "read"})'
    BY <1>2 DEF Listed, ScanSelect, SwitchOk, SwitchFails, ForgetChannel, Fault, bus, passVars
  <2>6. (pc = "read" => pending # {})' /\ (pc = "probe" => probe # {})'
    BY <1>2 DEF ScanSelect, SwitchOk, SwitchFails, ForgetChannel, Fault, bus, passVars
  <2> QED
    BY <2>1, <2>2, <2>3, <2>4, <2>5, <2>6, <2>7
<1>3. CASE ScanProbe
  <2>1. BusTypeOK'
    BY <1>3 DEF BusTypeOK, ScanProbe, NextProbe, Return, Responders, Fault, bus, passVars
  <2>2. CountTypeOK'
    <3>1. UNCHANGED <<changes, encIdx, row>> /\ (UNCHANGED faults \/ Fault)
      BY <1>3 DEF ScanProbe, bus, passVars
    <3> QED
      BY <3>1 DEF CountTypeOK, Fault
  <2>3. ListTypeOK'
    <3>1. CASE UNCHANGED devices
      BY <3>1 DEF ListTypeOK
    <3>2. CASE ~UNCHANGED devices
      <4>1. PICK a \in probe, m \in Modules :
              devices' = [devices EXCEPT ![<<scanCh, a>>] =
                            [kind |-> KindOf[m], home |-> ChanOf[m], errs |-> 0]]
        BY <1>3, <3>2 DEF ScanProbe, Responders, BusTypeOK
      <4>2. [kind |-> KindOf[m], home |-> ChanOf[m], errs |-> 0] \in Entry
        BY DEF Entry
      <4>3. <<scanCh, a>> \in Slots
        BY DEF ScanTypeOK, Slots
      <4> QED
        BY <4>1, <4>2, <4>3 DEF ListTypeOK
    <3> QED
      BY <3>1, <3>2
  <2>4. PassTypeOK'
    BY <1>3 DEF PassTypeOK, ScanProbe, NextProbe, Return, Responders, Fault, bus, passVars
  <2>5. ScanTypeOK'
    BY <1>3 DEF ScanTypeOK, ScanProbe, NextProbe, Return, Responders, Fault, bus, passVars, AllChannels
  <2>7. (\A s \in pending : Listed(s))' /\ (pending # {} => pc \in {"select", "read"})'
    BY <1>3 DEF Listed, ScanProbe, NextProbe, Return, Responders, Fault, bus, passVars
  <2>6. (pc = "read" => pending # {})' /\ (pc = "probe" => probe # {})'
    BY <1>3 DEF ScanProbe, NextProbe, Return, Responders, Fault, bus, passVars
  <2> QED
    BY <2>1, <2>2, <2>3, <2>4, <2>5, <2>6, <2>7
<1>4. CASE BeginPass
  <2>1. BusTypeOK'
    BY <1>4 DEF BusTypeOK, BeginPass, BeginRow, RowDevices, bus, scanVars
  <2>2. CountTypeOK'
    BY <1>4 DEF CountTypeOK, BeginPass, BeginRow, RowDevices, bus, scanVars, Rows
  <2>3. ListTypeOK'
    BY <1>4 DEF ListTypeOK, BeginPass, BeginRow, RowDevices, bus, scanVars
  <2>4. PassTypeOK'
    BY <1>4 DEF PassTypeOK, BeginPass, BeginRow, RowDevices, bus, scanVars
  <2>5. ScanTypeOK'
    BY <1>4 DEF ScanTypeOK, BeginPass, BeginRow, RowDevices, bus, scanVars
  <2>7. (\A s \in pending : Listed(s))' /\ (pending # {} => pc \in {"select", "read"})'
    BY <1>4 DEF Listed, BeginPass, BeginRow, RowDevices, bus, scanVars
  <2>6. (pc = "read" => pending # {})' /\ (pc = "probe" => probe # {})'
    BY <1>4 DEF BeginPass, BeginRow, RowDevices, bus, scanVars
  <2> QED
    BY <2>1, <2>2, <2>3, <2>4, <2>5, <2>6, <2>7
<1>5. CASE SelectDevice
  <2>1. BusTypeOK'
    BY <1>5 DEF BusTypeOK, SelectDevice, PassOver, SwitchOk, SwitchFails, ForgetChannel, Fault, bus, scanVars, PassTypeOK, Slots
  <2>2. CountTypeOK'
    BY <1>5 DEF CountTypeOK, SelectDevice, PassOver, SwitchOk, SwitchFails, ForgetChannel, Fault, bus, scanVars
  <2>3. ListTypeOK'
    BY <1>5 DEF ListTypeOK, SelectDevice, PassOver, SwitchOk, SwitchFails, ForgetChannel, Fault, bus, scanVars
  <2>4. PassTypeOK'
    BY <1>5 DEF PassTypeOK, SelectDevice, PassOver, SwitchOk, SwitchFails, ForgetChannel, Fault, bus, scanVars
  <2>5. ScanTypeOK'
    BY <1>5 DEF ScanTypeOK, SelectDevice, PassOver, SwitchOk, SwitchFails, ForgetChannel, Fault, bus, scanVars
  <2>7. (\A s \in pending : Listed(s))' /\ (pending # {} => pc \in {"select", "read"})'
    BY <1>5 DEF Listed, SelectDevice, PassOver, SwitchOk, SwitchFails, ForgetChannel, Fault, bus, scanVars
  <2>6. (pc = "read" => pending # {})' /\ (pc = "probe" => probe # {})'
    BY <1>5 DEF SelectDevice, PassOver, SwitchOk, SwitchFails, ForgetChannel, Fault, bus, scanVars
  <2> QED
    BY <2>1, <2>2, <2>3, <2>4, <2>5, <2>6, <2>7
<1>6. CASE ReadDevice
  <2>1. BusTypeOK'
    BY <1>6 DEF BusTypeOK, ReadDevice, StoreEncoder, Responders, bus, scanVars
  <2>2. CountTypeOK'
    BY <1>6 DEF CountTypeOK, ReadDevice, StoreEncoder, Responders, bus, scanVars
  <2>3. ListTypeOK'
    BY <1>6 DEF ListTypeOK, ReadDevice, StoreEncoder, Responders, bus, scanVars
  <2>4. PassTypeOK'
    <3>1. PICK s \in pending, m \in Modules :
            /\ rowData' = rowData \cup {[slot |-> s, home |-> ChanOf[m]]}
            /\ StoreEncoder(s)
            /\ pending' = pending \ {s}
            /\ matrix' = matrix
      BY <1>6 DEF ReadDevice, Responders, BusTypeOK
    <3>2. s \in Slots /\ [slot |-> s, home |-> ChanOf[m]] \in Contribution
      BY DEF PassTypeOK, Contribution
    <3>3. encoder' \in [0 .. NumEnc - 1 -> Slots \cup {Free}]
      BY <3>1, <3>2 DEF PassTypeOK, StoreEncoder
    <3> QED
      BY <3>1, <3>2, <3>3 DEF PassTypeOK
  <2>5. ScanTypeOK'
    BY <1>6 DEF ScanTypeOK, ReadDevice, StoreEncoder, Responders, bus, scanVars
  <2>7. (\A s \in pending : Listed(s))' /\ (pending # {} => pc \in {"select", "read"})'
    BY <1>6 DEF Listed, ReadDevice, StoreEncoder, Responders, bus, scanVars
  <2>6. (pc = "read" => pending # {})' /\ (pc = "probe" => probe # {})'
    BY <1>6 DEF ReadDevice, StoreEncoder, Responders, bus, scanVars
  <2> QED
    BY <2>1, <2>2, <2>3, <2>4, <2>5, <2>6, <2>7
<1>7. CASE ReadFails
  <2>1. BusTypeOK'
    BY <1>7 DEF BusTypeOK, ReadFails, RescanAndGiveUp, TooManyErrors, StoreEncoder, Fault, bus
  <2>2. CountTypeOK'
    BY <1>7 DEF CountTypeOK, ReadFails, RescanAndGiveUp, TooManyErrors, StoreEncoder, Fault, bus
  <2>3. ListTypeOK'
    <3>1. PICK s \in pending :
            devices' = [devices EXCEPT ![s].errs =
              IF devices[s].errs < ErrMax THEN devices[s].errs + 1 ELSE devices[s].errs]
      BY <1>7 DEF ReadFails, RescanAndGiveUp, TooManyErrors
    <3>2. s \in Slots /\ devices[s] \in Entry
      BY DEF PassTypeOK, ListTypeOK, Listed
    <3> DEFINE n == IF devices[s].errs < ErrMax THEN devices[s].errs + 1 ELSE devices[s].errs
    <3>3. n \in 0 .. ErrMax
      <4>1. devices[s].errs \in 0 .. ErrMax
        BY <3>2 DEF Entry
      <4> QED
        BY <4>1
    <3>4. [devices[s] EXCEPT !.errs = n] \in Entry
      BY <3>2, <3>3 DEF Entry
    <3>5. devices' = [devices EXCEPT ![s].errs = n]
      BY <3>1
    <3> HIDE DEF n
    <3> QED
      BY <3>2, <3>4, <3>5 DEF ListTypeOK
  <2>4. PassTypeOK'
    BY <1>7 DEF PassTypeOK, ReadFails, RescanAndGiveUp, TooManyErrors, StoreEncoder, Fault, bus
  <2>5. ScanTypeOK'
    BY <1>7 DEF ScanTypeOK, ReadFails, RescanAndGiveUp, TooManyErrors, StoreEncoder, Fault, bus
  <2>7. (\A s \in pending : Listed(s))' /\ (pending # {} => pc \in {"select", "read"})'
    BY <1>7 DEF Listed, ReadFails, RescanAndGiveUp, TooManyErrors, StoreEncoder, Fault, bus
  <2>6. (pc = "read" => pending # {})' /\ (pc = "probe" => probe # {})'
    BY <1>7 DEF ReadFails, RescanAndGiveUp, TooManyErrors, StoreEncoder, Fault, bus
  <2> QED
    BY <2>1, <2>2, <2>3, <2>4, <2>5, <2>6, <2>7
<1>8. CASE EndRow
  <2>1. BusTypeOK'
    BY <1>8 DEF BusTypeOK, EndRow, PublishRow, BeginRow, RowDevices, bus, passVars
  <2>2. CountTypeOK'
    BY <1>8 DEF CountTypeOK, EndRow, PublishRow, BeginRow, RowDevices, bus, passVars, Rows, ReRow
  <2>3. ListTypeOK'
    BY <1>8 DEF ListTypeOK, EndRow, PublishRow, BeginRow, RowDevices, bus, passVars
  <2>4. PassTypeOK'
    BY <1>8 DEF PassTypeOK, EndRow, PublishRow, BeginRow, RowDevices, bus, passVars, CountTypeOK
  <2>5. ScanTypeOK'
    BY <1>8 DEF ScanTypeOK, EndRow, PublishRow, BeginRow, RowDevices, bus, passVars
  <2>7. (\A s \in pending : Listed(s))' /\ (pending # {} => pc \in {"select", "read"})'
    BY <1>8 DEF Listed, EndRow, PublishRow, BeginRow, RowDevices, bus, passVars
  <2>6. (pc = "read" => pending # {})' /\ (pc = "probe" => probe # {})'
    BY <1>8 DEF EndRow, PublishRow, BeginRow, RowDevices, bus, passVars
  <2> QED
    BY <2>1, <2>2, <2>3, <2>4, <2>5, <2>6, <2>7
<1>9. CASE OledSend
  <2>1. BusTypeOK'
    BY <1>9 DEF BusTypeOK, OledSend, SelectOled, SwitchOk, SwitchFails, ForgetChannel, Fault, bus, passVars, scanVars
  <2>2. CountTypeOK'
    BY <1>9 DEF CountTypeOK, OledSend, SelectOled, SwitchOk, SwitchFails, ForgetChannel, Fault, bus, passVars, scanVars
  <2>3. ListTypeOK'
    BY <1>9 DEF ListTypeOK, OledSend, SelectOled, SwitchOk, SwitchFails, ForgetChannel, Fault, bus, passVars, scanVars
  <2>4. PassTypeOK'
    BY <1>9 DEF PassTypeOK, OledSend, SelectOled, SwitchOk, SwitchFails, ForgetChannel, Fault, bus, passVars, scanVars
  <2>5. ScanTypeOK'
    BY <1>9 DEF ScanTypeOK, OledSend, SelectOled, SwitchOk, SwitchFails, ForgetChannel, Fault, bus, passVars, scanVars
  <2>7. (\A s \in pending : Listed(s))' /\ (pending # {} => pc \in {"select", "read"})'
    BY <1>9 DEF Listed, OledSend, SelectOled, SwitchOk, SwitchFails, ForgetChannel, Fault, bus, passVars, scanVars
  <2>6. (pc = "read" => pending # {})' /\ (pc = "probe" => probe # {})'
    BY <1>9 DEF OledSend, SelectOled, SwitchOk, SwitchFails, ForgetChannel, Fault, bus, passVars, scanVars
  <2> QED
    BY <2>1, <2>2, <2>3, <2>4, <2>5, <2>6, <2>7
<1>10. CASE HostRescan
  <2>1. BusTypeOK'
    BY <1>10 DEF BusTypeOK, HostRescan, bus, passVars
  <2>2. CountTypeOK'
    BY <1>10 DEF CountTypeOK, HostRescan, bus, passVars
  <2>3. ListTypeOK'
    BY <1>10 DEF ListTypeOK, HostRescan, bus, passVars
  <2>4. PassTypeOK'
    BY <1>10 DEF PassTypeOK, HostRescan, bus, passVars
  <2>5. ScanTypeOK'
    BY <1>10 DEF ScanTypeOK, HostRescan, bus, passVars
  <2>7. (\A s \in pending : Listed(s))' /\ (pending # {} => pc \in {"select", "read"})'
    BY <1>10 DEF Listed, HostRescan, bus, passVars
  <2>6. (pc = "read" => pending # {})' /\ (pc = "probe" => probe # {})'
    BY <1>10 DEF HostRescan, bus, passVars
  <2> QED
    BY <2>1, <2>2, <2>3, <2>4, <2>5, <2>6, <2>7
<1>11. ASSUME NEW c \in AllChannels, NEW old \in Addrs, NEW new \in V2Addrs, HostUpdateAddress(c, old, new) PROVE TypeOK'
  <2>1. BusTypeOK'
    BY <1>11 DEF BusTypeOK, HostUpdateAddress, Readdressed, SwitchOk, SwitchFails, ForgetChannel, Fault, Change, passVars
  <2>2. CountTypeOK'
    BY <1>11 DEF CountTypeOK, HostUpdateAddress, Readdressed, SwitchOk, SwitchFails, ForgetChannel, Fault, Change, passVars
  <2>3. ListTypeOK'
    BY <1>11 DEF ListTypeOK, HostUpdateAddress, Readdressed, SwitchOk, SwitchFails, ForgetChannel, Fault, Change, passVars
  <2>4. PassTypeOK'
    BY <1>11 DEF PassTypeOK, HostUpdateAddress, Readdressed, SwitchOk, SwitchFails, ForgetChannel, Fault, Change, passVars
  <2>5. ScanTypeOK'
    BY <1>11 DEF ScanTypeOK, HostUpdateAddress, Readdressed, SwitchOk, SwitchFails, ForgetChannel, Fault, Change, passVars
  <2>7. (\A s \in pending : Listed(s))' /\ (pending # {} => pc \in {"select", "read"})'
    BY <1>11 DEF Listed, HostUpdateAddress, Readdressed, SwitchOk, SwitchFails, ForgetChannel, Fault, Change, passVars
  <2>6. (pc = "read" => pending # {})' /\ (pc = "probe" => probe # {})'
    BY <1>11 DEF HostUpdateAddress, Readdressed, SwitchOk, SwitchFails, ForgetChannel, Fault, Change, passVars
  <2> QED
    BY <2>1, <2>2, <2>3, <2>4, <2>5, <2>6, <2>7
<1>12. CASE Environment
  <2>1. BusTypeOK'
    BY <1>12 DEF BusTypeOK, Environment, Plug, Unplug, MuxDown, MuxPowerUp, Change, firmware, passVars, scanVars
  <2>2. CountTypeOK'
    BY <1>12 DEF CountTypeOK, Environment, Plug, Unplug, MuxDown, MuxPowerUp, Change, firmware, passVars, scanVars
  <2>3. ListTypeOK'
    BY <1>12 DEF ListTypeOK, Environment, Plug, Unplug, MuxDown, MuxPowerUp, Change, firmware, passVars, scanVars
  <2>4. PassTypeOK'
    BY <1>12 DEF PassTypeOK, Environment, Plug, Unplug, MuxDown, MuxPowerUp, Change, firmware, passVars, scanVars
  <2>5. ScanTypeOK'
    BY <1>12 DEF ScanTypeOK, Environment, Plug, Unplug, MuxDown, MuxPowerUp, Change, firmware, passVars, scanVars
  <2>7. (\A s \in pending : Listed(s))' /\ (pending # {} => pc \in {"select", "read"})'
    BY <1>12 DEF Listed, Environment, Plug, Unplug, MuxDown, MuxPowerUp, Change, firmware, passVars, scanVars
  <2>6. (pc = "read" => pending # {})' /\ (pc = "probe" => probe # {})'
    BY <1>12 DEF Environment, Plug, Unplug, MuxDown, MuxPowerUp, Change, firmware, passVars, scanVars
  <2> QED
    BY <2>1, <2>2, <2>3, <2>4, <2>5, <2>6, <2>7
<1>13. CASE UNCHANGED vars
  BY <1>13 DEF BusTypeOK, CountTypeOK, ListTypeOK, PassTypeOK, ScanTypeOK, Listed, vars
<1> QED
  BY <1>1, <1>2, <1>3, <1>4, <1>5, <1>6, <1>7, <1>8, <1>9, <1>10, <1>11, <1>12, <1>13 DEF Next, Scan, Pass, Host

\* Two devices that are both first in the row are on one channel.
LEMMA HeadChannel ==
  ASSUME TypeOK, NEW s \in pending, NEW t \in pending, Head(s), Head(t)
  PROVE  s[1] = t[1]
<1>1. s \in Slots /\ t \in Slots
  BY DEF TypeOK, PassTypeOK
<1>2. s[1] \in Nat /\ t[1] \in Nat
  BY <1>1, BusAssumption DEF Slots, AllChannels
<1>3. CASE s = t
  BY <1>3
<1>4. CASE s # t
  <2>1. s[1] < t[1] \/ s[1] = t[1]
    BY <1>4 DEF Head, Before
  <2>2. t[1] < s[1] \/ t[1] = s[1]
    BY <1>4 DEF Head, Before
  <2> QED
    BY <1>2, <2>1, <2>2
<1> QED
  BY <1>3, <1>4

LEMMA InvInit == Init => IInv
<1> SUFFICES ASSUME Init PROVE IInv
  OBVIOUS
<1>1. TypeOK
  BY TypeInit
<1>2. SelectionKnown /\ ReadIsSelected /\ ProbeIsSelected
  BY DEF Init, SelectionKnown, ReadIsSelected, ProbeIsSelected
<1>3. ReadsReachOwnModule
  BY DEF Init, ReadsReachOwnModule
<1>4. ListedWhereMet
  BY DEF Init, ListedWhereMet, Listed
<1> QED
  BY <1>1, <1>2, <1>3, <1>4 DEF IInv

\* A step that leaves the pass, the list and the cached channel alone keeps
\* what they say of each other.
LEMMA Untouched ==
  ASSUME IInv, UNCHANGED <<pc, pending, devices, lastChannel, scanCh, missed>>
  PROVE  ReadIsSelected' /\ ProbeIsSelected' /\ ListedWhereMet'
<1>1. \A s \in pending : Head(s)' <=> Head(s)
  BY DEF Head, Before
<1> QED
  BY <1>1 DEF IInv, ReadIsSelected, ProbeIsSelected, ListedWhereMet, Listed

LEMMA InvStep == IInv /\ [Next]_vars => IInv'
<1> SUFFICES ASSUME IInv, [Next]_vars PROVE IInv'
  OBVIOUS
<1> USE DEF IInv
<1>0. TypeOK'
  BY TypeStep
<1>1. CASE ScanStart
  <2>1. SelectionKnown'
    BY <1>1 DEF SelectionKnown, ScanStart, ResetDevices, Return, Listed, bus, passVars
  <2>2. ReadIsSelected'
    BY <1>1 DEF ReadIsSelected, ScanStart, ResetDevices, Return, Listed, bus, passVars
  <2>3. ProbeIsSelected'
    BY <1>1 DEF ProbeIsSelected, ScanStart, ResetDevices, Return, Listed, bus, passVars
  <2>4. ReadsReachOwnModule'
    BY <1>1 DEF ReadsReachOwnModule, ScanStart, ResetDevices, Return, Listed, bus, passVars
  <2>5. ListedWhereMet'
    BY <1>1 DEF ListedWhereMet, ScanStart, ResetDevices, Return, Listed, bus, passVars
  <2> QED
    BY <1>0, <2>1, <2>2, <2>3, <2>4, <2>5
<1>2. CASE ScanSelect
  <2>1. SelectionKnown'
    BY <1>2 DEF SelectionKnown, ScanSelect, SwitchOk, SwitchFails, ForgetChannel, Listed, bus, passVars
  <2>2. ReadIsSelected'
    BY <1>2 DEF ReadIsSelected, ScanSelect, SwitchOk, SwitchFails, ForgetChannel, Listed, bus, passVars
  <2>3. ProbeIsSelected'
    BY <1>2 DEF ProbeIsSelected, ScanSelect, SwitchOk, SwitchFails, ForgetChannel, Listed, bus, passVars
  <2>4. ReadsReachOwnModule'
    BY <1>2 DEF ReadsReachOwnModule, ScanSelect, SwitchOk, SwitchFails, ForgetChannel, Listed, bus, passVars
  <2>5. ListedWhereMet'
    BY <1>2 DEF ListedWhereMet, ScanSelect, SwitchOk, SwitchFails, ForgetChannel, Listed, bus, passVars
  <2> QED
    BY <1>0, <2>1, <2>2, <2>3, <2>4, <2>5
<1>3. CASE ScanProbe
  <2>1. SelectionKnown'
    BY <1>3 DEF SelectionKnown, ScanProbe, NextProbe, Return, Listed, bus, passVars
  <2>2. ReadIsSelected'
    BY <1>3 DEF ReadIsSelected, ScanProbe, NextProbe, Return, Listed, bus, passVars
  <2>3. ProbeIsSelected'
    BY <1>3 DEF ProbeIsSelected, ScanProbe, NextProbe, Return, Listed, bus, passVars
  <2>4. ReadsReachOwnModule'
    BY <1>3 DEF ReadsReachOwnModule, ScanProbe, NextProbe, Return, Listed, bus, passVars
  <2>5. ListedWhereMet'
    <3>1. CASE UNCHANGED devices
      BY <1>3, <3>1 DEF ListedWhereMet, Listed, ScanProbe
    <3>2. CASE ~UNCHANGED devices
      <4>1. PICK a \in probe, m \in Modules :
              /\ m \in Responders(a, muxReg)
              /\ devices' = [devices EXCEPT ![<<scanCh, a>>] =
                               [kind |-> KindOf[m], home |-> ChanOf[m], errs |-> 0]]
        BY <1>3, <3>2 DEF ScanProbe, Responders, TypeOK, BusTypeOK
      <4>2. ChanOf[m] \in {0, scanCh} \/ scanCh \in missed
        BY <1>3, <4>1, BusAssumption DEF Responders, ScanProbe, ProbeIsSelected, SelectionKnown, TypeOK, ScanTypeOK
      <4>3. <<scanCh, a>> \in Slots /\ missed' = missed
        BY <1>3 DEF ScanProbe, TypeOK, ScanTypeOK, Slots
      <4> QED
        BY <4>1, <4>2, <4>3 DEF ListedWhereMet, Listed, TypeOK, ListTypeOK
    <3> QED
      BY <3>1, <3>2
  <2> QED
    BY <1>0, <2>1, <2>2, <2>3, <2>4, <2>5
<1>4. CASE BeginPass
  <2>1. SelectionKnown'
    BY <1>4 DEF SelectionKnown, BeginPass, BeginRow, Listed, bus, scanVars
  <2>2. ReadIsSelected'
    BY <1>4 DEF ReadIsSelected, BeginPass, BeginRow, Listed, bus, scanVars
  <2>3. ProbeIsSelected'
    BY <1>4 DEF ProbeIsSelected, BeginPass, BeginRow, Listed, bus, scanVars
  <2>4. ReadsReachOwnModule'
    BY <1>4 DEF ReadsReachOwnModule, BeginPass, BeginRow, Listed, bus, scanVars
  <2>5. ListedWhereMet'
    BY <1>4 DEF ListedWhereMet, BeginPass, BeginRow, Listed, bus, scanVars
  <2> QED
    BY <1>0, <2>1, <2>2, <2>3, <2>4, <2>5
<1>5. CASE SelectDevice
  <2>1. SelectionKnown'
    BY <1>5 DEF SelectionKnown, SelectDevice, PassOver, SwitchOk, SwitchFails, ForgetChannel, Listed, bus, scanVars
  <2>2. ReadIsSelected'
    <3>1. ASSUME pc' = "read", NEW t \in pending', Head(t)' PROVE lastChannel' = t[1]
      <4>1. PICK s \in pending : Head(s) /\ SwitchOk(s[1]) /\ UNCHANGED <<pending, devices>>
        BY <1>5, <3>1 DEF SelectDevice, PassOver
      <4>2. t \in pending /\ Head(t)
        BY <3>1, <4>1 DEF Head, Before
      <4>3. s[1] = t[1]
        BY <4>1, <4>2, HeadChannel
      <4> QED
        BY <4>1, <4>3 DEF SwitchOk
    <3> QED
      BY <3>1 DEF ReadIsSelected
  <2>3. ProbeIsSelected'
    BY <1>5 DEF ProbeIsSelected, SelectDevice, PassOver, SwitchOk, SwitchFails, ForgetChannel, Listed, bus, scanVars
  <2>4. ReadsReachOwnModule'
    BY <1>5 DEF ReadsReachOwnModule, SelectDevice, PassOver, SwitchOk, SwitchFails, ForgetChannel, Listed, bus, scanVars
  <2>5. ListedWhereMet'
    BY <1>5 DEF ListedWhereMet, SelectDevice, PassOver, SwitchOk, SwitchFails, ForgetChannel, Listed, bus, scanVars
  <2> QED
    BY <1>0, <2>1, <2>2, <2>3, <2>4, <2>5
<1>6. CASE ReadDevice
  <2>1. SelectionKnown'
    BY <1>6 DEF SelectionKnown, ReadDevice, Listed, bus, scanVars
  <2>2. ReadIsSelected'
    BY <1>6 DEF ReadIsSelected, ReadDevice, Listed, bus, scanVars
  <2>3. ProbeIsSelected'
    BY <1>6 DEF ProbeIsSelected, ReadDevice, Listed, bus, scanVars
  <2>4. ReadsReachOwnModule'
    <3>1. PICK s \in pending, m \in Modules :
            /\ m \in Responders(s[2], muxReg)
            /\ Head(s)
            /\ rowData' = rowData \cup {[slot |-> s, home |-> ChanOf[m]]}
            /\ matrix' = matrix
      BY <1>6 DEF ReadDevice, Responders, TypeOK, BusTypeOK
    <3>2. muxReg \in {s[1], 0}
      BY <1>6, <3>1, BusAssumption DEF ReadDevice, ReadIsSelected, SelectionKnown, TypeOK, PassTypeOK, Slots
    <3>3. ChanOf[m] \in {0, s[1]}
      BY <3>1, <3>2 DEF Responders
    <3> QED
      BY <3>1, <3>3 DEF ReadsReachOwnModule
  <2>5. ListedWhereMet'
    BY <1>6 DEF ListedWhereMet, ReadDevice, Listed, bus, scanVars
  <2> QED
    BY <1>0, <2>1, <2>2, <2>3, <2>4, <2>5
<1>7. CASE ReadFails
  <2>1. SelectionKnown'
    BY <1>7 DEF SelectionKnown, ReadFails, RescanAndGiveUp, TooManyErrors, Listed, bus
  <2>2. ReadIsSelected'
    BY <1>7 DEF ReadFails, RescanAndGiveUp, TooManyErrors, ReadIsSelected
  <2>3. ProbeIsSelected'
    BY <1>7 DEF ProbeIsSelected, ReadFails, RescanAndGiveUp, TooManyErrors, Listed, bus
  <2>4. ReadsReachOwnModule'
    BY <1>7 DEF ReadsReachOwnModule, ReadFails, RescanAndGiveUp, TooManyErrors, Listed, bus
  <2>5. ListedWhereMet'
    <3>1. PICK s \in pending : \E n : devices' = [devices EXCEPT ![s].errs = n]
      BY <1>7 DEF ReadFails, RescanAndGiveUp, TooManyErrors
    <3>2. s \in Slots /\ Listed(s) /\ devices[s] \in Entry
      BY <3>1 DEF TypeOK, PassTypeOK, ListTypeOK, Listed
    <3>3. \A t \in Slots : Listed(t)' => Listed(t) /\ devices'[t].home = devices[t].home
      BY <3>1, <3>2 DEF TypeOK, ListTypeOK, Listed, Entry
    <3> QED
      BY <1>7, <3>3 DEF ReadFails, RescanAndGiveUp, TooManyErrors, ListedWhereMet
  <2> QED
    BY <1>0, <2>1, <2>2, <2>3, <2>4, <2>5
<1>8. CASE EndRow
  <2>1. SelectionKnown'
    BY <1>8 DEF SelectionKnown, EndRow, PublishRow, BeginRow, Listed, bus, passVars
  <2>2. ReadIsSelected'
    BY <1>8 DEF ReadIsSelected, EndRow, PublishRow, BeginRow, Listed, bus, passVars
  <2>3. ProbeIsSelected'
    BY <1>8 DEF ProbeIsSelected, EndRow, PublishRow, BeginRow, Listed, bus, passVars
  <2>4. ReadsReachOwnModule'
    BY <1>8 DEF ReadsReachOwnModule, EndRow, PublishRow, BeginRow, Listed, bus, passVars
  <2>5. ListedWhereMet'
    BY <1>8 DEF ListedWhereMet, EndRow, PublishRow, BeginRow, Listed, bus, passVars
  <2> QED
    BY <1>0, <2>1, <2>2, <2>3, <2>4, <2>5
<1>9. CASE OledSend
  <2>1. SelectionKnown'
    BY <1>9 DEF SelectionKnown, OledSend, SelectOled, SwitchOk, SwitchFails, ForgetChannel, bus, passVars, scanVars
  <2>2. ReadIsSelected' /\ ProbeIsSelected' /\ ListedWhereMet'
    BY <1>9, Untouched DEF ReadIsSelected, ProbeIsSelected, ListedWhereMet, Listed, OledSend, SelectOled, SwitchOk, SwitchFails, ForgetChannel, bus, passVars, scanVars
  <2>3. ReadsReachOwnModule'
    BY <1>9 DEF ReadsReachOwnModule, OledSend, SelectOled, SwitchOk, SwitchFails, ForgetChannel, bus, passVars, scanVars
  <2> QED
    BY <1>0, <2>1, <2>2, <2>3
<1>10. CASE HostRescan
  <2>1. SelectionKnown'
    BY <1>10 DEF SelectionKnown, HostRescan, bus, passVars
  <2>2. ReadIsSelected' /\ ProbeIsSelected' /\ ListedWhereMet'
    BY <1>10, Untouched DEF ReadIsSelected, ProbeIsSelected, ListedWhereMet, Listed, HostRescan, bus, passVars
  <2>3. ReadsReachOwnModule'
    BY <1>10 DEF ReadsReachOwnModule, HostRescan, bus, passVars
  <2> QED
    BY <1>0, <2>1, <2>2, <2>3
<1>11. ASSUME NEW c \in AllChannels, NEW old \in Addrs, NEW new \in V2Addrs, HostUpdateAddress(c, old, new) PROVE IInv'
  <2>1. SelectionKnown'
    BY <1>11 DEF SelectionKnown, HostUpdateAddress, SwitchOk, SwitchFails, ForgetChannel, passVars
  <2>2. ReadIsSelected' /\ ProbeIsSelected' /\ ListedWhereMet'
    BY <1>11, Untouched DEF ReadIsSelected, ProbeIsSelected, ListedWhereMet, Listed, HostUpdateAddress, SwitchOk, SwitchFails, ForgetChannel, passVars
  <2>3. ReadsReachOwnModule'
    BY <1>11 DEF ReadsReachOwnModule, HostUpdateAddress, SwitchOk, SwitchFails, ForgetChannel, passVars
  <2> QED
    BY <1>0, <2>1, <2>2, <2>3
<1>12. CASE Environment
  <2>1. SelectionKnown'
    BY <1>12 DEF SelectionKnown, Environment, Plug, Unplug, MuxDown, MuxPowerUp, firmware, passVars, scanVars
  <2>2. ReadIsSelected' /\ ProbeIsSelected' /\ ListedWhereMet'
    BY <1>12, Untouched DEF ReadIsSelected, ProbeIsSelected, ListedWhereMet, Listed, Environment, Plug, Unplug, MuxDown, MuxPowerUp, firmware, passVars, scanVars
  <2>3. ReadsReachOwnModule'
    BY <1>12 DEF ReadsReachOwnModule, Environment, Plug, Unplug, MuxDown, MuxPowerUp, firmware, passVars, scanVars
  <2> QED
    BY <1>0, <2>1, <2>2, <2>3
<1>13. CASE UNCHANGED vars
  <2>1. ReadIsSelected' /\ ProbeIsSelected' /\ ListedWhereMet'
    BY <1>13, Untouched DEF vars
  <2> QED
    BY <1>0, <1>13, <2>1 DEF vars, SelectionKnown, ReadsReachOwnModule
<1> QED
  BY <1>1, <1>2, <1>3, <1>4, <1>5, <1>6, <1>7, <1>8, <1>9, <1>10, <1>11, <1>12, <1>13 DEF Next, Scan, Pass, Host

\* The inductive invariant holds in every behaviour.
THEOREM Invariant == Spec => []IInv
  BY InvInit, InvStep, PTL DEF Spec

\* Every variable of the bus, the scan and the pass keeps its type, whatever is
\* plugged in and whatever fails.
THEOREM TypeCorrect == Spec => []TypeOK
<1>1. IInv => TypeOK
  BY DEF IInv
<1> QED
  BY <1>1, Invariant, PTL

\* No bit of the matrix, published or collected, comes from a module behind
\* another channel than the bit's own: change_channel's cache is safe.
THEOREM ReadsAreOwn == Spec => []ReadsReachOwnModule
<1>1. IInv => ReadsReachOwnModule
  BY DEF IInv
<1> QED
  BY <1>1, Invariant, PTL

\* do_scan lists a device on a channel it was not met on only when selecting
\* that channel failed in that scan.
THEOREM ListIsWhereMet == Spec => []ListedWhereMet
<1>1. IInv => ListedWhereMet
  BY DEF IInv
<1> QED
  BY <1>1, Invariant, PTL

(***************************************************************************)
(* The scan that nothing disturbs.  While it runs, the slots it has passed *)
(* are right and the others still free (ScanSoFar); this needs that it     *)
(* probes the channel it means to (Fresh), and what it leaves behind is    *)
(* enough to know later that a listed device answers unless a transaction  *)
(* fails (ErrorsSoFar).                                                    *)
(***************************************************************************)

Clean == ~disturbed /\ MuxUp

\* The cached channel is the one selected, or there is none.  It may be stale
\* only until a scan has selected its first channel.
Fresh ==
  Clean => /\ pc \in {"idle", "select", "read"} \/ (pc = "scanSelect" /\ scanCh # 0)
                => lastChannel \in {NoChannel, muxReg}
           /\ pc = "probe" => lastChannel = scanCh /\ muxReg = scanCh

\* The slots a running scan has passed.
Passed(s) ==
  CASE pc = "scanSelect" -> s[1] < scanCh
    [] pc = "probe"      -> s[1] < scanCh \/ (s[1] = scanCh /\ s[2] \notin probe)
    [] OTHER             -> TRUE

ScanSoFar ==
  Clean /\ pc # "scanStart" =>
    \A s \in Slots : (Passed(s) => Exact(s)) /\ (~Passed(s) => ~Listed(s))

ErrorsSoFar ==
  Clean /\ pc # "scanStart" => \A s \in Slots : Listed(s) => devices[s].errs <= faults

CInv == Fresh /\ ScanSoFar /\ ErrorsSoFar

LEMMA CleanInit == Init => CInv
  BY DEF Init, CInv, Fresh, ScanSoFar, ErrorsSoFar

\* What is said of a slot depends on the modules and the list only.
LEMMA SameModules ==
  ASSUME UNCHANGED <<present, addrOf>>, NEW s
  PROVE  ModulesAt(s)' = ModulesAt(s) /\ (Hides(s))' = Hides(s)
BY DEF ModulesAt, Hides

LEMMA SameExact ==
  ASSUME UNCHANGED <<present, addrOf>>, NEW s, devices'[s] = devices[s], Exact(s)
  PROVE  Exact(s)'
<1>1. ModulesAt(s)' = ModulesAt(s) /\ (Hides(s))' = Hides(s)
  BY SameModules
<1> QED
  BY <1>1 DEF Exact, Listed

LEMMA FaultsAreNat == TypeOK => faults \in Nat
BY BusAssumption DEF TypeOK, CountTypeOK

\* A step of the pass, the display or the host that changes neither the list nor
\* the modules.
LEMMA QuietStep ==
  ASSUME TypeOK, CInv,
         UNCHANGED <<present, addrOf, muxPower, devices, disturbed>>,
         pc \in {"idle", "select", "read"}, pc' \in {"idle", "select", "read"},
         faults' \in Nat, faults' >= faults,
         lastChannel \in {NoChannel, muxReg} => lastChannel' \in {NoChannel, muxReg'}
  PROVE  CInv'
<1>1. Clean' = Clean
  BY DEF Clean, MuxUp
<1>2. Fresh'
  BY <1>1 DEF CInv, Fresh
<1>3. ScanSoFar'
  <2> SUFFICES ASSUME Clean, NEW s \in Slots PROVE Exact(s)' /\ Passed(s)'
    BY <1>1 DEF ScanSoFar
  <2>1. Exact(s)
    BY DEF CInv, ScanSoFar, Passed
  <2> QED
    BY <2>1, SameExact DEF Passed
<1>4. ErrorsSoFar'
  <2> SUFFICES ASSUME Clean, NEW s \in Slots, Listed(s) PROVE devices[s].errs <= faults'
    BY <1>1 DEF ErrorsSoFar, Listed
  <2>1. devices[s].errs <= faults /\ devices[s].errs \in Nat /\ faults \in Nat
    BY BusAssumption DEF CInv, ErrorsSoFar, TypeOK, ListTypeOK, CountTypeOK, Listed, Entry
  <2> QED
    BY <2>1
<1> QED
  BY <1>2, <1>3, <1>4 DEF CInv

\* The scan lists the slot it probes rightly.
LEMMA ProbedSlot ==
  ASSUME IInv, CInv, Clean', ScanProbe, NEW c, c = scanCh,
         NEW a \in probe, \A b \in probe : a <= b
  PROVE  /\ Clean /\ c \in AllChannels /\ <<c, a>> \in Slots
         /\ Exact(<<c, a>>)'
         /\ \A s \in Slots : s # <<c, a>> => devices'[s] = devices[s]
         /\ Listed(<<c, a>>)' => devices'[<<c, a>>].errs = 0
<1> DEFINE slot == <<c, a>>
<1>1. UNCHANGED <<present, addrOf, muxPower, muxReg>> /\ pc = "probe"
  BY DEF ScanProbe, bus
<1>2. probe \subseteq Nat /\ a \in Addrs /\ c \in AllChannels /\ devices \in [Slots -> Entry \cup {Free}]
  BY BusAssumption DEF IInv, TypeOK, ScanTypeOK, ListTypeOK
<1>3. slot \in Slots /\ <<0, a>> \in Slots
  BY <1>2, ZeroChannel DEF Slots
<1>4. PICK b \in probe :
        /\ \A d \in probe : b <= d
        /\ \/ \E m \in Responders(b, muxReg) :
                 /\ devices' = IF c # 0 /\ Listed(<<0, b>>) THEN devices
                               ELSE [devices EXCEPT ![<<c, b>>] =
                                       [kind |-> KindOf[m], home |-> ChanOf[m], errs |-> 0]]
                 /\ UNCHANGED <<faults, disturbed>>
           \/ /\ Responders(b, muxReg) = {}
              /\ UNCHANGED <<devices, faults, disturbed>>
           \/ /\ Responders(b, muxReg) # {}
              /\ Fault /\ disturbed' = TRUE /\ UNCHANGED devices
  BY Zenon DEF ScanProbe
<1>5. b = a
  <2>1. a <= b /\ b <= a /\ a \in Nat /\ b \in Nat
    BY <1>2, <1>4, Zenon
  <2> QED
    BY <2>1
<1>6. \/ \E m \in Responders(a, muxReg) :
            /\ devices' = IF c # 0 /\ Listed(<<0, a>>) THEN devices
                          ELSE [devices EXCEPT ![slot] =
                                  [kind |-> KindOf[m], home |-> ChanOf[m], errs |-> 0]]
            /\ UNCHANGED disturbed
      \/ Responders(a, muxReg) = {} /\ UNCHANGED <<devices, disturbed>>
  <2>1. ~disturbed'
    BY DEF Clean
  <2>2. CASE \E m \in Responders(b, muxReg) :
               /\ devices' = IF c # 0 /\ Listed(<<0, b>>) THEN devices
                             ELSE [devices EXCEPT ![<<c, b>>] =
                                     [kind |-> KindOf[m], home |-> ChanOf[m], errs |-> 0]]
               /\ UNCHANGED <<faults, disturbed>>
    <3>1. \E m \in Responders(a, muxReg) :
            /\ devices' = IF c # 0 /\ Listed(<<0, a>>) THEN devices
                          ELSE [devices EXCEPT ![<<c, a>>] =
                                  [kind |-> KindOf[m], home |-> ChanOf[m], errs |-> 0]]
            /\ UNCHANGED disturbed
      BY <1>5, <2>2
    <3> QED
      BY <3>1
  <2>3. CASE Responders(b, muxReg) = {} /\ UNCHANGED <<devices, faults, disturbed>>
    BY <1>5, <2>3
  <2> QED
    BY <1>4, <2>1, <2>2, <2>3
<1>7. Clean
  <2>1. disturbed' = disturbed /\ muxPower' = muxPower
    BY <1>1, <1>6, Zenon
  <2> QED
    BY <2>1, Zenon DEF Clean, MuxUp
<1>8. MuxUp /\ muxReg = c /\ ~Passed(slot) /\ ~Listed(slot)
  <2>1. MuxUp /\ muxReg = c
    BY <1>1, <1>7 DEF Clean, CInv, Fresh
  <2>2. ~Passed(slot)
    <3>1. slot[1] = c /\ slot[2] = a /\ ~(c < c)
      BY <1>2, BusAssumption DEF AllChannels
    <3> QED
      BY <1>1, <3>1 DEF Passed
  <2> QED
    BY <1>1, <1>3, <1>7, <2>1, <2>2 DEF CInv, ScanSoFar
<1>9. \A m : m \in Responders(a, muxReg) <=> m \in ModulesAt(slot) \/ m \in ModulesAt(<<0, a>>)
  BY <1>8 DEF Responders, ModulesAt
<1>10. c # 0 => Exact(<<0, a>>)
  <2>1. c # 0 => 0 < c
    BY <1>2, BusAssumption DEF AllChannels
  <2> QED
    BY <1>1, <1>3, <1>7, <2>1 DEF CInv, ScanSoFar, Passed
<1>11. c # 0 => (Listed(<<0, a>>) <=> ModulesAt(<<0, a>>) # {})
  BY <1>10 DEF Exact, Hides
<1>12. Hides(slot) <=> c # 0 /\ ModulesAt(<<0, a>>) # {}
  BY DEF Hides
<1>13. ModulesAt(slot)' = ModulesAt(slot) /\ (Hides(slot))' = Hides(slot)
  BY <1>1, SameModules
<1> HIDE DEF slot
<1>14. CASE UNCHANGED devices
  <2>1. ModulesAt(slot) = {} \/ Hides(slot)
    <3>1. CASE Responders(a, muxReg) = {}
      BY <1>9, <3>1
    <3>2. CASE Responders(a, muxReg) # {}
      <4>1. PICK m \in Responders(a, muxReg) :
              devices' = IF c # 0 /\ Listed(<<0, a>>) THEN devices
                         ELSE [devices EXCEPT ![slot] =
                                 [kind |-> KindOf[m], home |-> ChanOf[m], errs |-> 0]]
        BY <1>6, <3>2
      <4>2. CASE c # 0 /\ Listed(<<0, a>>)
        BY <1>11, <1>12, <4>2
      <4>3. CASE ~(c # 0 /\ Listed(<<0, a>>))
        <5>1. devices'[slot] = [kind |-> KindOf[m], home |-> ChanOf[m], errs |-> 0]
          BY <1>2, <1>3, <4>1, <4>3
        <5>2. m \in Modules /\ [kind |-> KindOf[m], home |-> ChanOf[m], errs |-> 0] \in Entry
          BY <4>1, BusAssumption DEF Responders, IInv, TypeOK, BusTypeOK, Entry
        <5> QED
          BY <1>8, <1>14, <5>1, <5>2, BusAssumption DEF Listed, Entry
      <4> QED
        BY <4>2, <4>3
    <3> QED
      BY <3>1, <3>2
  <2>2. ~Listed(slot)'
    BY <1>8, <1>14 DEF Listed
  <2> QED
    BY <1>2, <1>3, <1>7, <1>13, <1>14, <2>1, <2>2 DEF Exact, slot
<1>15. CASE ~UNCHANGED devices
  <2>1. PICK m \in Responders(a, muxReg) :
          /\ ~(c # 0 /\ Listed(<<0, a>>))
          /\ devices' = [devices EXCEPT ![slot] =
                           [kind |-> KindOf[m], home |-> ChanOf[m], errs |-> 0]]
    BY <1>6, <1>15
  <2>2. m \in Modules /\ [kind |-> KindOf[m], home |-> ChanOf[m], errs |-> 0] \in Entry
    BY <2>1, BusAssumption DEF Responders, IInv, TypeOK, BusTypeOK, Entry
  <2>3. devices'[slot] = [kind |-> KindOf[m], home |-> ChanOf[m], errs |-> 0]
        /\ \A s \in Slots : s # slot => devices'[s] = devices[s]
    BY <1>2, <1>3, <2>1
  <2>4. Listed(slot)' /\ devices'[slot].kind = KindOf[m] /\ devices'[slot].errs = 0
    BY <2>2, <2>3, BusAssumption DEF Listed, Entry
  <2>5. m \in ModulesAt(slot) /\ ~Hides(slot)
    <3>1. CASE c = 0
      <4>1. slot = <<0, a>>
        BY <3>1 DEF slot
      <4> QED
        BY <1>9, <1>12, <2>1, <3>1, <4>1
    <3>2. CASE c # 0
      BY <1>9, <1>11, <1>12, <2>1, <3>2
    <3> QED
      BY <3>1, <3>2
  <2>6. Exact(slot)'
    BY <1>13, <2>4, <2>5 DEF Exact
  <2> QED
    BY <1>2, <1>3, <1>7, <2>3, <2>4, <2>6 DEF slot
<1> QED
  BY <1>14, <1>15

\* A step after which the bus is disturbed or the scan has yet to start.
LEMMA NothingKnown ==
  ASSUME ~Clean' \/ pc' = "scanStart"
  PROVE  CInv'
BY DEF CInv, Fresh, ScanSoFar, ErrorsSoFar

LEMMA StartStep ==
  ASSUME IInv, ScanStart
  PROVE  CInv'
<1>1. CASE ~Clean'
  BY <1>1, NothingKnown
<1>2. CASE Clean'
  <2>1. MuxUp /\ muxPower' = muxPower /\ (disturbed' # TRUE)
    <3>1. muxPower' = muxPower
      BY DEF ScanStart, bus
    <3> QED
      BY <1>2, <3>1, Zenon DEF Clean, MuxUp
  <2>2. pc' = "scanSelect" /\ scanCh' = 0 /\ ResetDevices
    BY <2>1, Zenon DEF ScanStart
  <2>3. \A s \in Slots : ~Listed(s)' /\ ~(s[1] < 0)
    BY <2>2, BusAssumption DEF ResetDevices, Listed, Slots, AllChannels
  <2>4. Fresh'
    BY <2>2 DEF Fresh
  <2>5. ScanSoFar' /\ ErrorsSoFar'
    BY <2>2, <2>3 DEF ScanSoFar, ErrorsSoFar, Passed
  <2> QED
    BY <2>4, <2>5 DEF CInv
<1> QED
  BY <1>1, <1>2

LEMMA SelectStep ==
  ASSUME IInv, CInv, ScanSelect
  PROVE  CInv'
<1>1. CASE ~Clean'
  BY <1>1, NothingKnown
<1>2. CASE Clean'
  <2>1. /\ UNCHANGED <<present, addrOf, muxPower, devices, scanCh>> /\ pc = "scanSelect"
        /\ pc' = "probe" /\ probe' = Addrs
    BY DEF ScanSelect, bus
  <2>2. SwitchOk(scanCh) /\ UNCHANGED <<faults, disturbed>>
    BY <1>2, Zenon DEF ScanSelect, Clean
  <2>3. Clean
    BY <1>2, <2>1, <2>2, Zenon DEF Clean, MuxUp
  <2>4. lastChannel' = scanCh /\ muxReg' = scanCh
    <3>1. CASE lastChannel = scanCh /\ UNCHANGED <<muxReg, lastChannel>>
      <4>1. scanCh # NoChannel
        BY BusAssumption DEF IInv, TypeOK, ScanTypeOK
      <4>2. CASE scanCh = 0
        BY <3>1, <4>1, <4>2 DEF IInv, SelectionKnown
      <4>3. CASE scanCh # 0
        BY <2>1, <2>3, <3>1, <4>1, <4>3 DEF CInv, Fresh
      <4> QED
        BY <4>2, <4>3
    <3>2. CASE muxReg' = scanCh /\ lastChannel' = scanCh
      BY <3>2
    <3> QED
      BY <2>2, <3>1, <3>2 DEF SwitchOk
  <2>5. Fresh'
    BY <2>1, <2>4 DEF Fresh
  <2>6. ScanSoFar'
    <3> SUFFICES ASSUME NEW s \in Slots
                 PROVE  (Passed(s)' => Exact(s)') /\ (~Passed(s)' => ~Listed(s)')
      BY DEF ScanSoFar
    <3>1. s[2] \in Addrs
      BY DEF Slots
    <3>2. Passed(s)' <=> Passed(s)
      BY <2>1, <3>1 DEF Passed
    <3>3. Listed(s)' = Listed(s) /\ devices'[s] = devices[s]
      BY <2>1 DEF Listed
    <3>4. (Passed(s) => Exact(s)) /\ (~Passed(s) => ~Listed(s))
      BY <2>1, <2>3 DEF CInv, ScanSoFar
    <3>5. Exact(s) => Exact(s)'
      BY <2>1, <3>3, SameExact
    <3> QED
      BY <3>2, <3>3, <3>4, <3>5
  <2>7. ErrorsSoFar'
    BY <2>1, <2>2, <2>3 DEF CInv, ErrorsSoFar, Listed
  <2> QED
    BY <2>5, <2>6, <2>7 DEF CInv
<1> QED
  BY <1>1, <1>2

LEMMA ProbeStep ==
  ASSUME IInv, CInv, ScanProbe
  PROVE  CInv'
<1>1. CASE ~Clean'
  BY <1>1, NothingKnown
<1>2. CASE Clean'
  <2>1. PICK a \in probe : (\A b \in probe : a <= b) /\ NextProbe(a)
    BY DEF ScanProbe
  <2>2. PICK c : c = scanCh
    OBVIOUS
  <2>3. /\ Clean /\ c \in AllChannels /\ <<c, a>> \in Slots
        /\ Exact(<<c, a>>)'
        /\ \A s \in Slots : s # <<c, a>> => devices'[s] = devices[s]
        /\ Listed(<<c, a>>)' => devices'[<<c, a>>].errs = 0
    BY <1>2, <2>1, <2>2, ProbedSlot
  <2>4. /\ UNCHANGED <<present, addrOf, muxReg>> /\ pc = "probe"
        /\ muxReg = c /\ lastChannel = c /\ probe' = probe \ {a}
    BY <2>1, <2>2, <2>3 DEF ScanProbe, NextProbe, bus, CInv, Fresh
  <2>5. \/ probe' # {} /\ pc' = "probe" /\ scanCh' = c /\ lastChannel' = c
        \/ probe' = {} /\ c < NumCh /\ pc' = "scanSelect" /\ scanCh' = c + 1 /\ lastChannel' = c
        \/ probe' = {} /\ ~(c < NumCh) /\ pc' \in {"scanStart", "select", "idle"}
           /\ lastChannel' = NoChannel
    BY <2>1, <2>2, <2>4 DEF NextProbe, Return
  <2>6. Fresh'
    BY <2>4, <2>5 DEF Fresh
  <2>7. ASSUME NEW s \in Slots, s # <<c, a>>
        PROVE  (Passed(s) => Exact(s)') /\ (~Passed(s) => ~Listed(s)')
    <3>1. devices'[s] = devices[s] /\ Listed(s)' = Listed(s)
      BY <2>3, <2>7 DEF Listed
    <3>2. (Passed(s) => Exact(s)) /\ (~Passed(s) => ~Listed(s))
      BY <2>3, <2>4, <2>7 DEF CInv, ScanSoFar
    <3>3. Exact(s) => Exact(s)'
      BY <2>4, <3>1, SameExact
    <3> QED
      BY <3>1, <3>2, <3>3
  <2>8. ScanSoFar'
    <3> SUFFICES ASSUME NEW s \in Slots, pc' # "scanStart"
                 PROVE  (Passed(s)' => Exact(s)') /\ (~Passed(s)' => ~Listed(s)')
      BY DEF ScanSoFar
    <3>1. s[1] \in 0 .. NumCh /\ s = <<s[1], s[2]>> /\ c \in 0 .. NumCh /\ NumCh \in Nat
          /\ s[2] \in Addrs
      BY <2>3, BusAssumption DEF Slots, AllChannels
    <3>2. CASE s = <<c, a>>
      <4>1. s[1] = c /\ s[2] = a
        BY <3>2
      <4>2. Passed(s)'
        <5>1. c < c + 1
          BY <3>1
        <5> QED
          BY <2>4, <2>5, <4>1, <5>1 DEF Passed
      <4> QED
        BY <2>3, <3>2, <4>2
    <3>3. CASE s # <<c, a>>
      <4>1. Passed(s)' <=> Passed(s)
        <5>1. s[1] # c \/ s[2] # a
          BY <3>1, <3>3
        <5>2. Passed(s) <=> s[1] < c \/ (s[1] = c /\ s[2] \notin probe)
          BY <2>2, <2>4 DEF Passed
        <5>3. s[1] = c => (s[2] \notin probe <=> s[2] \notin probe')
          BY <2>4, <5>1
        <5>4. CASE probe' # {}
          BY <2>5, <5>2, <5>3, <5>4 DEF Passed
        <5>5. CASE probe' = {} /\ c < NumCh
          <6>1. Passed(s)' <=> s[1] < c + 1
            BY <2>5, <5>5 DEF Passed
          <6>2. s[1] < c + 1 <=> s[1] < c \/ s[1] = c
            BY <3>1
          <6> QED
            BY <5>2, <5>3, <5>5, <6>1, <6>2
        <5>6. CASE probe' = {} /\ ~(c < NumCh)
          <6>1. Passed(s)'
            BY <2>5, <5>6 DEF Passed
          <6>2. s[1] < c \/ s[1] = c
            BY <3>1, <5>6
          <6> QED
            BY <5>2, <5>3, <5>6, <6>1, <6>2
        <5> QED
          BY <5>4, <5>5, <5>6
      <4> QED
        BY <2>7, <3>3, <4>1
    <3> QED
      BY <3>2, <3>3
  <2>9. ErrorsSoFar'
    <3> SUFFICES ASSUME NEW s \in Slots, Listed(s)' PROVE devices'[s].errs <= faults'
      BY DEF ErrorsSoFar
    <3>1. faults' \in Nat /\ faults' >= faults /\ faults \in Nat
      <4>1. faults' = faults \/ faults' = faults + 1
        BY Zenon DEF ScanProbe, Fault
      <4> QED
        BY <4>1, FaultsAreNat DEF IInv
    <3>2. CASE s = <<c, a>>
      BY <2>3, <3>1, <3>2
    <3>3. CASE s # <<c, a>>
      <4>1. devices'[s] = devices[s] /\ Listed(s)
        BY <2>3, <3>3 DEF Listed
      <4>2. devices[s].errs <= faults /\ devices[s].errs \in Nat
        BY <2>3, <2>4, <4>1, BusAssumption
          DEF CInv, ErrorsSoFar, IInv, TypeOK, ListTypeOK, Listed, Entry
      <4> QED
        BY <3>1, <4>1, <4>2
    <3> QED
      BY <3>2, <3>3
  <2> QED
    BY <2>6, <2>8, <2>9 DEF CInv
<1> QED
  BY <1>1, <1>2

\* A device that is listed answers, so that only a fault makes its read fail.
LEMMA FailStep ==
  ASSUME IInv, CInv, ReadFails
  PROVE  CInv'
<1>1. CASE ~Clean'
  BY <1>1, NothingKnown
<1>2. CASE Clean'
  <2>1. /\ UNCHANGED <<present, addrOf, muxPower, muxReg, lastChannel, disturbed>>
        /\ pc = "read" /\ pc' \in {"scanStart", "select"}
    BY DEF ReadFails, RescanAndGiveUp, bus
  <2>2. Clean
    BY <1>2, <2>1, Zenon DEF Clean, MuxUp
  <2>3. PICK s \in pending :
          /\ Head(s)
          /\ \/ Responders(s[2], muxReg) = {} /\ UNCHANGED faults
             \/ Responders(s[2], muxReg) # {} /\ Fault
          /\ devices' = [devices EXCEPT ![s].errs =
               IF devices[s].errs < ErrMax THEN devices[s].errs + 1 ELSE devices[s].errs]
    BY Zenon DEF ReadFails
  <2>4. s \in Slots /\ Listed(s) /\ devices[s] \in Entry /\ devices \in [Slots -> Entry \cup {Free}]
    BY DEF IInv, TypeOK, PassTypeOK, ListTypeOK, Listed
  <2> DEFINE n == IF devices[s].errs < ErrMax THEN devices[s].errs + 1 ELSE devices[s].errs
  <2>5. \A t \in Slots : Exact(t)
    BY <2>1, <2>2 DEF CInv, ScanSoFar, Passed
  <2>6. Fault
    <3>1. muxReg = s[1]
      <4>1. lastChannel = s[1]
        BY <2>1, <2>3 DEF IInv, ReadIsSelected
      <4>2. lastChannel # NoChannel
        BY <2>4, <4>1, BusAssumption DEF Slots
      <4> QED
        BY <2>1, <2>2, <4>1, <4>2 DEF CInv, Fresh
    <3>2. ModulesAt(s) # {}
      BY <2>4, <2>5 DEF Exact
    <3>3. Responders(s[2], muxReg) # {}
      BY <2>2, <3>1, <3>2 DEF Responders, ModulesAt, Clean
    <3> QED
      BY <2>3, <3>3
  <2>7. faults \in Nat /\ faults' = faults + 1
    BY <2>6, FaultsAreNat DEF IInv, Fault
  <2>8. devices'[s].errs = n /\ devices'[s].kind = devices[s].kind /\ Listed(s)'
        /\ \A t \in Slots : t # s => devices'[t] = devices[t]
    <3>1. devices'[s] = [devices[s] EXCEPT !.errs = n]
          /\ \A t \in Slots : t # s => devices'[t] = devices[t]
      BY <2>3, <2>4
    <3>2. n \in 0 .. ErrMax
      <4>1. devices[s].errs \in 0 .. ErrMax /\ ErrMax \in Nat
        BY <2>4, BusAssumption DEF Entry
      <4> QED
        BY <4>1
    <3> HIDE DEF n
    <3>3. devices'[s] \in Entry /\ devices'[s].errs = n /\ devices'[s].kind = devices[s].kind
      BY <2>4, <3>1, <3>2 DEF Entry
    <3> QED
      BY <3>1, <3>3, BusAssumption DEF Listed, Entry
  <2>9. Fresh'
    BY <2>1, <2>2 DEF CInv, Fresh
  <2>10. ScanSoFar'
    <3> SUFFICES ASSUME NEW t \in Slots PROVE Exact(t)' /\ (Passed(t)' \/ pc' = "scanStart")
      BY DEF ScanSoFar
    <3>1. Passed(t)' \/ pc' = "scanStart"
      BY <2>1 DEF Passed
    <3>2. CASE t # s
      BY <2>1, <2>5, <2>8, <3>1, <3>2, SameExact
    <3>3. CASE t = s
      <4>1. ModulesAt(s)' = ModulesAt(s) /\ (Hides(s))' = Hides(s)
        BY <2>1, SameModules
      <4>2. Exact(s)
        BY <2>4, <2>5
      <4>3. Exact(s)'
        BY <2>4, <2>8, <4>1, <4>2 DEF Exact
      <4> QED
        BY <3>1, <3>3, <4>3
    <3> QED
      BY <3>2, <3>3
  <2>11. ErrorsSoFar'
    <3> SUFFICES ASSUME NEW t \in Slots, Listed(t)' PROVE devices'[t].errs <= faults'
      BY DEF ErrorsSoFar
    <3>1. \A u \in Slots : Listed(u) => devices[u].errs <= faults /\ devices[u].errs \in Nat
      BY <2>1, <2>2, BusAssumption DEF CInv, ErrorsSoFar, IInv, TypeOK, ListTypeOK, Listed, Entry
    <3>2. CASE t = s
      <4>1. n <= faults'
        BY <2>4, <2>7, <3>1
      <4> QED
        BY <2>8, <3>2, <4>1
    <3>3. CASE t # s
      <4>1. Listed(t) /\ devices'[t] = devices[t]
        BY <2>8, <3>3 DEF Listed
      <4> QED
        BY <2>7, <3>1, <4>1
    <3> QED
      BY <3>2, <3>3
  <2> QED
    BY <2>9, <2>10, <2>11 DEF CInv
<1> QED
  BY <1>1, <1>2

LEMMA CleanStep == IInv /\ CInv /\ [Next]_vars => CInv'
<1> SUFFICES ASSUME IInv, CInv, [Next]_vars PROVE CInv'
  OBVIOUS
<1>0. TypeOK /\ faults \in Nat /\ faults >= faults /\ faults + 1 >= faults /\ faults + 1 \in Nat
  BY FaultsAreNat DEF IInv
<1>1. CASE Scan
  BY <1>1, StartStep, SelectStep, ProbeStep DEF Scan
<1>2. CASE BeginPass \/ ReadDevice \/ EndRow
  <2>1. /\ UNCHANGED <<present, addrOf, muxPower, devices, disturbed, faults, lastChannel, muxReg>>
        /\ pc \in {"idle", "select", "read"} /\ pc' \in {"idle", "select", "read"}
    BY <1>2 DEF BeginPass, ReadDevice, EndRow, bus
  <2> QED
    BY <1>0, <2>1, QuietStep
<1>3. CASE SelectDevice \/ OledSend
  <2>1. /\ UNCHANGED <<present, addrOf, muxPower, devices, disturbed>>
        /\ pc \in {"idle", "select", "read"} /\ pc' \in {"idle", "select", "read"}
    BY <1>3 DEF SelectDevice, OledSend, bus
  <2>2. \E c : (SwitchOk(c) /\ UNCHANGED faults) \/ SwitchFails(c)
    BY <1>3, Zenon DEF SelectDevice, OledSend, SelectOled
  <2>3. /\ faults' = faults \/ faults' = faults + 1
        /\ lastChannel \in {NoChannel, muxReg} => lastChannel' \in {NoChannel, muxReg'}
    BY <2>2 DEF SwitchOk, SwitchFails, ForgetChannel, Fault
  <2>4. faults' \in Nat /\ faults' >= faults
    BY <1>0, <2>3
  <2> QED
    BY <1>0, <2>1, <2>3, <2>4, QuietStep
<1>4. CASE ReadFails
  BY <1>4, FailStep
<1>5. CASE HostRescan
  BY <1>5, NothingKnown DEF HostRescan
<1>6. ASSUME NEW c \in AllChannels, NEW old \in Addrs, NEW new \in V2Addrs, HostUpdateAddress(c, old, new)
      PROVE  CInv'
  <2>1. CASE Change
    BY <2>1, NothingKnown DEF Change, Clean
  <2>2. CASE /\ \/ SwitchOk(c) /\ UNCHANGED faults
                \/ SwitchOk(c) /\ Fault
                \/ SwitchFails(c)
             /\ UNCHANGED <<addrOf, pc, disturbed>>
    <3>1. /\ UNCHANGED <<present, addrOf, muxPower, devices, disturbed>> /\ pc = "idle" /\ pc' = "idle"
      BY <1>6, <2>2 DEF HostUpdateAddress
    <3>2. /\ faults' = faults \/ faults' = faults + 1
          /\ lastChannel \in {NoChannel, muxReg} => lastChannel' \in {NoChannel, muxReg'}
      BY <2>2 DEF SwitchOk, SwitchFails, ForgetChannel, Fault
    <3>3. faults' \in Nat /\ faults' >= faults
      BY <1>0, <3>2
    <3> QED
      BY <1>0, <3>1, <3>2, <3>3, QuietStep
  <2> QED
    BY <1>6, <2>1, <2>2, Zenon DEF HostUpdateAddress
<1>7. CASE Environment
  <2>1. disturbed' = TRUE
    BY <1>7, Zenon DEF Environment, Plug, Unplug, MuxDown, MuxPowerUp, Change
  <2> QED
    BY <2>1, NothingKnown DEF Clean
<1>8. CASE UNCHANGED vars
  BY <1>8 DEF vars, CInv, Fresh, ScanSoFar, ErrorsSoFar, Clean, MuxUp, Passed, Exact, Hides,
              Listed, ModulesAt
<1> QED
  BY <1>1, <1>2, <1>3, <1>4, <1>5, <1>6, <1>7, <1>8 DEF Next, Pass, Host

\* What an undisturbed do_scan has found so far is right in every behaviour,
\* whatever disturbed the scans before it.
THEOREM CleanInvariant == Spec => [](IInv /\ CInv)
  BY Invariant, CleanInit, CleanStep, PTL DEF Spec

\* After a do_scan that nothing disturbed the list is exactly what is plugged
\* in, for any modules at any addresses of any number of channels.
THEOREM ScanIsExact == Spec => []CleanScanIsExact
<1>1. CInv => CleanScanIsExact
  BY DEF CInv, ScanSoFar, Clean, Passed, CleanScanIsExact
<1> QED
  BY <1>1, CleanInvariant, PTL

\* handle_i2c_read_result counts, until the bus is disturbed again, no more
\* errors than transactions failed: without faults no scan is triggered.
THEOREM CountedErrorsAreFaults == Spec => []ErrorsAreFaults
<1>1. CInv => ErrorsAreFaults
  BY DEF CInv, ErrorsSoFar, Clean, ErrorsAreFaults
<1> QED
  BY <1>1, CleanInvariant, PTL

\* After a clean scan that hid nothing, update_v2_address never gives two
\* modules of a channel one address, though it asks the list and not the bus.
THEOREM AddressesStayApart == Spec => UpdateKeepsAddressesApart
<1>1. ASSUME IInv, CInv, [Next]_vars, ~disturbed, MuxUp, Apart, Hidden = {}, pc = "idle", addrOf' # addrOf
      PROVE  Apart'
  <2>1. PICK c \in AllChannels, old \in Addrs, new \in V2Addrs : HostUpdateAddress(c, old, new)
    BY <1>1 DEF Next, Scan, ScanStart, ScanSelect, ScanProbe, Pass, BeginPass, SelectDevice, ReadDevice,
      ReadFails, EndRow, OledSend, Host, HostRescan, Environment, Plug, Unplug, MuxDown, MuxPowerUp,
      bus, vars
  <2>2. SwitchOk(c) /\ addrOf' = Readdressed(old, new, muxReg') /\ present' = present /\ ~InUse(c, new)
    BY <1>1, <2>1 DEF HostUpdateAddress
  <2>3. muxReg' = c
    <3>1. lastChannel \in {NoChannel, muxReg} /\ c # NoChannel
      BY <1>1, BusAssumption DEF CInv, Fresh, Clean
    <3> QED
      BY <2>2, <3>1 DEF SwitchOk
  <2>4. <<c, new>> \in Slots /\ <<c, old>> \in Slots
    BY BusAssumption DEF Slots
  <2>5. c # 0 => ModulesAt(<<c, new>>) = {}
    <3>1. Exact(<<c, new>>)
      BY <1>1, <2>4 DEF CInv, ScanSoFar, Clean, Passed
    <3>2. ~Listed(<<c, new>>)
      BY <2>2 DEF InUse
    <3>3. ModulesAt(<<c, new>>) = {} \/ Hides(<<c, new>>)
      BY <3>1, <3>2 DEF Exact
    <3> QED
      BY <1>1, <2>4, <3>3 DEF Hidden
  <2> SUFFICES ASSUME NEW s \in Slots, s[1] # 0, NEW m \in ModulesAt(s)', NEW k \in ModulesAt(s)'
               PROVE  m = k
    BY DEF Apart
  <2> DEFINE Moved(x) == x \in Responders(old, c) /\ KindOf[x] \in {"keys", "re"}
  <2>6. \A x \in ModulesAt(s)' :
          /\ x \in Modules /\ x \in present /\ ChanOf[x] = s[1]
          /\ Moved(x) => s[1] = c /\ s[2] = new /\ x \in ModulesAt(<<c, old>>)
          /\ ~Moved(x) => x \in ModulesAt(s)
    <3> SUFFICES ASSUME NEW x \in ModulesAt(s)'
                 PROVE  /\ x \in Modules /\ x \in present /\ ChanOf[x] = s[1]
                        /\ Moved(x) => s[1] = c /\ s[2] = new /\ x \in ModulesAt(<<c, old>>)
                        /\ ~Moved(x) => x \in ModulesAt(s)
      OBVIOUS
    <3>1. x \in present /\ ChanOf[x] = s[1] /\ addrOf'[x] = s[2] /\ x \in Modules
      BY <1>1, <2>2 DEF ModulesAt, IInv, TypeOK, BusTypeOK
    <3>2. addrOf'[x] = IF Moved(x) THEN new ELSE addrOf[x]
      BY <2>2, <2>3, <3>1 DEF Readdressed
    <3>3. CASE Moved(x)
      BY <3>1, <3>2, <3>3 DEF Responders, ModulesAt
    <3>4. CASE ~Moved(x)
      BY <3>1, <3>2, <3>4 DEF ModulesAt
    <3> QED
      BY <3>1, <3>3, <3>4
  <2>7. s = <<s[1], s[2]>>
    BY DEF Slots
  <2> HIDE DEF Moved
  <2>8. CASE Moved(m) /\ Moved(k)
    BY <1>1, <2>4, <2>6, <2>8 DEF Apart
  <2>9. CASE ~Moved(m) /\ ~Moved(k)
    BY <1>1, <2>6, <2>9 DEF Apart
  <2>10. CASE (Moved(m) /\ ~Moved(k)) \/ (~Moved(m) /\ Moved(k))
    BY <2>5, <2>6, <2>7, <2>10
  <2> QED
    BY <2>8, <2>9, <2>10
<1>2. IInv /\ CInv /\ [Next]_vars =>
        [~disturbed /\ MuxUp /\ Apart /\ Hidden = {} /\ pc = "idle" /\ addrOf' # addrOf => Apart']_vars
  BY <1>1
<1> QED
  BY <1>2, CleanInvariant, PTL DEF Spec, UpdateKeepsAddressesApart

(***************************************************************************)
(* The encoder row.  The pass stores each encoder at encoder_index, which  *)
(* counts those it reads; encoder_quadrature_read_pin counts those of the  *)
(* list.  Both agree as long as none was passed over: then the index is    *)
(* the number of encoders before the next one.                             *)
(***************************************************************************)

\* The order of two encoders in the sorted list.
OnBus(s, t)   == s[1] < t[1] \/ (s[1] = t[1] /\ s[2] < t[2])
Earlier(R, s) == {t \in R : OnBus(t, s)}

RowEncoders == {s \in Slots : Listed(s) /\ s[1] # 0 /\ devices[s].kind = "re"}
Done        == RowEncoders \ pending

InEncoderRow == pc \in {"select", "read"} /\ row = ReRow /\ after # "row"

Stored(R, D, enc) ==
  \A d \in D, k \in 0 .. NumEnc - 1 : k = Cardinality(Earlier(R, d)) => enc[k] = d

EncodersSoFar ==
  InEncoderRow =>
    /\ pending \subseteq RowEncoders
    /\ \A d \in Done, p \in pending : OnBus(d, p)
    /\ encIdx <= Cardinality(Done)
    /\ encIdx = Cardinality(Done) => Stored(RowEncoders, Done, encoder)

LEMMA SlotsAreFinite == IsFiniteSet(Slots)
<1>1. IsFiniteSet(AllChannels)
  BY BusAssumption, FS_Interval DEF AllChannels
<1> QED
  BY <1>1, BusAssumption, FS_Product DEF Slots

LEMMA SlotsAreNumbers == \A s \in Slots : s[1] \in Nat /\ s[2] \in Nat /\ s = <<s[1], s[2]>>
                                          /\ s[1] <= NumCh
<1> SUFFICES ASSUME NEW s \in Slots
             PROVE  s[1] \in Nat /\ s[2] \in Nat /\ s = <<s[1], s[2]>> /\ s[1] <= NumCh
  OBVIOUS
<1>1. s[1] \in 0 .. NumCh /\ s[2] \in Addrs /\ s = <<s[1], s[2]>>
  BY DEF Slots, AllChannels
<1>2. NumCh \in Nat /\ Addrs \subseteq Nat
  BY BusAssumption
<1> QED
  BY <1>1, <1>2

\* Encoders of the second generation fill the encoder row and nothing else does.
LEMMA EncoderRow ==
  ASSUME TypeOK
  PROVE  RowDevices(ReRow) = RowEncoders
<1>1. ASSUME NEW s \in Slots, Listed(s)
      PROVE  s[1] # ReRow /\ ReRow # 1 /\ devices[s].kind \in Kinds
  BY <1>1, SlotsAreNumbers, BusAssumption DEF TypeOK, ListTypeOK, Listed, Entry, ReRow
<1> QED
  BY <1>1 DEF RowDevices, RowEncoders, RowOf, Kinds

LEMMA EncodersBefore ==
  ASSUME TypeOK, NEW s \in Encoders, NEW t \in Encoders,
         devices[s].kind = "re", devices[t].kind = "re"
  PROVE  Before(s, t) <=> OnBus(s, t)
  BY DEF Before, Rank, OnBus

\* One encoder after another: the one the pass is at has the encoders done
\* before it, and each of those fewer.
LEMMA NextEncoder ==
  ASSUME NEW R \in SUBSET Slots, NEW P \in SUBSET R, NEW s \in P,
         \A p \in P \ {s} : OnBus(s, p),
         \A d \in R \ P, p \in P : OnBus(d, p)
  PROVE  /\ Earlier(R, s) = R \ P
         /\ R \ (P \ {s}) = (R \ P) \cup {s}
         /\ Cardinality(R \ P) \in Nat
         /\ Cardinality(R \ (P \ {s})) = Cardinality(R \ P) + 1
         /\ \A d \in R \ P : Cardinality(Earlier(R, d)) # Cardinality(R \ P)
         /\ \A d \in R \ (P \ {s}), p \in P \ {s} : OnBus(d, p)
<1>1. \A x, y \in R : x # y => ~(OnBus(x, y) /\ OnBus(y, x))
  BY SlotsAreNumbers DEF OnBus
<1>2. \A x \in R : ~OnBus(x, x)
  BY SlotsAreNumbers DEF OnBus
<1>3. R \ (P \ {s}) = (R \ P) \cup {s} /\ s \notin R \ P
  OBVIOUS
<1>4. IsFiniteSet(R) /\ IsFiniteSet(R \ P)
  BY SlotsAreFinite, FS_Subset
<1>5. Earlier(R, s) = R \ P
  BY <1>1, <1>2 DEF Earlier
<1>6. Cardinality(R \ (P \ {s})) = Cardinality(R \ P) + 1
  BY <1>3, <1>4, FS_AddElement
<1>7. ASSUME NEW d \in R \ P PROVE Cardinality(Earlier(R, d)) # Cardinality(R \ P)
  <2>1. Earlier(R, d) \subseteq R \ P
    BY <1>1, <1>2 DEF Earlier
  <2>2. d \notin Earlier(R, d)
    BY <1>2 DEF Earlier
  <2> QED
    BY <1>4, <2>1, <2>2, FS_Subset
<1>8. Cardinality(R \ P) \in Nat
  BY <1>4, FS_CardinalityType
<1> QED
  BY <1>3, <1>5, <1>6, <1>7, <1>8

\* Storing an encoder, or passing it over, keeps the agreement.
LEMMA EncoderDone ==
  ASSUME NEW R \in SUBSET Slots, NEW P \in SUBSET R, NEW s \in P,
         \A p \in P \ {s} : OnBus(s, p),
         \A d \in R \ P, p \in P : OnBus(d, p),
         NEW i \in Nat, i <= Cardinality(R \ P),
         NEW e \in [0 .. NumEnc - 1 -> Slots \cup {Free}],
         i = Cardinality(R \ P) => Stored(R, R \ P, e)
  PROVE  /\ \A d \in R \ (P \ {s}), p \in P \ {s} : OnBus(d, p)
         /\ i <= Cardinality(R \ (P \ {s}))
         /\ i # Cardinality(R \ (P \ {s}))
         /\ i + 1 <= Cardinality(R \ (P \ {s}))
         /\ i + 1 = Cardinality(R \ (P \ {s})) =>
              Stored(R, R \ (P \ {s}), [e EXCEPT ![i] = s])
<1> DEFINE D == R \ P
           N == R \ (P \ {s})
<1>1. /\ Earlier(R, s) = D
      /\ N = D \cup {s}
      /\ Cardinality(D) \in Nat
      /\ Cardinality(N) = Cardinality(D) + 1
      /\ \A d \in D : Cardinality(Earlier(R, d)) # Cardinality(D)
      /\ \A d \in N, p \in P \ {s} : OnBus(d, p)
  BY NextEncoder
<1>2. i <= Cardinality(N) /\ i # Cardinality(N) /\ i + 1 <= Cardinality(N)
  BY <1>1
<1>3. ASSUME i + 1 = Cardinality(N) PROVE Stored(R, N, [e EXCEPT ![i] = s])
  <2>1. i = Cardinality(D) /\ Stored(R, D, e)
    BY <1>1, <1>3
  <2> SUFFICES ASSUME NEW d \in N, NEW k \in 0 .. NumEnc - 1, k = Cardinality(Earlier(R, d))
               PROVE  [e EXCEPT ![i] = s][k] = d
    BY DEF Stored
  <2>2. CASE d = s
    BY <1>1, <2>1, <2>2
  <2>3. CASE d \in D
    <3>1. k # i /\ e[k] = d
      BY <1>1, <2>1, <2>3 DEF Stored
    <3> QED
      BY <3>1
  <2> QED
    BY <1>1, <2>2, <2>3
<1> QED
  BY <1>1, <1>2, <1>3

LEMMA EncodersInit == Init => EncodersSoFar
  BY DEF Init, EncodersSoFar, InEncoderRow

\* A step that leaves the row, or leaves all of it alone.
LEMMA RowLeft ==
  ASSUME EncodersSoFar,
         InEncoderRow' => InEncoderRow /\ UNCHANGED <<devices, pending, encIdx, encoder>>
  PROVE  EncodersSoFar'
<1>1. CASE ~InEncoderRow'
  BY <1>1 DEF EncodersSoFar
<1>2. CASE InEncoderRow'
  BY <1>2 DEF EncodersSoFar, Done, RowEncoders, Listed
<1> QED
  BY <1>1, <1>2

\* The pass goes past one device of the row.
LEMMA RowStep ==
  ASSUME TypeOK, EncodersSoFar, InEncoderRow, NEW s \in pending, Head(s),
         pending' = pending \ {s}, RowEncoders' = RowEncoders,
         UNCHANGED <<encIdx, encoder>> \/ StoreEncoder(s)
  PROVE  EncodersSoFar'
<1>1. /\ RowEncoders \in SUBSET Slots /\ pending \in SUBSET RowEncoders /\ encIdx \in Nat
      /\ encoder \in [0 .. NumEnc - 1 -> Slots \cup {Free}]
  BY DEF EncodersSoFar, RowEncoders, TypeOK, CountTypeOK, PassTypeOK
<1>2. \A p \in pending \ {s} : OnBus(s, p)
  BY <1>1, EncodersBefore DEF Head, RowEncoders, Encoders
<1>3. /\ \A d \in RowEncoders \ pending, p \in pending : OnBus(d, p)
      /\ encIdx <= Cardinality(RowEncoders \ pending)
      /\ encIdx = Cardinality(RowEncoders \ pending) => Stored(RowEncoders, RowEncoders \ pending, encoder)
  BY DEF EncodersSoFar, Done
<1>4. devices[s].kind = "re"
  BY <1>1 DEF RowEncoders
<1>5. /\ \A d \in RowEncoders \ (pending \ {s}), p \in pending \ {s} : OnBus(d, p)
      /\ encIdx <= Cardinality(RowEncoders \ (pending \ {s}))
      /\ encIdx # Cardinality(RowEncoders \ (pending \ {s}))
      /\ encIdx + 1 <= Cardinality(RowEncoders \ (pending \ {s}))
      /\ encIdx + 1 = Cardinality(RowEncoders \ (pending \ {s})) =>
           Stored(RowEncoders, RowEncoders \ (pending \ {s}), [encoder EXCEPT ![encIdx] = s])
  BY <1>1, <1>2, <1>3, EncoderDone
<1>6. Done' = RowEncoders \ (pending \ {s})
  BY DEF Done
<1>7. CASE UNCHANGED <<encIdx, encoder>>
  BY <1>1, <1>5, <1>6, <1>7 DEF EncodersSoFar
<1>8. CASE encIdx' = encIdx + 1 /\ encoder' = [encoder EXCEPT ![encIdx] = s]
  BY <1>1, <1>5, <1>6, <1>8 DEF EncodersSoFar
<1> QED
  BY <1>4, <1>7, <1>8 DEF StoreEncoder

LEMMA EncodersStep == TypeOK /\ TypeOK' /\ EncodersSoFar /\ [Next]_vars => EncodersSoFar'
<1> SUFFICES ASSUME TypeOK, TypeOK', EncodersSoFar, [Next]_vars PROVE EncodersSoFar'
  OBVIOUS
<1>1. CASE Scan
  <2>1. pc' = "select" => after' = "row"
    BY <1>1 DEF Scan, ScanStart, ScanSelect, ScanProbe, NextProbe, Return
  <2>2. pc' # "read"
    BY <1>1 DEF Scan, ScanStart, ScanSelect, ScanProbe, NextProbe, Return
  <2> QED
    BY <2>1, <2>2, RowLeft DEF InEncoderRow
<1>2. CASE BeginPass
  <2>1. row' = 1 /\ ReRow # 1
    BY <1>2, BusAssumption DEF BeginPass, BeginRow, ReRow
  <2> QED
    BY <2>1, RowLeft DEF InEncoderRow
<1>3. CASE SelectDevice
  <2>1. /\ UNCHANGED <<devices, row, encIdx, encoder, after>> /\ pc = "select"
        /\ \E s \in pending : Head(s) /\ (UNCHANGED pending \/ pending' = pending \ {s})
    BY <1>3 DEF SelectDevice, PassOver, scanVars
  <2>2. CASE UNCHANGED pending \/ ~InEncoderRow
    BY <2>1, <2>2, RowLeft DEF InEncoderRow
  <2>3. CASE ~UNCHANGED pending /\ InEncoderRow
    <3>1. PICK s \in pending : Head(s) /\ pending' = pending \ {s}
      BY <2>1, <2>3
    <3> QED
      BY <2>1, <2>3, <3>1, RowStep DEF RowEncoders, Listed
  <2> QED
    BY <2>2, <2>3
<1>4. CASE ReadDevice
  <2>1. PICK s \in pending : Head(s) /\ StoreEncoder(s) /\ pending' = pending \ {s}
    BY <1>4 DEF ReadDevice
  <2>2. UNCHANGED <<devices, row, after>> /\ pc = "read" /\ pc' = "select"
    BY <1>4 DEF ReadDevice, scanVars
  <2>3. CASE InEncoderRow
    BY <2>1, <2>2, <2>3, RowStep DEF RowEncoders, Listed
  <2>4. CASE ~InEncoderRow
    BY <2>2, <2>4, RowLeft DEF InEncoderRow
  <2> QED
    BY <2>3, <2>4
<1>5. CASE ReadFails
  <2>1. PICK s \in pending :
          /\ Head(s) /\ StoreEncoder(s)
          /\ \/ pc' = "scanStart"
             \/ pc' = "select" /\ pending' = pending \ {s} /\ UNCHANGED after
          /\ devices' = [devices EXCEPT ![s].errs =
               IF devices[s].errs < ErrMax THEN devices[s].errs + 1 ELSE devices[s].errs]
    BY <1>5, Zenon DEF ReadFails, RescanAndGiveUp
  <2>2. row' = row /\ pc = "read"
    BY <1>5 DEF ReadFails
  <2>3. CASE InEncoderRow /\ pc' = "select"
    <3>1. RowEncoders' = RowEncoders
      <4> DEFINE n == IF devices[s].errs < ErrMax THEN devices[s].errs + 1 ELSE devices[s].errs
      <4>1. s \in Slots /\ devices[s] \in Entry /\ devices \in [Slots -> Entry \cup {Free}]
        BY DEF TypeOK, PassTypeOK, ListTypeOK, Listed
      <4>2. n \in 0 .. ErrMax
        <5>1. devices[s].errs \in 0 .. ErrMax /\ ErrMax \in Nat
          BY <4>1, BusAssumption DEF Entry
        <5> QED
          BY <5>1
      <4>3. devices' = [devices EXCEPT ![s] = [devices[s] EXCEPT !.errs = n]]
        BY <2>1, <4>1
      <4> HIDE DEF n
      <4>4. devices'[s] \in Entry /\ devices'[s].kind = devices[s].kind
        BY <4>1, <4>2, <4>3 DEF Entry
      <4>5. \A t \in Slots : t # s => devices'[t] = devices[t]
        BY <4>1, <4>3
      <4>6. Entry = [kind : Kinds, home : AllChannels, errs : 0 .. ErrMax] /\ Free \notin Entry
        BY BusAssumption DEF Entry
      <4> QED
        BY <4>1, <4>4, <4>5, <4>6 DEF RowEncoders, Listed
    <3> QED
      BY <2>1, <2>3, <3>1, RowStep
  <2>4. CASE ~InEncoderRow \/ pc' # "select"
    BY <2>1, <2>2, <2>4, RowLeft DEF InEncoderRow
  <2> QED
    BY <2>3, <2>4
<1>6. CASE EndRow
  <2>1. CASE row < ReRow
    <3>1. /\ devices' = devices
          /\ pending' = RowDevices(row + 1) /\ row' = row + 1 /\ encIdx' = 0
      BY <1>6, <2>1 DEF EndRow, BeginRow
    <3>2. CASE row' = ReRow
      <4>1. pending' = RowEncoders' /\ Done' = {}
        BY <3>1, <3>2, EncoderRow DEF Done, RowEncoders, Listed
      <4> QED
        BY <3>1, <4>1, FS_EmptySet DEF EncodersSoFar, Stored
    <3>3. CASE row' # ReRow
      BY <3>3, RowLeft DEF InEncoderRow
    <3> QED
      BY <3>2, <3>3
  <2>2. CASE ~(row < ReRow)
    BY <1>6, <2>2, RowLeft DEF EndRow, InEncoderRow
  <2> QED
    BY <2>1, <2>2
<1>7. CASE OledSend \/ Host
  <2>1. pc = "idle" /\ pc' \in {"idle", "scanStart"}
    BY <1>7 DEF OledSend, Host, HostRescan, HostUpdateAddress
  <2> QED
    BY <2>1, RowLeft DEF InEncoderRow
<1>8. CASE Environment
  <2>1. UNCHANGED firmware
    BY <1>8, Zenon DEF Environment, Plug, Unplug, MuxDown, MuxPowerUp
  <2> QED
    BY <2>1, RowLeft DEF firmware, passVars, scanVars, InEncoderRow
<1>9. CASE UNCHANGED vars
  BY <1>9, RowLeft DEF vars, InEncoderRow
<1> QED
  BY <1>1, <1>2, <1>3, <1>4, <1>5, <1>6, <1>7, <1>8, <1>9 DEF Next, Pass

\* The encoders are the row's alone when the index has counted all of them.
LEMMA AllCounted ==
  ASSUME TypeOK, EncodersSoFar, EncodersRead, encIdx = Cardinality(Encoders)
  PROVE  Encoders = RowEncoders /\ Stored(RowEncoders, RowEncoders, encoder)
<1>1. RowEncoders \subseteq Encoders /\ Encoders \subseteq Slots /\ Done = RowEncoders
  BY DEF RowEncoders, Encoders, Done, EncodersRead
<1>2. IsFiniteSet(Encoders) /\ IsFiniteSet(RowEncoders)
  BY <1>1, SlotsAreFinite, FS_Subset
<1>3. /\ encIdx <= Cardinality(RowEncoders)
      /\ encIdx = Cardinality(RowEncoders) => Stored(RowEncoders, RowEncoders, encoder)
  BY <1>1 DEF EncodersSoFar, EncodersRead, InEncoderRow
<1>4. Cardinality(RowEncoders) <= Cardinality(Encoders)
      /\ (Cardinality(Encoders) = Cardinality(RowEncoders) => Encoders = RowEncoders)
  BY <1>1, <1>2, FS_Subset
<1>5. Cardinality(RowEncoders) = Cardinality(Encoders)
  BY <1>2, <1>3, <1>4, FS_CardinalityType
<1> QED
  BY <1>3, <1>4, <1>5

\* When no encoder was passed over, encoder_data holds at each index the encoder
\* that encoder_quadrature_read_pin looks up by it, for any number of encoders.
THEOREM EncodersAreInOrder == Spec => []EncodersInOrder
<1>1. TypeOK /\ EncodersSoFar => EncodersInOrder
  <2> SUFFICES ASSUME TypeOK, EncodersSoFar, EncodersRead, encIdx = Cardinality(Encoders),
                      NEW k \in 0 .. NumEnc - 1, NEW s \in EncoderAt(k)
               PROVE  encoder[k] = s
    BY DEF EncodersInOrder
  <2>1. Encoders = RowEncoders /\ Stored(RowEncoders, RowEncoders, encoder)
    BY AllCounted
  <2>2. s \in Encoders /\ Cardinality({t \in Encoders : Before(t, s)}) = k
    BY DEF EncoderAt
  <2>3. {t \in Encoders : Before(t, s)} = Earlier(RowEncoders, s)
    BY <2>1, <2>2, EncodersBefore DEF Earlier, RowEncoders
  <2> QED
    BY <2>1, <2>2, <2>3 DEF Stored
<1>2. Init => EncodersSoFar
  BY EncodersInit
<1> QED
  BY <1>1, <1>2, TypeCorrect, EncodersStep, PTL DEF Spec
=============================================================================
