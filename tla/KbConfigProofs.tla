---------------------------- MODULE KbConfigProofs ----------------------------
(***************************************************************************)
(* For every set of cells, sections and values: the types of KbConfig hold,*)
(* no change of a setting is lost before a save, the EEPROM only has values*)
(* the settings had, apart from what a cut first initialisation left of    *)
(* former contents, and KbConfig implements ConfigStore.                   *)
(***************************************************************************)
EXTENDS KbConfig, TLAPS

\* Until settings are loaded the mode is the one RAM starts with; once the
\* keyboard is on the version in the EEPROM fits, and what the first
\* initialisation writes counts as held.
BootMode ==
  /\ phase \in {"off", "init"} => ram[Display] = Info
  /\ phase # "off" => valid
  /\ phase = "init" => \A c \in Cells : ram[c] \in held[c]

IInv ==
  /\ TypeOK
  /\ UnsavedIsCovered
  /\ StoredWasCurrent
  /\ BootMode

LEMMA InvInit == Init => IInv
<1> SUFFICES ASSUME Init PROVE IInv
  OBVIOUS
<1> USE ConfigAssumption DEF Init
<1>1. CellTypeOK /\ FlagTypeOK
  BY DEF CellTypeOK, FlagTypeOK
<1>2. TimerRuns
  BY DEF TimerRuns
<1>3. wait \in 0 .. Delay
  OBVIOUS
<1>4. UnsavedIsCovered /\ StoredWasCurrent /\ BootMode
  BY DEF UnsavedIsCovered, StoredWasCurrent, BootMode
<1> QED
  BY <1>1, <1>2, <1>3, <1>4 DEF IInv, TypeOK

LEMMA InvStep == IInv /\ [Next]_vars => IInv'
<1> SUFFICES ASSUME IInv, [Next]_vars PROVE IInv'
  OBVIOUS
<1> USE ConfigAssumption DEF IInv
<1>1. CASE \E s \in Sections : Update(s)
  <2>1. CellTypeOK'
    BY <1>1 DEF TypeOK, CellTypeOK, FlagTypeOK, Update, Assign, NoteChange, Schedule
  <2>2. FlagTypeOK'
    BY <1>1 DEF TypeOK, CellTypeOK, FlagTypeOK, Update, Assign, NoteChange, Schedule
  <2>3. TimerRuns'
    BY <1>1 DEF TypeOK, FlagTypeOK, TimerRuns, Update, Assign, NoteChange, Schedule
  <2>4. (wait \in 0 .. Delay)'
    BY <1>1 DEF TypeOK, Update, Assign, NoteChange, Schedule
  <2>5. (phase \in {"off", "init"} => token = "none")'
    BY <1>1 DEF TypeOK, Update, Assign, NoteChange, Schedule
  <2>6. (todo # {} => phase \in {"init", "save"})'
    BY <1>1 DEF TypeOK, Update, Assign, NoteChange, Schedule
  <2>7. UnsavedIsCovered'
    BY <1>1 DEF UnsavedIsCovered, Covered, TypeOK, CellTypeOK, FlagTypeOK, Update, Assign, NoteChange, Schedule
  <2>8. StoredWasCurrent'
    BY <1>1 DEF StoredWasCurrent, UnsavedIsCovered, TypeOK, CellTypeOK, FlagTypeOK, Update, Assign, NoteChange, Schedule
  <2>9. BootMode'
    BY <1>1 DEF BootMode, TypeOK, FlagTypeOK, CellTypeOK, Update, Assign, NoteChange, Schedule
  <2> QED
    BY <2>1, <2>2, <2>3, <2>4, <2>5, <2>6, <2>7, <2>8, <2>9 DEF TypeOK
<1>2. CASE ResetAllParams
  <2>1. CellTypeOK'
    BY <1>2 DEF TypeOK, CellTypeOK, FlagTypeOK, ResetAllParams, Assign, Defaults, NoteFull, Schedule
  <2>2. FlagTypeOK'
    BY <1>2 DEF TypeOK, CellTypeOK, FlagTypeOK, ResetAllParams, Assign, Defaults, NoteFull, Schedule
  <2>3. TimerRuns'
    BY <1>2 DEF TypeOK, FlagTypeOK, TimerRuns, ResetAllParams, Assign, Defaults, NoteFull, Schedule
  <2>4. (wait \in 0 .. Delay)'
    BY <1>2 DEF TypeOK, ResetAllParams, Assign, Defaults, NoteFull, Schedule
  <2>5. (phase \in {"off", "init"} => token = "none")'
    BY <1>2 DEF TypeOK, ResetAllParams, Assign, Defaults, NoteFull, Schedule
  <2>6. (todo # {} => phase \in {"init", "save"})'
    BY <1>2 DEF TypeOK, ResetAllParams, Assign, Defaults, NoteFull, Schedule
  <2>7. UnsavedIsCovered'
    BY <1>2 DEF UnsavedIsCovered, Covered, TypeOK, CellTypeOK, FlagTypeOK, ResetAllParams, Assign, Defaults, NoteFull, Schedule
  <2>8. StoredWasCurrent'
    BY <1>2 DEF StoredWasCurrent, UnsavedIsCovered, TypeOK, CellTypeOK, FlagTypeOK, ResetAllParams, Assign, Defaults, NoteFull, Schedule
  <2>9. BootMode'
    BY <1>2 DEF BootMode, TypeOK, FlagTypeOK, CellTypeOK, ResetAllParams, Assign, Defaults, NoteFull, Schedule
  <2> QED
    BY <2>1, <2>2, <2>3, <2>4, <2>5, <2>6, <2>7, <2>8, <2>9 DEF TypeOK
<1>3. CASE SaveParam
  <2>1. CellTypeOK'
    BY <1>3 DEF TypeOK, CellTypeOK, FlagTypeOK, SaveParam, history, NoteFull, Schedule
  <2>2. FlagTypeOK'
    BY <1>3 DEF TypeOK, CellTypeOK, FlagTypeOK, SaveParam, history, NoteFull, Schedule
  <2>3. TimerRuns'
    BY <1>3 DEF TypeOK, FlagTypeOK, TimerRuns, SaveParam, history, NoteFull, Schedule
  <2>4. (wait \in 0 .. Delay)'
    BY <1>3 DEF TypeOK, SaveParam, history, NoteFull, Schedule
  <2>5. (phase \in {"off", "init"} => token = "none")'
    BY <1>3 DEF TypeOK, SaveParam, history, NoteFull, Schedule
  <2>6. (todo # {} => phase \in {"init", "save"})'
    BY <1>3 DEF TypeOK, SaveParam, history, NoteFull, Schedule
  <2>7. UnsavedIsCovered'
    BY <1>3 DEF UnsavedIsCovered, Covered, TypeOK, CellTypeOK, FlagTypeOK, SaveParam, history, NoteFull, Schedule
  <2>8. StoredWasCurrent'
    BY <1>3 DEF StoredWasCurrent, UnsavedIsCovered, TypeOK, CellTypeOK, FlagTypeOK, SaveParam, history, NoteFull, Schedule
  <2>9. BootMode'
    BY <1>3 DEF BootMode, TypeOK, FlagTypeOK, CellTypeOK, SaveParam, history, NoteFull, Schedule
  <2> QED
    BY <2>1, <2>2, <2>3, <2>4, <2>5, <2>6, <2>7, <2>8, <2>9 DEF TypeOK
<1>4. CASE Tick
  <2>1. CellTypeOK'
    BY <1>4 DEF TypeOK, CellTypeOK, FlagTypeOK, Tick, history
  <2>2. FlagTypeOK'
    BY <1>4 DEF TypeOK, CellTypeOK, FlagTypeOK, Tick, history
  <2>3. TimerRuns'
    BY <1>4 DEF TypeOK, FlagTypeOK, TimerRuns, Tick, history
  <2>4. (wait \in 0 .. Delay)'
    BY <1>4 DEF TypeOK, Tick, history
  <2>5. (phase \in {"off", "init"} => token = "none")'
    BY <1>4 DEF TypeOK, Tick, history
  <2>6. (todo # {} => phase \in {"init", "save"})'
    BY <1>4 DEF TypeOK, Tick, history
  <2>7. UnsavedIsCovered'
    BY <1>4 DEF UnsavedIsCovered, Covered, TypeOK, CellTypeOK, FlagTypeOK, Tick, history
  <2>8. StoredWasCurrent'
    BY <1>4 DEF StoredWasCurrent, UnsavedIsCovered, TypeOK, CellTypeOK, FlagTypeOK, Tick, history
  <2>9. BootMode'
    BY <1>4 DEF BootMode, TypeOK, FlagTypeOK, CellTypeOK, Tick, history
  <2> QED
    BY <2>1, <2>2, <2>3, <2>4, <2>5, <2>6, <2>7, <2>8, <2>9 DEF TypeOK
<1>5. CASE SaveBegin
  <2>1. CellTypeOK'
    BY <1>5 DEF TypeOK, CellTypeOK, FlagTypeOK, SaveBegin, ToSave, flags, history
  <2>2. FlagTypeOK'
    BY <1>5 DEF TypeOK, CellTypeOK, FlagTypeOK, SaveBegin, ToSave, flags, history
  <2>3. TimerRuns'
    BY <1>5 DEF TypeOK, FlagTypeOK, TimerRuns, SaveBegin, ToSave, flags, history
  <2>4. (wait \in 0 .. Delay)'
    BY <1>5 DEF TypeOK, SaveBegin, ToSave, flags, history
  <2>5. (phase \in {"off", "init"} => token = "none")'
    BY <1>5 DEF TypeOK, SaveBegin, ToSave, flags, history
  <2>6. (todo # {} => phase \in {"init", "save"})'
    BY <1>5 DEF TypeOK, SaveBegin, ToSave, flags, history
  <2>7. UnsavedIsCovered'
    BY <1>5 DEF UnsavedIsCovered, Covered, TypeOK, CellTypeOK, FlagTypeOK, SaveBegin, ToSave, flags, history
  <2>8. StoredWasCurrent'
    BY <1>5 DEF StoredWasCurrent, UnsavedIsCovered, TypeOK, CellTypeOK, FlagTypeOK, SaveBegin, ToSave, flags, history
  <2>9. BootMode'
    BY <1>5 DEF BootMode, TypeOK, FlagTypeOK, CellTypeOK, SaveBegin, ToSave, flags, history
  <2> QED
    BY <2>1, <2>2, <2>3, <2>4, <2>5, <2>6, <2>7, <2>8, <2>9 DEF TypeOK
<1>6. CASE WriteCell
  <2>1. CellTypeOK'
    BY <1>6 DEF TypeOK, CellTypeOK, FlagTypeOK, WriteCell, flags
  <2>2. FlagTypeOK'
    BY <1>6 DEF TypeOK, CellTypeOK, FlagTypeOK, WriteCell, flags
  <2>3. TimerRuns'
    BY <1>6 DEF TypeOK, FlagTypeOK, TimerRuns, WriteCell, flags
  <2>4. (wait \in 0 .. Delay)'
    BY <1>6 DEF TypeOK, WriteCell, flags
  <2>5. (phase \in {"off", "init"} => token = "none")'
    BY <1>6 DEF TypeOK, WriteCell, flags
  <2>6. (todo # {} => phase \in {"init", "save"})'
    BY <1>6 DEF TypeOK, WriteCell, flags
  <2>7. UnsavedIsCovered'
    BY <1>6 DEF UnsavedIsCovered, Covered, TypeOK, CellTypeOK, FlagTypeOK, WriteCell, flags
  <2>8. StoredWasCurrent'
    <3>1. PICK c \in todo : /\ ee' = [ee EXCEPT ![c] = ram[c]]
                           /\ todo' = todo \ {c}
                           /\ left' = IF ram[c] \in held[c] THEN left \ {c} ELSE left
      BY <1>6 DEF WriteCell
    <3>2. UNCHANGED <<ram, valid, phase, held>> /\ phase \in {"init", "save"} /\ valid
      BY <1>6 DEF WriteCell, flags, BootMode
    <3>3. phase = "init" => ram[c] \in held[c]
      BY <3>1 DEF TypeOK, CellTypeOK, BootMode
    <3>4. \A d \in Cells \ left' : ee'[d] \in held'[d]
      BY <3>1, <3>2 DEF StoredWasCurrent, TypeOK, CellTypeOK
    <3> QED
      BY <3>1, <3>2, <3>3, <3>4 DEF StoredWasCurrent, TypeOK, CellTypeOK
  <2>9. BootMode'
    BY <1>6 DEF BootMode, TypeOK, FlagTypeOK, CellTypeOK, WriteCell, flags
  <2> QED
    BY <2>1, <2>2, <2>3, <2>4, <2>5, <2>6, <2>7, <2>8, <2>9 DEF TypeOK
<1>7. CASE SaveEnd
  <2>1. CellTypeOK'
    BY <1>7 DEF TypeOK, CellTypeOK, FlagTypeOK, SaveEnd, ResetDirty
  <2>2. FlagTypeOK'
    BY <1>7 DEF TypeOK, CellTypeOK, FlagTypeOK, SaveEnd, ResetDirty
  <2>3. TimerRuns'
    BY <1>7 DEF TypeOK, FlagTypeOK, TimerRuns, SaveEnd, ResetDirty
  <2>4. (wait \in 0 .. Delay)'
    BY <1>7 DEF TypeOK, SaveEnd, ResetDirty
  <2>5. (phase \in {"off", "init"} => token = "none")'
    BY <1>7 DEF TypeOK, SaveEnd, ResetDirty
  <2>6. (todo # {} => phase \in {"init", "save"})'
    BY <1>7 DEF TypeOK, SaveEnd, ResetDirty
  <2>7. UnsavedIsCovered'
    BY <1>7 DEF UnsavedIsCovered, Covered, TypeOK, CellTypeOK, FlagTypeOK, SaveEnd, ResetDirty
  <2>8. StoredWasCurrent'
    BY <1>7 DEF StoredWasCurrent, UnsavedIsCovered, TypeOK, CellTypeOK, FlagTypeOK, SaveEnd, ResetDirty
  <2>9. BootMode'
    BY <1>7 DEF BootMode, TypeOK, FlagTypeOK, CellTypeOK, SaveEnd, ResetDirty
  <2> QED
    BY <2>1, <2>2, <2>3, <2>4, <2>5, <2>6, <2>7, <2>8, <2>9 DEF TypeOK
<1>8. CASE InitEnd
  <2>1. CellTypeOK'
    BY <1>8 DEF TypeOK, CellTypeOK, FlagTypeOK, InitEnd, Load, NoteRestored, Restored, NoteChange, Schedule, General, flags
  <2>2. FlagTypeOK'
    BY <1>8 DEF TypeOK, CellTypeOK, FlagTypeOK, InitEnd, Load, NoteRestored, Restored, NoteChange, Schedule, General, flags
  <2>3. TimerRuns'
    BY <1>8 DEF TypeOK, FlagTypeOK, TimerRuns, InitEnd, Load, NoteRestored, Restored, NoteChange, Schedule, General, flags
  <2>4. (wait \in 0 .. Delay)'
    BY <1>8 DEF TypeOK, InitEnd, Load, NoteRestored, Restored, NoteChange, Schedule, General, flags
  <2>5. (phase \in {"off", "init"} => token = "none")'
    BY <1>8 DEF TypeOK, InitEnd, Load, NoteRestored, Restored, NoteChange, Schedule, General, flags
  <2>6. (todo # {} => phase \in {"init", "save"})'
    BY <1>8 DEF TypeOK, InitEnd, Load, NoteRestored, Restored, NoteChange, Schedule, General, flags
  <2>7. UnsavedIsCovered'
    BY <1>8 DEF UnsavedIsCovered, Covered, TypeOK, CellTypeOK, FlagTypeOK, InitEnd, Load, NoteRestored, Restored, NoteChange, Schedule, General, flags
  <2>8. StoredWasCurrent'
    BY <1>8 DEF StoredWasCurrent, UnsavedIsCovered, TypeOK, CellTypeOK, FlagTypeOK, InitEnd, Load, NoteRestored, Restored, NoteChange, Schedule, General, flags
  <2>9. BootMode'
    BY <1>8 DEF BootMode, TypeOK, FlagTypeOK, CellTypeOK, InitEnd, Load, NoteRestored, Restored, NoteChange, Schedule, General, flags
  <2> QED
    BY <2>1, <2>2, <2>3, <2>4, <2>5, <2>6, <2>7, <2>8, <2>9 DEF TypeOK
<1>9. CASE PowerOn
  <2>1. CellTypeOK'
    BY <1>9 DEF TypeOK, CellTypeOK, FlagTypeOK, PowerOn, Assign, Load, NoteRestored, Restored, Defaults, NoteChange, Schedule, General, flags
  <2>2. FlagTypeOK'
    <3>1. SectionOf[Display] \in Sections
      OBVIOUS
    <3>2. CASE valid
      BY <1>9, <3>1, <3>2 DEF TypeOK, FlagTypeOK, PowerOn, Load, NoteRestored, NoteChange, Schedule, General, flags
    <3>3. CASE ~valid
      BY <1>9, <3>3 DEF TypeOK, FlagTypeOK, PowerOn, Assign, flags
    <3> QED
      BY <3>2, <3>3
  <2>3. TimerRuns'
    <3>1. CASE valid
      BY <1>9, <3>1 DEF TypeOK, FlagTypeOK, TimerRuns, PowerOn, Load, NoteRestored, NoteChange, Schedule, flags
    <3>2. CASE ~valid
      BY <1>9, <3>2 DEF TypeOK, TimerRuns, PowerOn, flags
    <3> QED
      BY <3>1, <3>2
  <2>4. (wait \in 0 .. Delay)'
    BY <1>9 DEF TypeOK, PowerOn, Assign, Load, NoteRestored, Restored, Defaults, NoteChange, Schedule, General, flags
  <2>5. (phase \in {"off", "init"} => token = "none")'
    BY <1>9 DEF TypeOK, PowerOn, Assign, Load, NoteRestored, Restored, Defaults, NoteChange, Schedule, General, flags
  <2>6. (todo # {} => phase \in {"init", "save"})'
    BY <1>9 DEF TypeOK, PowerOn, Assign, Load, NoteRestored, Restored, Defaults, NoteChange, Schedule, General, flags
  <2>7. UnsavedIsCovered'
    BY <1>9 DEF UnsavedIsCovered, Covered, TypeOK, CellTypeOK, FlagTypeOK, PowerOn, Assign, Load, NoteRestored, Restored, Defaults, NoteChange, Schedule, General, flags
  <2>8. StoredWasCurrent'
    BY <1>9 DEF StoredWasCurrent, UnsavedIsCovered, TypeOK, CellTypeOK, FlagTypeOK, PowerOn, Assign, Load, NoteRestored, Restored, Defaults, NoteChange, Schedule, General, flags
  <2>9. BootMode'
    BY <1>9 DEF BootMode, TypeOK, FlagTypeOK, CellTypeOK, PowerOn, Assign, Load, NoteRestored, Restored, Defaults, NoteChange, Schedule, General, flags
  <2> QED
    BY <2>1, <2>2, <2>3, <2>4, <2>5, <2>6, <2>7, <2>8, <2>9 DEF TypeOK
<1>10. CASE PowerCut
  <2>1. CellTypeOK'
    BY <1>10 DEF TypeOK, CellTypeOK, FlagTypeOK, PowerCut, ResetDirty
  <2>2. FlagTypeOK'
    BY <1>10 DEF TypeOK, CellTypeOK, FlagTypeOK, PowerCut, ResetDirty
  <2>3. TimerRuns'
    BY <1>10 DEF TypeOK, FlagTypeOK, TimerRuns, PowerCut, ResetDirty
  <2>4. (wait \in 0 .. Delay)'
    BY <1>10 DEF TypeOK, PowerCut, ResetDirty
  <2>5. (phase \in {"off", "init"} => token = "none")'
    BY <1>10 DEF TypeOK, PowerCut, ResetDirty
  <2>6. (todo # {} => phase \in {"init", "save"})'
    BY <1>10 DEF TypeOK, PowerCut, ResetDirty
  <2>7. UnsavedIsCovered'
    BY <1>10 DEF UnsavedIsCovered, Covered, TypeOK, CellTypeOK, FlagTypeOK, PowerCut, ResetDirty
  <2>8. StoredWasCurrent'
    BY <1>10 DEF StoredWasCurrent, UnsavedIsCovered, TypeOK, CellTypeOK, FlagTypeOK, PowerCut, ResetDirty
  <2>9. BootMode'
    BY <1>10 DEF BootMode, TypeOK, FlagTypeOK, CellTypeOK, PowerCut, ResetDirty
  <2> QED
    BY <2>1, <2>2, <2>3, <2>4, <2>5, <2>6, <2>7, <2>8, <2>9 DEF TypeOK
<1>11. CASE Reflash
  <2>1. CellTypeOK'
    BY <1>11 DEF TypeOK, CellTypeOK, FlagTypeOK, Reflash, flags
  <2>2. FlagTypeOK'
    BY <1>11 DEF TypeOK, CellTypeOK, FlagTypeOK, Reflash, flags
  <2>3. TimerRuns'
    BY <1>11 DEF TypeOK, FlagTypeOK, TimerRuns, Reflash, flags
  <2>4. (wait \in 0 .. Delay)'
    BY <1>11 DEF TypeOK, Reflash, flags
  <2>5. (phase \in {"off", "init"} => token = "none")'
    BY <1>11 DEF TypeOK, Reflash, flags
  <2>6. (todo # {} => phase \in {"init", "save"})'
    BY <1>11 DEF TypeOK, Reflash, flags
  <2>7. UnsavedIsCovered'
    BY <1>11 DEF UnsavedIsCovered, Covered, TypeOK, CellTypeOK, FlagTypeOK, Reflash, flags
  <2>8. StoredWasCurrent'
    BY <1>11 DEF StoredWasCurrent, UnsavedIsCovered, TypeOK, CellTypeOK, FlagTypeOK, Reflash, flags
  <2>9. BootMode'
    BY <1>11 DEF BootMode, TypeOK, FlagTypeOK, CellTypeOK, Reflash, flags
  <2> QED
    BY <2>1, <2>2, <2>3, <2>4, <2>5, <2>6, <2>7, <2>8, <2>9 DEF TypeOK
<1>12. CASE UNCHANGED vars
  <2>1. CellTypeOK'
    BY <1>12 DEF TypeOK, CellTypeOK, FlagTypeOK, vars
  <2>2. FlagTypeOK'
    BY <1>12 DEF TypeOK, CellTypeOK, FlagTypeOK, vars
  <2>3. TimerRuns'
    BY <1>12 DEF TypeOK, FlagTypeOK, TimerRuns, vars
  <2>4. (wait \in 0 .. Delay)'
    BY <1>12 DEF TypeOK, vars
  <2>5. (phase \in {"off", "init"} => token = "none")'
    BY <1>12 DEF TypeOK, vars
  <2>6. (todo # {} => phase \in {"init", "save"})'
    BY <1>12 DEF TypeOK, vars
  <2>7. UnsavedIsCovered'
    BY <1>12 DEF UnsavedIsCovered, Covered, TypeOK, CellTypeOK, FlagTypeOK, vars
  <2>8. StoredWasCurrent'
    BY <1>12 DEF StoredWasCurrent, UnsavedIsCovered, TypeOK, CellTypeOK, FlagTypeOK, vars
  <2>9. BootMode'
    BY <1>12 DEF BootMode, TypeOK, FlagTypeOK, CellTypeOK, vars
  <2> QED
    BY <2>1, <2>2, <2>3, <2>4, <2>5, <2>6, <2>7, <2>8, <2>9 DEF TypeOK
<1> QED
  BY <1>1, <1>2, <1>3, <1>4, <1>5, <1>6, <1>7, <1>8, <1>9, <1>10, <1>11, <1>12 DEF Next, Host, Loop

\* The inductive invariant holds in every behaviour.
THEOREM Invariant == Spec => []IInv
  BY InvInit, InvStep, PTL DEF Spec

\* Every variable of the configuration keeps its type, and a timer runs exactly
\* when something is to be saved.
THEOREM TypeCorrect == Spec => []TypeOK
<1>1. IInv => TypeOK
  BY DEF IInv
<1> QED
  BY <1>1, Invariant, PTL

\* A setting that differs from the EEPROM is flagged with the timer running, or
\* a save has still to come to it.
THEOREM NoChangeIsLost == Spec => []UnsavedIsCovered
<1>1. IInv => UnsavedIsCovered
  BY DEF IInv
<1> QED
  BY <1>1, Invariant, PTL

\* The EEPROM has only values the settings had since they were last saved, also
\* while the power is off and after it went in the middle of a save; what stood
\* there before this firmware stays only where a first initialisation was cut.
THEOREM StoredIsCurrent == Spec => []StoredWasCurrent
<1>1. IInv => StoredWasCurrent
  BY DEF IInv
<1> QED
  BY <1>1, Invariant, PTL

LEMMA PromiseInit == Init => Promise!Init
  BY ConfigAssumption DEF Init, Promise!Init

LEMMA PromiseStep == IInv /\ IInv' /\ [Next]_vars => [Promise!Next]_Promise!vars
<1> SUFFICES ASSUME IInv, IInv', [Next]_vars PROVE [Promise!Next]_Promise!vars
  OBVIOUS
<1> USE ConfigAssumption DEF IInv, TypeOK, CellTypeOK, FlagTypeOK
<1>1. CASE Host
  <2>1. Promise!Set
    BY <1>1 DEF Host, Update, ResetAllParams, SaveParam, Assign, NoteChange, NoteFull, Schedule, Promise!Set
  <2> QED
    BY <2>1 DEF Promise!Next
<1>2. CASE Tick \/ SaveBegin \/ Reflash
  BY <1>2 DEF Tick, SaveBegin, Reflash, flags, Promise!vars
<1>3. CASE WriteCell
  <2>1. Promise!Store
    BY <1>3 DEF WriteCell, flags, Promise!Store
  <2> QED
    BY <2>1 DEF Promise!Next
<1>4. CASE SaveEnd
  <2>1. ee = ram
    BY <1>4 DEF SaveEnd, UnsavedIsCovered
  <2>2. Promise!Settle
    BY <1>4, <2>1 DEF SaveEnd, ResetDirty, Promise!Settle
  <2> QED
    BY <2>2 DEF Promise!Next
<1>5. CASE InitEnd
  <2>1. ee = ram
    BY <1>5 DEF InitEnd, UnsavedIsCovered
  <2>2. Restored(ee) = ee
    BY <1>5, <2>1 DEF InitEnd, BootMode, Restored
  <2>3. Promise!Settle
    BY <1>5, <2>1, <2>2 DEF InitEnd, Load, NoteRestored, flags, Promise!Settle
  <2> QED
    BY <2>3 DEF Promise!Next
<1>6. CASE PowerOn
  <2>1. CASE valid
    <3>1. Promise!Boot(TRUE)
      BY <1>6, <2>1 DEF PowerOn, Load, NoteRestored, NoteChange, Schedule, flags, Promise!Boot
    <3> QED
      BY <3>1 DEF Promise!Next
  <2>2. CASE ~valid
    <3>1. Promise!Boot(FALSE)
      BY <1>6, <2>2 DEF PowerOn, flags, Promise!Boot
    <3> QED
      BY <3>1 DEF Promise!Next
  <2> QED
    BY <2>1, <2>2
<1>7. CASE PowerCut
  <2>1. Promise!PowerCut
    BY <1>7 DEF PowerCut, Promise!PowerCut
  <2> QED
    BY <2>1 DEF Promise!Next
<1>8. CASE UNCHANGED vars
  BY <1>8 DEF vars, Promise!vars
<1> QED
  BY <1>1, <1>2, <1>3, <1>4, <1>5, <1>6, <1>7, <1>8 DEF Next, Loop

\* The configuration does what ConfigStore promises: no setting counts as
\* settled that a power cut could lose.
THEOREM ConfigImplements == Spec => Implements
<1>1. Init => Promise!Init
  BY PromiseInit
<1>2. IInv /\ IInv' /\ [Next]_vars => [Promise!Next]_Promise!vars
  BY PromiseStep
<1> QED
  BY <1>1, <1>2, Invariant, PTL DEF Spec, Implements, Promise!Spec
=============================================================================
