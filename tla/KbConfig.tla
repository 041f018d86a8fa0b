------------------------------- MODULE KbConfig -------------------------------
(***************************************************************************)
(* The keyboard configuration (kb_config.c): settings in RAM, flags for    *)
(* what differs from the EEPROM, and a save that a timer defers until the  *)
(* changes have paused; the boot that loads them (keyboard_post_init_kb)   *)
(* and the host commands that change them.  Power can go at any moment,    *)
(* also in the middle of a save or of the first initialisation.            *)
(***************************************************************************)
EXTENDS Naturals

CONSTANTS
  Cells,       \* pieces of the configuration that reach the EEPROM one by one
  ChunkOf,     \* ChunkOf[c]: the eeprom_write_block c is written with, by address
  Sections,    \* what has a dirty flag: general, each tb, each re, each magkey
  SectionOf,   \* SectionOf[c]: the section cell c belongs to
  Value,       \* every value some cell can have
  Fits,        \* Fits[c]: those that the bit-field of cell c holds
  Zero,        \* what RAM holds after a reset
  Default,     \* Default[c], for the cells kb_config_init_defaults assigns
  Display,     \* the cell of display_mode, one of general
  BadModes,    \* the stored modes a boot refuses: SelectedKey and the undefined
  Info,        \* DisplayMode_Info
  Delay        \* SAVE_DEFER_DELAY_MS, in ticks of the timer

General == SectionOf[Display]

ASSUME ConfigAssumption ==
  /\ Display \in Cells /\ ChunkOf \in [Cells -> Nat]
  /\ SectionOf \in [Cells -> Sections]
  /\ Zero \in Value /\ Info \in Value /\ Fits \in [Cells -> SUBSET Value]
  /\ Default \in [Cells \ {Display} -> Value]
  /\ BadModes \subseteq Value /\ Info \notin BadModes /\ Zero = Info
  /\ Delay \in Nat

VARIABLES
  ram,        \* kb_config_storage
  ee,         \* its datablock in the EEPROM
  valid,      \* the datablock has the version of this firmware
  dirtyFull,  \* kb_dirty.dirty_full
  dirty,      \* the sections whose flag is set
  token,      \* whether kb_dirty.token names a running timer
  wait,       \* the time left on it
  phase,      \* what the superloop does
  todo,       \* the cells the running save has not come to
  held,       \* history: the values each setting had since all were saved
  left        \* history: the stored cells that no setting of this firmware wrote

flags == <<dirtyFull, dirty, token, wait>>
vars  == <<ram, ee, valid, dirtyFull, dirty, token, wait, phase, todo, held, left>>
history == <<held, left>>

Init ==
  /\ ram = [c \in Cells |-> Zero]
  /\ ee \in {stored \in [Cells -> Value] : \A c \in Cells : stored[c] \in Fits[c]}
  /\ valid \in BOOLEAN
  /\ dirtyFull = FALSE /\ dirty = {} /\ token = "none" /\ wait = 0
  /\ phase = "off"
  /\ todo = {}
  /\ held = [c \in Cells |-> IF valid THEN {ee[c]} ELSE {}]
  /\ left = IF valid THEN {} ELSE Cells

\* kb_config_init_defaults, which leaves display_mode as it is.
Defaults(settings) ==
  [c \in Cells |-> IF c = Display THEN settings[c] ELSE Default[c]]

\* What a boot adopts: the stored settings, with another mode for a bad one.
Restored(settings) ==
  IF settings[Display] \in BadModes THEN [settings EXCEPT ![Display] = Info] ELSE settings

\* schedule_save_param: start the timer or set it back.
Schedule == token' = "armed" /\ wait' = Delay

\* A bug to detect: the token of the finished timer is kept.
ResetFlagsOnly == dirtyFull' = FALSE /\ dirty' = {} /\ UNCHANGED <<token, wait>>

\* reset_dirty_state
ResetDirty ==
  /\ dirtyFull' = FALSE /\ dirty' = {}
  /\ token' = "none" /\ wait' = 0

\* A bug to detect: only the change that starts the timer is flagged.
NoteFirstChange(s) ==
  /\ dirty' = IF token = "armed" THEN dirty ELSE {s}
  /\ Schedule /\ UNCHANGED dirtyFull

\* note_general_change, note_tb_change, note_re_change, note_magkey_change and
\* note_full_change.
NoteChange(s) == dirty' = dirty \cup {s} /\ Schedule /\ UNCHANGED dirtyFull
NoteFull      == dirtyFull' = TRUE /\ Schedule /\ UNCHANGED dirty

\* The settings in RAM change; the history follows.  Nobody has set a cell that
\* keeps its value, as most of a section do when the host sets one field.
Assign(settings) ==
  /\ ram' = settings
  /\ held' = [c \in Cells |-> held[c] \cup ({settings[c]} \ {ram[c]})]

\* A bug to detect: the replaced mode is not to be saved.
NoteNothing == UNCHANGED flags

NoteRestored == IF Restored(ee) # ee THEN NoteChange(General) ELSE UNCHANGED flags

\* keyboard_post_init_kb from the load on: a refused display mode is replaced
\* with an ordinary update of the general settings.  To load a value does not
\* make it one that a setting had.
Load ==
  /\ phase' = "run"
  /\ ram' = Restored(ee)
  /\ held' = [c \in Cells |-> held[c] \cup ({Restored(ee)[c]} \ {ee[c]})]
  /\ NoteRestored

PowerOn ==
  /\ phase = "off"
  /\ \/ valid /\ Load /\ UNCHANGED <<valid, todo>>
     \/ /\ ~valid  \* eeconfig_init_kb; the version is written before the data
        /\ phase' = "init"
        /\ valid' = TRUE
        /\ ram' = Defaults(ram)
        /\ held' = [c \in Cells |-> {ram'[c]}]
        /\ todo' = Cells
        /\ UNCHANGED flags
  /\ UNCHANGED <<ee, left>>

InitEnd ==
  /\ phase = "init" /\ todo = {}
  /\ Load
  /\ UNCHANGED <<ee, valid, todo, left>>

\* kb_config_update_general, _tb, _re and _magkey, which the host's set
\* commands call with the whole section.
Update(s) ==
  /\ phase = "run"
  /\ \E new \in [{c \in Cells : SectionOf[c] = s} -> Value] :
       /\ \A c \in DOMAIN new : new[c] \in Fits[c]
       /\ Assign([c \in Cells |-> IF SectionOf[c] = s THEN new[c] ELSE ram[c]])
  /\ NoteChange(s)
  /\ UNCHANGED <<ee, valid, phase, todo, left>>

\* The host command reset_all_params.
ResetAllParams ==
  /\ phase = "run"
  /\ Assign(Defaults(ram))
  /\ NoteFull
  /\ UNCHANGED <<ee, valid, phase, todo, left>>

\* The host command id_custom_save.
SaveParam ==
  /\ phase = "run"
  /\ NoteFull
  /\ UNCHANGED <<ram, ee, valid, phase, todo, history>>

Tick ==
  /\ phase = "run" /\ token = "armed" /\ wait > 0
  /\ wait' = wait - 1
  /\ UNCHANGED <<ram, ee, valid, dirtyFull, dirty, token, phase, todo, history>>

\* A bug to detect: the first section with a flag hides the others.
FirstSection ==
  IF dirtyFull THEN Cells
  ELSE IF General \in dirty THEN {c \in Cells : SectionOf[c] = General}
  ELSE {c \in Cells : SectionOf[c] \in dirty}

\* What is to be written: everything, or the sections with a flag.
ToSave == IF dirtyFull THEN Cells ELSE {c \in Cells : SectionOf[c] \in dirty}

\* save_param_deferred_cb
SaveBegin ==
  /\ phase = "run" /\ token = "armed" /\ wait = 0
  /\ phase' = "save"
  /\ todo' = ToSave
  /\ UNCHANGED <<ram, ee, valid, flags, history>>

\* Sections and chunks are written in the order of their addresses, the bytes
\* of one chunk in any order; a power cut may come between any two cells.
WriteCell ==
  /\ phase \in {"init", "save"}
  /\ \E c \in todo :
       /\ \A d \in todo : ChunkOf[c] <= ChunkOf[d]
       /\ ee' = [ee EXCEPT ![c] = ram[c]]
       /\ todo' = todo \ {c}
       /\ left' = IF ram[c] \in held[c] THEN left \ {c} ELSE left
  /\ UNCHANGED <<ram, valid, flags, phase, held>>

SaveEnd ==
  /\ phase = "save" /\ todo = {}
  /\ phase' = "run"
  /\ ResetDirty
  /\ held' = [c \in Cells |-> held[c] \cap {ram[c]}]
  /\ UNCHANGED <<ram, ee, valid, todo, left>>

PowerCut ==
  /\ phase # "off" /\ phase' = "off"
  /\ ram' = [c \in Cells |-> Zero]
  /\ ResetDirty
  /\ todo' = {}
  /\ held' = [c \in Cells |-> held[c] \cap {ee[c]}]
  /\ UNCHANGED <<ee, valid, left>>

\* Another firmware is flashed: the version no longer fits.
Reflash ==
  /\ phase = "off" /\ valid' = FALSE
  /\ left' = Cells /\ held' = [c \in Cells |-> {}]
  /\ UNCHANGED <<ram, ee, flags, phase, todo>>

Host == (\E s \in Sections : Update(s)) \/ ResetAllParams \/ SaveParam
Loop == Tick \/ SaveBegin \/ WriteCell \/ SaveEnd \/ InitEnd

Next == Host \/ Loop \/ PowerOn \/ PowerCut \/ Reflash

\* The superloop runs on and with it the timer; nobody has to power it on.
Spec     == Init /\ [][Next]_vars
FairSpec == Spec /\ WF_vars(Loop)

(***************************************************************************)
(* Properties.                                                             *)
(***************************************************************************)

CellTypeOK ==
  /\ ram \in [Cells -> Value] /\ ee \in [Cells -> Value]
  /\ held \in [Cells -> SUBSET Value] /\ left \subseteq Cells /\ todo \subseteq Cells

FlagTypeOK ==
  /\ valid \in BOOLEAN /\ dirtyFull \in BOOLEAN /\ dirty \subseteq Sections
  /\ token \in {"none", "armed"}
  /\ phase \in {"off", "run", "init", "save"}

TimerRuns == token = "armed" <=> dirtyFull \/ dirty # {}

\* Every variable has its type; a timer runs exactly when something is to be
\* saved, and only a save or the first initialisation has cells to write.
TypeOK ==
  /\ CellTypeOK /\ FlagTypeOK /\ TimerRuns /\ wait \in 0 .. Delay
  /\ phase \in {"off", "init"} => token = "none"
  /\ todo # {} => phase \in {"init", "save"}

Covered(c) == dirtyFull \/ SectionOf[c] \in dirty

\* No change is lost: a setting that differs from the EEPROM is flagged and the
\* timer runs; in a save or the first initialisation it is still to be written.
UnsavedIsCovered ==
  \A c \in Cells : ram[c] # ee[c] =>
    CASE phase = "run"  -> Covered(c) /\ token = "armed"
      [] phase = "off"  -> TRUE
      [] OTHER          -> c \in todo

\* Whenever the power goes, also in the middle of a save, each stored setting is
\* one the user had since everything was last saved, never an older or another
\* value; and what is in force comes from such a setting.  The exception is what
\* stood in the EEPROM before this firmware: it stays where the power went in the
\* first initialisation, whose version is written before its data, so that the
\* next start takes it for settings, until that cell is changed and saved.  An
\* initialisation that is not cut leaves none of it.
StoredWasCurrent ==
  /\ \A c \in Cells \ left : ee[c] \in held[c]
  /\ phase \in {"run", "save"} => \A c \in Cells \ left : ram[c] \in held[c]
  /\ phase = "init" => left = todo
  /\ ~valid => left = Cells

\* KbConfig does what ConfigStore promises.
Promise == INSTANCE ConfigStore WITH
             on      <- phase # "off",
             live    <- ram,
             stored  <- ee,
             settled <- phase = "run" /\ token = "none"
Implements == Promise!Spec

\* Once the host pauses and the power stays on, every setting reaches the
\* EEPROM: the timer that every change sets back runs out in the end.
PersistsWhenQuiet ==
  (<>[](phase # "off") /\ <>[][~Host]_vars) => <>[](ee = ram)
=============================================================================
