------------------------------- MODULE HostParams -------------------------------
(***************************************************************************)
(* The parameters the host reads and writes by number                      *)
(* (raw_hid_handler_via.c), the bit-fields that store them (kb_config.h)   *)
(* and what is in force at the moment.  A parameter comes into force along *)
(* two paths that must agree: the side effect of the command that sets it  *)
(* and the next start.  Keys and commands also change the display page     *)
(* without its setting.  KbConfig models how settings are saved; here a    *)
(* start finds them all saved.                                             *)
(***************************************************************************)
EXTENDS Integers, Sequences

CONSTANTS
  Sessions,   \* bound: sets of numbers, one of them what a host changes
  HostValues  \* bound: what it sends, 32 bits wide in the code

KnownParam == 0 .. 47           \* Pendant_v2_KBC_ParamID_is_known_value
Ids        == KnownParam \ {47} \* those with an entry in the accessor table
SetMagkeyConfig == 109          \* of Pendant_v2_HIDCommandValueID

ASSUME HostAssumption ==
  /\ \A session \in Sessions : session \subseteq (Ids \ {0}) \cup {SetMagkeyConfig}
  /\ HostValues \subseteq Nat

SelectedKey == 2  \* DisplayMode_SelectedKey, DisplayMode_MAX is 4

GeneralFields ==
  <<"mouse_layer_on", "mouse_layer_off_delay_ms", "all_keys_are_mouse_keys",
    "trackball_timeout", "rescan_i2c_on_read_error", "permissive_hold",
    "tapping_term_50ms", "display_mode", "led_base_mode">>

TbFields ==
  <<"angle", "drag_scroll_speed_magnification", "cpi_step",
    "invert_drag_scroll_x", "invert_drag_scroll_y">>

\* The field and the index of the section that a number stands for, by the order
\* of the accessor table.
ParamOf(id) ==
  CASE id \in 1 .. 9   -> <<GeneralFields[id], 0>>
    [] id \in 10 .. 29 -> <<TbFields[((id - 10) % 5) + 1], (id - 10) \div 5>>
    [] id \in 30 .. 45 -> <<"resolution", id - 30>>
    [] id = 46         -> <<"magkey_data_bytes", 0>>

\* One magnetic key stands for all.
KeyParams == {<<"actuation_point", 0>>, <<"reset_point", 0>>, <<"rapid_trigger_enable", 0>>}
Params    == {ParamOf(id) : id \in Ids \ {0}} \cup KeyParams

Flags ==
  {"mouse_layer_on", "all_keys_are_mouse_keys", "rescan_i2c_on_read_error", "permissive_hold",
   "invert_drag_scroll_x", "invert_drag_scroll_y", "rapid_trigger_enable"}

VARIABLES
  session,  \* what the host changes in this behaviour
  settings, \* the parameters' fields in kb_config_storage
  live,     \* what is in force of those that are copied somewhere
  asked,    \* history: the number the host sent, or a reset or start assigned
  loose     \* history: copies that something else than their setting determined

hostVars == <<session, settings, live, asked, loose>>

AtMost(v, limit) == IF v > limit THEN limit ELSE v

\* The comments of GeneralConfigBits, TBConfigBits, REConfigBits and
\* MagKeyConfigBits ("max:").
Documented(field) ==
  CASE field \in Flags                                          -> 1
    [] field \in {"actuation_point", "reset_point"}             -> 4096
    [] field = "mouse_layer_off_delay_ms"                       -> 63
    [] field \in {"tapping_term_50ms", "cpi_step",
                  "drag_scroll_speed_magnification"}            -> 15
    [] field = "angle"                                          -> 359
    [] OTHER                                                    -> 3

\* The greatest value the host can store: the documented one, but the 12 bits of a
\* key's points hold one less.
Greatest(field) ==
  IF field \in {"actuation_point", "reset_point"} THEN 4095 ELSE Documented(field)

\* A bug to detect: the angle is limited by the width of its field.
LimitByWidth(field) == IF field = "angle" THEN 511 ELSE Greatest(field)

\* The limits of the accessors and of handle_set_magkey_config_command.
Limit(field) ==
  CASE field \in Flags                                          -> 1
    [] field \in {"actuation_point", "reset_point"}             -> 4095
    [] field = "mouse_layer_off_delay_ms"                       -> 63
    [] field \in {"trackball_timeout", "led_base_mode",
                  "display_mode", "magkey_data_bytes",
                  "resolution"}                                 -> 3
    [] field = "angle"                                          -> 359
    [] OTHER                                                    -> 15

\* A bug to detect: the delay has one bit less.
NarrowBits(field) == IF field = "mouse_layer_off_delay_ms" THEN 5 ELSE 12

\* The widths of the bit-fields.
Bits(field) ==
  CASE field \in Flags                                          -> 1
    [] field \in {"actuation_point", "reset_point"}             -> 12
    [] field = "mouse_layer_off_delay_ms"                       -> 6
    [] field \in {"trackball_timeout", "led_base_mode",
                  "magkey_data_bytes", "resolution"}            -> 2
    [] field = "display_mode"                                   -> 3
    [] field = "angle"                                          -> 9
    [] OTHER                                                    -> 4

\* set_general_field, set_tb_field and set_re_resolution: what a field keeps.
Kept(field, v) == IF field \in Flags THEN (IF v = 0 THEN 0 ELSE 1) ELSE v % 2 ^ Bits(field)

\* kb_config_init_defaults, which leaves display_mode alone.
Reset(s) ==
  [p \in Params |->
     CASE p[1] = "display_mode"                                      -> s[p]
       [] p[1] \in {"mouse_layer_on", "rescan_i2c_on_read_error",
                    "permissive_hold", "led_base_mode"}              -> 1
       [] p[1] = "mouse_layer_off_delay_ms"                          -> 13
       [] p[1] = "tapping_term_50ms"                                 -> 6
       [] p[1] \in {"drag_scroll_speed_magnification", "cpi_step"}   -> 3
       [] p[1] = "resolution"                                        -> 2
       [] p[1] = "actuation_point"                                   -> 3551
       [] p[1] = "reset_point"                                       -> 2929
       [] OTHER                                                      -> 0]

(***************************************************************************)
(* What is in force.                                                       *)
(***************************************************************************)

Applied  == {<<"mouse_layer_on", 0>>, <<"mouse_layer_off_delay_ms", 0>>, <<"display_mode", 0>>,
             <<"led_base_mode", 0>>}
AtStart  == {p \in Params : p[1] = "resolution"}
DisplayP == <<"display_mode", 0>>

\* calc_auto_mouse_timeout_by_kbconfig and dynamic_res_encoder_update_res; the
\* other copies have the value of the setting.
InForce(p, v) ==
  CASE p[1] = "mouse_layer_off_delay_ms" -> 100 * v
    [] p[1] = "resolution"               -> 2 ^ v
    [] OTHER                             -> v

\* A bug to detect: no side effect for the LED.
EffectButLed(p, s) ==
  [q \in DOMAIN live |-> IF q = p /\ q \in Applied \ {<<"led_base_mode", 0>>}
                         THEN InForce(q, s[q]) ELSE live[q]]

\* apply_set_param_side_effect; the trackballs' settings are in Trackball.
SideEffect(p, s) ==
  [q \in DOMAIN live |-> IF q = p /\ q \in Applied THEN InForce(q, s[q]) ELSE live[q]]

\* keyboard_post_init_kb: the display mode SelectedKey is replaced.  The bit-field
\* of led_base_mode holds no other value than the four modes.
Accepted(s) == IF s[DisplayP] >= 4 \/ s[DisplayP] = SelectedKey THEN [s EXCEPT ![DisplayP] = 0] ELSE s

\* A start enables the auto mouse layer whatever mouse_layer_on says
\* (pointing_device_driver_init).
Started(s) ==
  LET accepted == Accepted(s)
  IN  [p \in Applied \cup AtStart |-> IF p[1] = "mouse_layer_on" THEN 1 ELSE InForce(p, accepted[p])]

HostInit ==
  /\ session \in Sessions
  /\ settings = Reset([p \in Params |-> 0])
  /\ asked = settings
  /\ live = Started(settings)
  /\ loose = {}

\* Power goes and returns, everything saved.
Restart ==
  /\ settings' = Accepted(settings)
  /\ asked' = [asked EXCEPT ![DisplayP] = settings'[DisplayP]]
  /\ live' = Started(settings)
  /\ loose' = {}
  /\ UNCHANGED session

(***************************************************************************)
(* The host and the keys.                                                  *)
(***************************************************************************)

\* set_param of a number in the accessor table.
SetParam(id, v) ==
  LET p == ParamOf(id)
  IN  /\ settings' = [settings EXCEPT ![p] = Kept(p[1], AtMost(v, Limit(p[1])))]
      /\ asked' = [asked EXCEPT ![p] = v]
      /\ live' = SideEffect(p, settings')
      /\ loose' = IF p \in AtStart THEN loose \cup {p} ELSE loose \ {p}
      /\ UNCHANGED session

\* handle_get_kbc_param, with get_general_field, get_tb_field and get_re_resolution.
Get(id) == settings[ParamOf(id)]

\* handle_set_magkey_config_command: refused where no magnetic key is.
SetMagkey(actuation, reset, rapid, present) ==
  /\ present
  /\ LET sent == [p \in KeyParams |-> CASE p[1] = "actuation_point" -> actuation
                                        [] p[1] = "reset_point"     -> reset
                                        [] OTHER                    -> rapid]
     IN  /\ settings' = [p \in Params |-> IF p \in KeyParams THEN Kept(p[1], AtMost(sent[p], Limit(p[1])))
                                          ELSE settings[p]]
         /\ asked' = [p \in Params |-> IF p \in KeyParams THEN sent[p] ELSE asked[p]]
  /\ UNCHANGED <<session, live, loose>>

\* The command reset_all_params: nothing comes into force.
ResetParams ==
  /\ settings' = Reset(settings) /\ asked' = settings'
  /\ loose' = Applied \cup AtStart
  /\ UNCHANGED <<session, live>>

\* display_set_mode, called for a page that is not the setting's.
ShowPage(mode) ==
  /\ live' = [live EXCEPT ![DisplayP] = mode]
  /\ loose' = loose \cup {DisplayP}
  /\ UNCHANGED <<session, settings, asked>>

\* The key NEXT_OLED_PAGE and the command set_display_keypress_target.
NextPage          == ShowPage((live[DisplayP] + 1) % 4)
SetKeypressTarget == ShowPage(SelectedKey)

HostNext ==
  \/ \E id \in session \cap Ids, v \in HostValues : SetParam(id, v)
  \/ \E a, r \in HostValues, rapid \in {0, 1}, present \in BOOLEAN :
       SetMagkeyConfig \in session /\ SetMagkey(a, r, rapid, present)
  \/ ResetParams \/ NextPage \/ SetKeypressTarget
  \/ Restart

HostSpec == HostInit /\ [][HostNext]_hostVars

(***************************************************************************)
(* Properties.                                                             *)
(***************************************************************************)

\* get_tapping_term, which the documentation limits to 50 .. 425 ms.
TappingTerm == 50 + settings[<<"tapping_term_50ms", 0>>] * 25

\* Every variable has its type and no setting exceeds what its users expect.
HostTypeOK ==
  /\ session \in Sessions /\ loose \subseteq Applied \cup AtStart
  /\ DOMAIN settings = Params /\ DOMAIN asked = Params /\ DOMAIN live = Applied \cup AtStart
  /\ \A p \in Params : settings[p] \in 0 .. Greatest(p[1])
  /\ TappingTerm \in 50 .. 425

\* The host reads back what it wrote, up to the documented maximum: neither the
\* width of a field nor its limit nor a neighbour in the same section alters it.
\* The exception is the documented maximum of a key's points, which their fields
\* cannot hold: 4095 is read back for 4096.
ReadsBackAsAsked ==
  /\ \A p \in Params : settings[p] = AtMost(asked[p], Greatest(p[1]))
  /\ \A id \in session \cap Ids : Get(id) = AtMost(asked[ParamOf(id)], Greatest(ParamOf(id)[1]))

\* Side effects and starts agree: a restart changes nothing that is in force,
\* except what a reset, a page key or a new encoder resolution left for it, an
\* auto mouse layer that is switched off, which a start enables again, and the page
\* of the selected key.
ForcedAtStart(p) ==
  \/ p[1] = "mouse_layer_on" /\ settings[p] = 0
  \/ p = DisplayP /\ settings[p] = SelectedKey
RestartChangesNothing ==
  LET start == Started(settings)
  IN  \A p \in DOMAIN live : p \notin loose /\ ~ForcedAtStart(p) => start[p] = live[p]
================================================================================
