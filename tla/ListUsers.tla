------------------------------- MODULE ListUsers -------------------------------
(***************************************************************************)
(* Who uses the placed device list: the matrix pass, which decodes what a  *)
(* module's register reads as (i2clib.c) and puts it into the row          *)
(* (cue2keys.c), and the lookups of the display, the encoders and the      *)
(* host, which search the list each in its own way for the module of a key *)
(* (display.c, encoder.c, magkey_utils.c).  All must mean the same module. *)
(***************************************************************************)
EXTENDS KeymapLayout, FiniteSets

VARIABLES
  use,    \* the last use of the list: "none", "rows", "key" or "encoder"
  matrix, \* places that read as pressed
  held,   \* history: the keys held, pairs of a list position and a key
  silent, \* history: modules whose read failed
  expander, \* history: the chip of the first generation key modules
  spare,  \* history: pins no key is on that read high
  wanted, \* history: the place or index that was looked up
  shown   \* display_last_input: the list position found, 0 for none

userVars == <<use, matrix, held, silent, expander, spare, wanted, shown>>

UsersInit ==
  /\ Init
  /\ use = "none" /\ matrix = {} /\ held = {} /\ silent = {}
  /\ expander = "none" /\ spare = {} /\ wanted = 0 /\ shown = 0

(***************************************************************************)
(* The registers: sets of bits that are 1.                                 *)
(***************************************************************************)

\* read_PCA9557_register and read_XL9555_register: a pressed key reads 0.  The
\* second byte of an XL9555 follows at bit 4; of five keys it is not masked.
PCA9557(kind, high) == (0 .. Width(kind) - 1) \ high
XL9555(kind, high)  == PCA9557(kind, high) \cup (IF kind = "keys5V1" THEN high \cap 5 .. 7 ELSE {})

\* read_v2_key4_register, read_PCA9534A_register and read_v2_re_register.
Key4(high)    == high \cap 0 .. 3
Rotary(high)  == high \cap 0 .. 2

\* What the pins of a module are with some keys held; of an encoder the click is
\* key 0 on pin 2.
PinsHigh(kind, keys) ==
  CASE kind = "keys"            -> keys \cup (spare' \ (0 .. 3))
    [] kind \in {"re", "reV1"}  -> {2 : k \in keys} \cup (spare' \ {2})
    [] OTHER                    -> ((0 .. Width(kind) - 1) \ keys) \cup (spare' \ (0 .. Width(kind) - 1))

\* A bug to detect: the click is not moved to the first bit.
ClickUnmoved(kind, high) == IF kind = "keys" THEN Key4(high) ELSE Rotary(high)

\* read_device_row_data and apply_device_row_data: the bits for the row.
RowBits(kind, high) ==
  CASE kind = "keys"           -> Key4(high)
    [] kind \in {"re", "reV1"} -> IF 2 \in Rotary(high) THEN {0} ELSE {}
    [] OTHER                   -> IF expander' = "PCA9557" THEN PCA9557(kind, high) ELSE XL9555(kind, high)

\* device_has_row_data
HasRowData(p) == list[p].ch # 0 /\ list[p].kind # "display"

\* A bug to detect: a row runs on into the next one.
RowsRunOn ==
  UNION {{shift[p] + b : b \in RowBits(list[p].kind,
                                       PinsHigh(list[p].kind, {h[2] : h \in {g \in held' : g[1] = p}}))}
         : p \in {q \in Index : HasRowData(q)} \ silent' }

\* What a pass puts into the matrix: each module into the row its place lies in,
\* cut off at the end of the row.  A module that does not answer puts nothing.
RowsRead ==
  UNION { LET column == shift[p] % Cols
              bits   == RowBits(list[p].kind, PinsHigh(list[p].kind, {h[2] : h \in {g \in held' : g[1] = p}}))
          IN  {shift[p] + b : b \in {c \in bits : column + c < Cols}}
          : p \in {q \in Index : HasRowData(q)} \ silent' }

\* The keys there are.
KeysOf(kind) == IF kind \in {"re", "reV1"} THEN 1 ELSE Width(kind)
KeysThere    == {key \in Index \X (0 .. 4) : key[2] < KeysOf(list[key[1]].kind)}

\* matrix_read_cols_on_row, of all rows.
ReadRows(keys, failed) ==
  /\ pc = "done" /\ use = "none" /\ use' = "rows"
  /\ held' = keys /\ silent' = failed
  /\ expander' \in {"PCA9557", "XL9555"} /\ spare' \in {{}, 0 .. 7}
  /\ matrix' = RowsRead
  /\ UNCHANGED <<wanted, shown, vars>>

(***************************************************************************)
(* The lookups.                                                            *)
(***************************************************************************)

\* A bug to detect: every module has four keys.
FourKeys(kind) == IF kind \in {"re", "reV1"} THEN 1 ELSE IF Width(kind) > 0 THEN 4 ELSE 0

\* display_device_key_width
DisplayWidth(kind) == IF kind \in {"re", "reV1"} THEN 1 ELSE Width(kind)

First(S) == IF S = {} THEN 0 ELSE CHOOSE p \in S : \A q \in S : p <= q

\* display_find_device_for_key
FindForKey(place) ==
  First({p \in Index : shift[p] <= place /\ place < shift[p] + DisplayWidth(list[p].kind)})

\* magkey_get_latest_value, when all modules of the second generation have
\* magnetic keys.
FindMagnetic(place) ==
  First({p \in Index : list[p].kind = "keys" /\ shift[p] <= place /\ place < shift[p] + 4})

Encoders == {p \in Index : list[p].kind \in {"re", "reV1"}}

\* A bug to detect: the first encoder is not counted.
FindFromSecond(index) ==
  First({p \in Encoders : Cardinality({q \in Encoders : q < p}) = index + 1})

\* display_find_encoder_device and encoder_quadrature_read_pin: the encoder with
\* "index" others before it.
FindEncoder(index) ==
  First({p \in Encoders : Cardinality({q \in Encoders : q < p}) = index})

\* display_record_key_input; the host's get_keypress looks for the same place.
ShowKey(place) ==
  /\ pc = "done" /\ use = "none" /\ use' = "key"
  /\ wanted' = place
  /\ shown' = FindForKey(place)
  /\ UNCHANGED <<matrix, held, silent, expander, spare, vars>>

\* display_record_encoder_input, which keeps what is shown if there is none.
ShowEncoder(index) ==
  /\ pc = "done" /\ use = "none" /\ use' = "encoder"
  /\ wanted' = index
  /\ shown' = IF FindEncoder(index) = 0 THEN shown ELSE FindEncoder(index)
  /\ UNCHANGED <<matrix, held, silent, expander, spare, vars>>

UsersNext ==
  \/ Next /\ UNCHANGED userVars
  \* bound: no key, one key or all keys are held and at most one read fails
  \/ \E keys \in {{}, KeysThere} \cup {{k} : k \in KeysThere}, failed \in {{}} \cup {{p} : p \in Index} :
       ReadRows(keys, failed)
  \/ \E place \in 0 .. REStart + MaxDevices : ShowKey(place)
  \/ \E index \in 0 .. MaxDevices - 1 : ShowEncoder(index)

UsersSpec == UsersInit /\ [][UsersNext]_<<vars, userVars>>

(***************************************************************************)
(* Properties.                                                             *)
(***************************************************************************)

\* Every variable has its type; what reads as pressed is in the matrix and on the
\* rows of a listed module.
UsersTypeOK ==
  /\ use \in {"none", "rows", "key", "encoder"} /\ wanted \in Nat /\ shown \in 0 .. n
  /\ held \subseteq KeysThere /\ silent \subseteq Index
  /\ expander \in {"none", "PCA9557", "XL9555"} /\ spare \subseteq 0 .. 7
  /\ \A place \in matrix : \E p \in Index :
       HasRowData(p) /\ place \div Cols = shift[p] \div Cols

\* A list in which each key has a place of its own: no channel has too many
\* modules and no encoder is of the first generation, which gets no place.
EachHasItsPlace == pc = "done" /\ \A p \in Index : ~Spilled(p) /\ list[p].kind # "reV1"

\* The matrix has exactly the keys that are held on the modules that answered,
\* each at its place, whatever the chips, the other keys and the spare pins are,
\* except that a module of five keys with an XL9555 needs these grounded.
RowIsExact ==
  use = "rows" /\ EachHasItsPlace /\ (expander = "PCA9557" \/ spare = {}) =>
    matrix = {shift[h[1]] + h[2] : h \in {k \in held : list[k[1]].ch # 0 /\ k[1] \notin silent}}

\* The lookups by key find the module the matrix reads the key from, as long as no
\* module with keys is upstream of the multiplexer, where modules have no place
\* but keep keymapShift 0.
OwnerIsShown ==
  use = "key" /\ EachHasItsPlace /\ (\A p \in Index : list[p].ch = 0 => list[p].kind = "display") =>
    /\ shown # 0 <=> \E p \in Placed : wanted \in Places(p)
    /\ shown # 0 => wanted \in Places(shown)
    /\ shown # 0 /\ list[shown].kind = "keys" => FindMagnetic(wanted) = shown

\* The encoder a turn is shown for is the one whose click has the place of that
\* index in the encoder row, so that turns and clicks are of the same module.
TurnAndClickAgree ==
  use = "encoder" /\ EachHasItsPlace /\ (\A p \in Encoders : list[p].ch # 0) /\ shown # 0 =>
    shift[shown] = REStart + wanted

\* All searches of the list mean the module whose keys the pass put there.
LookupsAgree == OwnerIsShown /\ TurnAndClickAgree
================================================================================
