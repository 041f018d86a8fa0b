------------------------------ MODULE KeymapLayout ------------------------------
(***************************************************************************)
(* The end of a scan (device_scanner.c): sort_device_list, an exchange     *)
(* sort, and assign_keymap_shifts, which gives every listed device its     *)
(* place in the matrix.                                                    *)
(*                                                                         *)
(* The comparison of the sort is no order: a device is moved forward for   *)
(* its better rank, but also for its lower address whatever the ranks.     *)
(* That the result is in order nevertheless depends on the order in which  *)
(* the scan has found the devices.                                         *)
(***************************************************************************)
EXTENDS Naturals

CONSTANTS
  Slots,       \* the channels and addresses where devices may be, pairs
  NumCh,       \* MAX_MEX_CH
  MaxDevices,  \* MAX_MCP_NUM, which the code does not check
  Cols,        \* MATRIX_COLS
  PerCh        \* MAX_KEYMAP_PER_CH_NUM

\* The kinds that are told apart: by rank, and by the keys they have.
Kinds == {"keys", "re", "keysV1", "keys5V1", "reV1", "display"}

ASSUME LayoutAssumption ==
  /\ NumCh \in Nat /\ MaxDevices \in Nat
  /\ Slots \subseteq (0 .. NumCh) \X Nat
  /\ Cols \in Nat \ {0} /\ Cols >= 5
  /\ PerCh \in Nat /\ PerCh % Cols = 0

Device == [ch : 0 .. NumCh, addr : Nat, kind : Kinds]

VARIABLES
  n,        \* nDevices
  found,    \* the list as the scan has filled it
  list,     \* deviceList
  shift,    \* the keymapShift of each
  i, j,     \* the loop counters, from 1
  pc,       \* "sort", "place" or "done"
  next,     \* nextKeymapShift
  nextRE,   \* nextREKeymapShift
  prevCh    \* prev_ch, where NumCh + 1 stands for -1

vars == <<n, found, list, shift, i, j, pc, next, nextRE, prevCh>>

Index == 1 .. n

\* The scan goes through the channels, and through the addresses of each.
ScanOrder(at) ==
  \A p, q \in Index : p < q =>
    at[p][1] < at[q][1] \/ (at[p][1] = at[q][1] /\ at[p][2] < at[q][2])

REStart == PerCh * NumCh

Init ==
  /\ n \in 0 .. MaxDevices
  /\ \E at \in [Index -> Slots] :
       /\ ScanOrder(at)
       /\ \E kind \in [Index -> Kinds] :
            found = [p \in Index |-> [ch |-> at[p][1], addr |-> at[p][2], kind |-> kind[p]]]
  /\ list = found
  /\ shift = [p \in Index |-> 0]
  /\ i = 1 /\ j = 2 /\ pc = "sort"
  /\ next = 0 /\ nextRE = REStart /\ prevCh = NumCh + 1

(***************************************************************************)
(* sort_device_list                                                        *)
(***************************************************************************)

Rank == [keys |-> 0, re |-> 1, keysV1 |-> 2, keys5V1 |-> 2, reV1 |-> 3, display |-> 100]

\* A bug to detect: a lower address comes forward before the ranks are compared.
SwapByAddress(a, b) ==
  IF a.ch # b.ch THEN a.ch > b.ch ELSE a.addr > b.addr

\* deviceListShouldSwap
ShouldSwap(a, b) ==
  IF a.ch # b.ch THEN a.ch > b.ch
  ELSE Rank[a.kind] > Rank[b.kind] \/ a.addr > b.addr

\* A bug to detect: the entry is overwritten before it is saved.
Overwritten == [list EXCEPT ![i] = list[j]]

Swapped == [list EXCEPT ![i] = list[j], ![j] = list[i]]

Compare ==
  /\ pc = "sort" /\ i < n /\ j <= n
  /\ list' = IF ShouldSwap(list[i], list[j]) THEN Swapped ELSE list
  /\ j' = j + 1
  /\ UNCHANGED <<n, found, shift, i, pc, next, nextRE, prevCh>>

NextRound ==
  /\ pc = "sort" /\ i < n /\ j > n
  /\ i' = i + 1 /\ j' = i + 2
  /\ UNCHANGED <<n, found, list, shift, pc, next, nextRE, prevCh>>

SortEnd ==
  /\ pc = "sort" /\ ~(i < n)
  /\ pc' = "place" /\ i' = 1
  /\ UNCHANGED <<n, found, list, shift, j, next, nextRE, prevCh>>

(***************************************************************************)
(* assign_keymap_shifts                                                    *)
(***************************************************************************)

\* key_device_width
Width(kind) ==
  CASE kind \in {"keys", "keysV1"} -> 4
    [] kind = "keys5V1"            -> 5
    [] OTHER                       -> 0

\* A bug to detect: a module may begin where it does not fit the row any more.
Unaligned(s, width) == s

\* get_aligned_keymap_shift: a module that does not fit the row begins the next.
Aligned(s, width) == IF (s % Cols) + width > Cols THEN s + (Cols - (s % Cols)) ELSE s

\* A bug to detect: prev_ch is not kept, every device begins its channel.
StartAgain(c) == PerCh * (c - 1)

\* get_keymap_start, at the first device of a channel.
ChannelStart(c) == IF c # prevCh THEN PerCh * (c - 1) ELSE next

\* assign_device_keymap_shift.  First generation encoders stay at place 0, like
\* displays, which have no keys.
Place ==
  /\ pc = "place" /\ i <= n
  /\ i' = i + 1
  /\ LET d     == list[i]
         w     == Width(d.kind)
         start == ChannelStart(d.ch)
         s     == Aligned(start, w)
         re    == Aligned(nextRE, 1)
     IN  IF d.ch = 0
         THEN UNCHANGED <<shift, next, nextRE, prevCh>>
         ELSE /\ prevCh' = d.ch
              /\ IF w > 0
                 THEN shift' = [shift EXCEPT ![i] = s] /\ next' = s + w /\ UNCHANGED nextRE
                 ELSE /\ next' = start
                      /\ IF d.kind = "re"
                         THEN shift' = [shift EXCEPT ![i] = re] /\ nextRE' = re + 1
                         ELSE UNCHANGED <<shift, nextRE>>
  /\ UNCHANGED <<n, found, list, j, pc>>

PlaceEnd ==
  /\ pc = "place" /\ ~(i <= n)
  /\ pc' = "done"
  /\ UNCHANGED <<n, found, list, shift, i, j, next, nextRE, prevCh>>

Next == Compare \/ NextRound \/ SortEnd \/ Place \/ PlaceEnd

Spec == Init /\ [][Next]_vars

(***************************************************************************)
(* Properties.                                                             *)
(***************************************************************************)

ListTypeOK ==
  /\ n \in Nat /\ i \in Nat \ {0} /\ j \in Nat
  /\ pc \in {"sort", "place", "done"}
  /\ found \in [Index -> Device] /\ list \in [Index -> Device]

PlaceTypeOK ==
  /\ shift \in [Index -> Nat] /\ next \in Nat /\ nextRE \in Nat
  /\ prevCh \in 0 .. NumCh + 1

SameDevices ==
  /\ \A p \in Index : \E q \in Index : list[q] = found[p]
  /\ \A p, q \in Index : p # q => list[p].ch # list[q].ch \/ list[p].addr # list[q].addr

\* Every variable has its type, and no device is lost or doubled by the sort.
TypeOK == ListTypeOK /\ PlaceTypeOK /\ SameDevices

\* The order the pass, the encoder lookup and the places are meant to have:
\* channel, kind, address.
Before(a, b) ==
  \/ a.ch < b.ch
  \/ a.ch = b.ch /\ Rank[a.kind] < Rank[b.kind]
  \/ a.ch = b.ch /\ Rank[a.kind] = Rank[b.kind] /\ a.addr < b.addr

\* Although its comparison is no order, the exchange sort puts every list a
\* scan can find in order.
SortIsRight ==
  pc # "sort" => \A p, q \in Index : p < q => Before(list[p], list[q])

\* The devices that have a place of their own and the places they take.
Placed    == {p \in Index : list[p].ch # 0 /\ (Width(list[p].kind) > 0 \/ list[p].kind = "re")}
Places(p) == shift[p] .. shift[p] + (IF list[p].kind = "re" THEN 1 ELSE Width(list[p].kind)) - 1

\* Keys past the rows of their channel, which has too many modules.
Spilled(p) == list[p].kind # "re" /\ shift[p] + Width(list[p].kind) > PerCh * list[p].ch

\* A module never lies across two rows: the matrix pass reads it in one row.
InOneRow ==
  pc = "done" => \A p \in Placed : \A a, b \in Places(p) : a \div Cols = b \div Cols

\* No two modules share a key of the matrix, unless one of them belongs to a
\* channel with more modules than its rows hold and lies past these.
PlacesAreApart ==
  pc = "done" => \A p, q \in Placed :
    p # q /\ Places(p) \cap Places(q) # {} => Spilled(p) \/ Spilled(q)

\* Every key has one place that the pass reads (assign_keymap_shifts).
PlacesFit == InOneRow /\ PlacesAreApart
=============================================================================
