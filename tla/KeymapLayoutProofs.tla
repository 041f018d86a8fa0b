--------------------------- MODULE KeymapLayoutProofs ---------------------------
(***************************************************************************)
(* The exchange sort of sort_device_list is right for every list a scan    *)
(* can find, of any length, and loses no device.                           *)
(*                                                                         *)
(* Its comparison moves the lower address forward even if its rank is the  *)
(* higher one, so that all depends on Untangled: among the devices left to *)
(* sort, one behind another of the same channel has either the higher      *)
(* address or no higher rank.  The list starts so, since the scan finds    *)
(* addresses in order, and an exchange keeps it so: the device that goes   *)
(* back goes past devices it comes before.                                 *)
(*                                                                         *)
(* With the places it gives, the rows of a pass are those of the listed    *)
(* modules, and the display's walk back from a key or a click finds the    *)
(* module it came from.                                                    *)
(***************************************************************************)
EXTENDS ListUsers, FiniteSetTheorems, WellFoundedInduction, TLAPS

\* Device a of a later position does not come before b for its address only.
Fits(b, a) ==
  /\ b.ch <= a.ch
  /\ b.ch = a.ch => b.addr # a.addr
  /\ b.ch = a.ch /\ b.addr > a.addr => Rank[b.kind] >= Rank[a.kind]

\* The counters of the sort and what is known of the positions they name.
Counters ==
  pc = "sort" /\ i < n => j \in i + 1 .. n + 1

\* What is left to sort, the device at i only against what it has not met.
Untangled ==
  pc = "sort" =>
    /\ \A p, q \in Index : i < p /\ p < q => Fits(list[p], list[q])
    /\ i < n => \A q \in Index : j <= q => Fits(list[i], list[q])

\* The devices before i are in place, the one at i before all it has met.
Sorted ==
  pc = "sort" =>
    /\ \A p, q \in Index : p < i /\ p < q => Before(list[p], list[q])
    /\ \A q \in Index : i < q /\ q < j => Before(list[i], list[q])

IInv == TypeOK /\ Counters /\ Untangled /\ Sorted /\ SortIsRight

LEMMA RankNat == \A k \in Kinds : Rank[k] \in Nat
BY DEF Kinds, Rank

\* Before is transitive.
LEMMA BeforeTransitive ==
  ASSUME NEW a \in Device, NEW b \in Device, NEW c \in Device, Before(a, b), Before(b, c)
  PROVE  Before(a, c)
<1>1. Rank[a.kind] \in Nat /\ Rank[b.kind] \in Nat /\ Rank[c.kind] \in Nat
  BY RankNat DEF Device
<1> QED
  BY <1>1, LayoutAssumption DEF Before, Device

\* On untangled devices the comparison of the sort is the order it should be.
LEMMA ComparisonIsRight ==
  ASSUME NEW a \in Device, NEW b \in Device, Fits(a, b)
  PROVE  /\ ShouldSwap(a, b) => Before(b, a) /\ a.ch = b.ch
         /\ ~ShouldSwap(a, b) => Before(a, b)
<1>1. Rank[a.kind] \in Nat /\ Rank[b.kind] \in Nat
  BY RankNat DEF Device
<1> QED
  BY <1>1, LayoutAssumption DEF ShouldSwap, Before, Fits, Device

\* A device may go behind one that it comes before.
LEMMA BeforeFits ==
  ASSUME NEW a \in Device, NEW b \in Device, Before(a, b), b.ch = a.ch => b.addr # a.addr,
         b.ch <= a.ch
  PROVE  Fits(b, a)
<1>1. Rank[a.kind] \in Nat /\ Rank[b.kind] \in Nat
  BY RankNat DEF Device
<1> QED
  BY <1>1, LayoutAssumption DEF Before, Fits, Device

\* Places stay natural numbers.
LEMMA AlignedNat ==
  ASSUME NEW s \in Nat, NEW w \in Nat
  PROVE  Aligned(s, w) \in Nat
<1>1. s % Cols \in 0 .. Cols - 1
  BY LayoutAssumption
<1> QED
  BY <1>1, LayoutAssumption DEF Aligned

LEMMA ChannelStartNat ==
  ASSUME NEW c \in 1 .. NumCh, next \in Nat
  PROVE  ChannelStart(c) \in Nat
BY LayoutAssumption DEF ChannelStart

LEMMA WidthNat == \A k \in Kinds : Width(k) \in Nat
BY DEF Width, Kinds

LEMMA InvInit == Init => IInv
<1> SUFFICES ASSUME Init PROVE IInv
  OBVIOUS
<1> USE LayoutAssumption
<1>1. PICK at \in [Index -> Slots] :
        /\ ScanOrder(at)
        /\ \E kind \in [Index -> Kinds] :
             found = [p \in Index |-> [ch |-> at[p][1], addr |-> at[p][2], kind |-> kind[p]]]
  BY DEF Init
<1>2. PICK kind \in [Index -> Kinds] :
        found = [p \in Index |-> [ch |-> at[p][1], addr |-> at[p][2], kind |-> kind[p]]]
  BY <1>1
<1>3. \A p \in Index : at[p][1] \in 0 .. NumCh /\ at[p][2] \in Nat
  BY <1>1
<1>4. found \in [Index -> Device] /\ list = found
  BY <1>2, <1>3 DEF Device, Init
<1>5. n \in Nat
  BY DEF Init
<1>6. \A p, q \in Index : p < q =>
         list[p].ch < list[q].ch \/ (list[p].ch = list[q].ch /\ list[p].addr < list[q].addr)
  BY <1>1, <1>2, <1>4 DEF ScanOrder
<1>7. ListTypeOK
  BY <1>4, <1>5 DEF ListTypeOK, Init
<1>8. PlaceTypeOK
  BY DEF PlaceTypeOK, Init, REStart
<1>9. SameDevices
  <2>1. \A p, q \in Index : p < q \/ q < p \/ p = q
    BY <1>5 DEF Index
  <2>2. \A p \in Index : list[p].ch \in Nat /\ list[p].addr \in Nat
    BY <1>4 DEF Device
  <2> QED
    BY <1>4, <1>6, <2>1, <2>2 DEF SameDevices
<1>10. \A p, q \in Index : p < q => Fits(list[p], list[q])
  <2> SUFFICES ASSUME NEW p \in Index, NEW q \in Index, p < q PROVE Fits(list[p], list[q])
    OBVIOUS
  <2>1. list[p] \in Device /\ list[q] \in Device
    BY <1>4
  <2> QED
    BY <2>1, <1>6 DEF Fits, Device
<1>11. Counters
  BY <1>5 DEF Counters, Init
<1>12. Untangled
  <2>1. i = 1 /\ j = 2
    BY DEF Init
  <2>2. ASSUME NEW q \in Index, j <= q, i < n
        PROVE  Fits(list[i], list[q])
    <3>1. i \in Index /\ i < q
      BY <1>5, <2>1, <2>2 DEF Index
    <3> QED
      BY <1>10, <3>1
  <2> QED
    BY <1>10, <2>2 DEF Untangled
<1>13. Sorted /\ SortIsRight
  BY <1>5 DEF Sorted, SortIsRight, Init, Index
<1> QED
  BY <1>7, <1>8, <1>9, <1>11, <1>12, <1>13 DEF IInv, TypeOK

\* An exchange of the devices at i and j keeps the invariant.
LEMMA ExchangeStep ==
  ASSUME IInv, Compare, ShouldSwap(list[i], list[j])
  PROVE  IInv'
<1> USE LayoutAssumption DEF IInv, TypeOK
<1>1. /\ pc = "sort" /\ pc' = "sort" /\ i < n /\ j <= n /\ j' = j + 1 /\ i' = i /\ n' = n
      /\ list' = Swapped
      /\ UNCHANGED <<found, shift, next, nextRE, prevCh>>
  BY DEF Compare
<1>2. n \in Nat /\ i \in Index /\ j \in Index /\ i < j /\ Index' = Index
  BY <1>1 DEF ListTypeOK, Counters, Index
<1>3. list \in [Index -> Device] /\ list' \in [Index -> Device]
  BY <1>1, <1>2 DEF ListTypeOK, Swapped
<1>4. /\ list'[i] = list[j] /\ list'[j] = list[i]
      /\ \A p \in Index \ {i, j} : list'[p] = list[p]
  BY <1>1, <1>2, <1>3 DEF Swapped
<1>5. Fits(list[i], list[j])
  BY <1>1, <1>2 DEF Untangled, Index
<1>6. Before(list[j], list[i]) /\ list[i].ch = list[j].ch
  BY <1>2, <1>3, <1>5, ComparisonIsRight
<1>7. ListTypeOK'
  BY <1>1, <1>2, <1>3 DEF ListTypeOK
<1>8. PlaceTypeOK'
  BY <1>1, <1>2 DEF PlaceTypeOK
<1>9. SameDevices'
  <2>1. \A p \in Index : \E q \in Index : list'[q] = found[p]
    <3> SUFFICES ASSUME NEW p \in Index PROVE \E q \in Index : list'[q] = found[p]
      OBVIOUS
    <3>1. PICK q \in Index : list[q] = found[p]
      BY DEF SameDevices
    <3> QED
      BY <1>2, <1>4, <3>1
  <2>2. \A p, q \in Index : p # q => list'[p].ch # list'[q].ch \/ list'[p].addr # list'[q].addr
    BY <1>2, <1>4 DEF SameDevices
  <2> QED
    BY <1>1, <1>2, <2>1, <2>2 DEF SameDevices
<1>10. Counters'
  BY <1>1, <1>2 DEF Counters, Index
<1>11. \A q \in Index : i < q /\ q < j => Before(list[i], list[q])
  BY <1>1 DEF Sorted
<1>12. \A p, q \in Index : i < p /\ p < q => Fits(list[p], list[q])
  BY <1>1 DEF Untangled
<1>13. \A q \in Index : j <= q => Fits(list[i], list[q])
  BY <1>1 DEF Untangled
<1>14. \A p, q \in Index : i < p /\ p < q => Fits(list'[p], list'[q])
  <2> SUFFICES ASSUME NEW p \in Index, NEW q \in Index, i < p, p < q
               PROVE  Fits(list'[p], list'[q])
    OBVIOUS
  <2>0. p \in Nat /\ q \in Nat /\ i \in Nat /\ j \in Nat
    BY <1>2 DEF Index
  <2>1. CASE p # j /\ q # j
    BY <2>0, <2>1, <1>4, <1>12
  <2>2. CASE p = j
    BY <2>0, <2>2, <1>2, <1>4, <1>13
  <2>3. CASE q = j
    <3>1. list'[p] = list[p] /\ list'[q] = list[i]
      BY <2>0, <2>3, <1>2, <1>4
    <3>2. Before(list[i], list[p])
      BY <2>0, <2>3, <1>11
    <3>3. list[p].ch <= list[i].ch
      BY <2>0, <2>3, <1>2, <1>6, <1>12 DEF Fits
    <3>4. list[p].ch = list[i].ch => list[p].addr # list[i].addr
      BY <2>0, <1>2 DEF SameDevices
    <3> QED
      BY <3>1, <3>2, <3>3, <3>4, <1>2, <1>3, BeforeFits
  <2> QED
    BY <2>1, <2>2, <2>3
<1>15. \A q \in Index : j + 1 <= q => Fits(list'[i], list'[q])
  <2> SUFFICES ASSUME NEW q \in Index, j + 1 <= q PROVE Fits(list'[i], list'[q])
    OBVIOUS
  <2>1. q \in Nat /\ j < q /\ i < q /\ q # j /\ q # i
    BY <1>2 DEF Index
  <2> QED
    BY <2>1, <1>2, <1>4, <1>12
<1>16. Untangled'
  BY <1>1, <1>2, <1>14, <1>15 DEF Untangled
<1>17. \A p, q \in Index : p < i /\ p < q => Before(list'[p], list'[q])
  <2> SUFFICES ASSUME NEW p \in Index, NEW q \in Index, p < i, p < q
               PROVE  Before(list'[p], list'[q])
    OBVIOUS
  <2>1. p \in Nat /\ p # i /\ p # j /\ p < j
    BY <1>2 DEF Index
  <2>2. \A r \in Index : p < r => Before(list[p], list[r])
    BY <1>1 DEF Sorted
  <2> QED
    BY <2>1, <2>2, <1>2, <1>4
<1>18. \A q \in Index : i < q /\ q < j + 1 => Before(list'[i], list'[q])
  <2> SUFFICES ASSUME NEW q \in Index, i < q, q < j + 1 PROVE Before(list'[i], list'[q])
    OBVIOUS
  <2>1. q \in Nat /\ (q = j \/ (q < j /\ q # i))
    BY <1>2 DEF Index
  <2>2. CASE q = j
    BY <2>2, <1>4, <1>6
  <2>3. CASE q < j /\ q # i
    <3>1. Before(list[i], list[q]) /\ list'[q] = list[q]
      BY <2>3, <1>4, <1>11, <2>1
    <3> QED
      BY <3>1, <1>2, <1>3, <1>4, <1>6, BeforeTransitive
  <2> QED
    BY <2>1, <2>2, <2>3
<1>19. Sorted'
  BY <1>1, <1>2, <1>17, <1>18 DEF Sorted
<1>20. SortIsRight'
  BY <1>1 DEF SortIsRight
<1> QED
  BY <1>7, <1>8, <1>9, <1>10, <1>16, <1>19, <1>20

\* So does a comparison that leaves the two where they are.
LEMMA KeepStep ==
  ASSUME IInv, Compare, ~ShouldSwap(list[i], list[j])
  PROVE  IInv'
<1> USE LayoutAssumption DEF IInv, TypeOK
<1>1. /\ pc = "sort" /\ pc' = "sort" /\ i < n /\ j <= n /\ j' = j + 1
      /\ UNCHANGED <<n, found, list, shift, i, next, nextRE, prevCh>>
  BY DEF Compare
<1>2. n \in Nat /\ i \in Index /\ j \in Index /\ i < j /\ Index' = Index
  BY <1>1 DEF ListTypeOK, Counters, Index
<1>3. Before(list[i], list[j])
  <2>1. Fits(list[i], list[j])
    BY <1>1, <1>2 DEF Untangled, Index
  <2>2. list[i] \in Device /\ list[j] \in Device
    BY <1>2 DEF ListTypeOK
  <2> QED
    BY <2>1, <2>2, ComparisonIsRight
<1>4. ListTypeOK' /\ PlaceTypeOK' /\ SameDevices'
  BY <1>1, <1>2 DEF ListTypeOK, PlaceTypeOK, SameDevices
<1>5. Counters'
  BY <1>1, <1>2 DEF Counters, Index
<1>6. Untangled'
  <2>1. \A q \in Index : j + 1 <= q => j <= q
    BY <1>2 DEF Index
  <2> QED
    BY <1>1, <1>2, <2>1 DEF Untangled
<1>7. Sorted'
  <2>1. \A q \in Index : q < j + 1 => q < j \/ q = j
    BY <1>2 DEF Index
  <2> QED
    BY <1>1, <1>2, <1>3, <2>1 DEF Sorted
<1>8. SortIsRight'
  BY <1>1 DEF SortIsRight
<1> QED
  BY <1>4, <1>5, <1>6, <1>7, <1>8

LEMMA NextRoundStep ==
  ASSUME IInv, NextRound
  PROVE  IInv'
<1> USE LayoutAssumption DEF IInv, TypeOK
<1>1. /\ pc = "sort" /\ pc' = "sort" /\ i < n /\ j > n /\ i' = i + 1 /\ j' = i + 2
      /\ UNCHANGED <<n, found, list, shift, next, nextRE, prevCh>>
  BY DEF NextRound
<1>2. n \in Nat /\ i \in Nat \ {0} /\ j \in Nat /\ Index' = Index
  BY <1>1 DEF ListTypeOK, Index
<1>3. \A p \in Index : p \in Nat /\ p <= n
  BY <1>2 DEF Index
<1>4. ListTypeOK' /\ PlaceTypeOK' /\ SameDevices'
  BY <1>1, <1>2 DEF ListTypeOK, PlaceTypeOK, SameDevices
<1>5. Counters'
  BY <1>1, <1>2 DEF Counters
<1>6. \A p, q \in Index : i < p /\ p < q => Fits(list[p], list[q])
  BY <1>1 DEF Untangled
<1>7. Untangled'
  <2>1. \A p, q \in Index : i + 1 < p /\ p < q => Fits(list[p], list[q])
    BY <1>2, <1>3, <1>6
  <2>2. ASSUME i + 1 < n, NEW q \in Index, i + 2 <= q
        PROVE  Fits(list[i + 1], list[q])
    <3>1. i + 1 \in Index /\ i < i + 1 /\ i + 1 < q
      BY <1>2, <1>3, <2>2 DEF Index
    <3> QED
      BY <1>6, <3>1
  <2> QED
    BY <1>1, <1>2, <2>1, <2>2 DEF Untangled
<1>8. Sorted'
  <2>1. \A p, q \in Index : p < i /\ p < q => Before(list[p], list[q])
    BY <1>1 DEF Sorted
  <2>2. \A q \in Index : i < q => Before(list[i], list[q])
    <3>1. \A q \in Index : q < j
      BY <1>1, <1>2, <1>3
    <3> QED
      BY <1>1, <3>1 DEF Sorted
  <2>3. \A p \in Index : p < i + 1 => p < i \/ p = i
    BY <1>2, <1>3
  <2>4. \A q \in Index : ~(i + 1 < q /\ q < i + 2)
    BY <1>2, <1>3
  <2> QED
    BY <1>1, <1>2, <2>1, <2>2, <2>3, <2>4 DEF Sorted
<1>9. SortIsRight'
  BY <1>1 DEF SortIsRight
<1> QED
  BY <1>4, <1>5, <1>7, <1>8, <1>9

LEMMA SortEndStep ==
  ASSUME IInv, SortEnd
  PROVE  IInv'
<1> USE LayoutAssumption DEF IInv, TypeOK
<1>1. /\ pc = "sort" /\ pc' = "place" /\ ~(i < n) /\ i' = 1
      /\ UNCHANGED <<n, found, list, shift, j, next, nextRE, prevCh>>
  BY DEF SortEnd
<1>2. n \in Nat /\ i \in Nat \ {0} /\ Index' = Index
  BY <1>1 DEF ListTypeOK, Index
<1>3. ListTypeOK' /\ PlaceTypeOK' /\ SameDevices'
  BY <1>1, <1>2 DEF ListTypeOK, PlaceTypeOK, SameDevices
<1>4. Counters' /\ Untangled' /\ Sorted'
  BY <1>1 DEF Counters, Untangled, Sorted
<1>5. SortIsRight'
  <2>1. \A p, q \in Index : p < q => p < i
    BY <1>1, <1>2 DEF Index
  <2> QED
    BY <1>1, <1>2, <2>1 DEF Sorted, SortIsRight
<1> QED
  BY <1>3, <1>4, <1>5

LEMMA PlaceStep ==
  ASSUME IInv, Place
  PROVE  IInv'
<1> USE LayoutAssumption DEF IInv, TypeOK
<1> DEFINE d     == list[i]
           w     == Width(d.kind)
           start == ChannelStart(d.ch)
<1>1. /\ pc = "place" /\ pc' = "place" /\ i <= n /\ i' = i + 1
      /\ UNCHANGED <<n, found, list, j>>
  BY DEF Place
<1>2. n \in Nat /\ i \in Index /\ i \in Nat \ {0} /\ j \in Nat /\ Index' = Index
  BY <1>1 DEF ListTypeOK, Index
<1>3. d \in Device /\ w \in Nat
  <2>1. d \in Device
    BY <1>2 DEF ListTypeOK
  <2> QED
    BY <2>1, WidthNat DEF Device
<1>4. ListTypeOK' /\ SameDevices'
  BY <1>1, <1>2 DEF ListTypeOK, SameDevices
<1>5. PlaceTypeOK'
  <2>1. CASE d.ch = 0
    BY <2>1, <1>1, <1>2 DEF Place, PlaceTypeOK
  <2>2. CASE d.ch # 0
    <3>1. d.ch \in 1 .. NumCh
      BY <2>2, <1>3 DEF Device
    <3>2. start \in Nat
      BY <3>1, ChannelStartNat DEF PlaceTypeOK
    <3>3. Aligned(start, w) \in Nat /\ Aligned(nextRE, 1) \in Nat
      BY <3>2, <1>3, AlignedNat DEF PlaceTypeOK
    <3>4. /\ prevCh' = d.ch
          /\ \/ /\ shift' = [shift EXCEPT ![i] = Aligned(start, w)]
                /\ next' = Aligned(start, w) + w /\ nextRE' = nextRE
             \/ /\ next' = start
                /\ shift' = [shift EXCEPT ![i] = Aligned(nextRE, 1)]
                /\ nextRE' = Aligned(nextRE, 1) + 1
             \/ next' = start /\ UNCHANGED <<shift, nextRE>>
      BY <2>2 DEF Place
    <3> HIDE DEF d, w, start
    <3> QED
      BY <1>1, <1>2, <1>3, <3>1, <3>2, <3>3, <3>4 DEF PlaceTypeOK
  <2> QED
    BY <2>1, <2>2
<1>6. Counters' /\ Untangled' /\ Sorted'
  BY <1>1 DEF Counters, Untangled, Sorted
<1>7. SortIsRight'
  BY <1>1, <1>2 DEF SortIsRight
<1> QED
  BY <1>4, <1>5, <1>6, <1>7

LEMMA InvStep == IInv /\ [Next]_vars => IInv'
<1> SUFFICES ASSUME IInv, [Next]_vars PROVE IInv'
  OBVIOUS
<1>1. CASE Compare
  BY <1>1, ExchangeStep, KeepStep
<1>2. CASE NextRound
  BY <1>2, NextRoundStep
<1>3. CASE SortEnd
  BY <1>3, SortEndStep
<1>4. CASE Place
  BY <1>4, PlaceStep
<1>5. CASE PlaceEnd
  <2>1. Index' = Index
    BY <1>5 DEF PlaceEnd, Index
  <2>2. ListTypeOK' /\ PlaceTypeOK' /\ SameDevices'
    BY <1>5, <2>1 DEF IInv, TypeOK, PlaceEnd, ListTypeOK, PlaceTypeOK, SameDevices
  <2>3. Counters' /\ Untangled' /\ Sorted'
    BY <1>5 DEF PlaceEnd, Counters, Untangled, Sorted
  <2>4. SortIsRight'
    BY <1>5, <2>1 DEF IInv, PlaceEnd, SortIsRight
  <2> QED
    BY <2>2, <2>3, <2>4 DEF IInv, TypeOK
<1>6. CASE UNCHANGED vars
  <2>1. Index' = Index
    BY <1>6 DEF vars, Index
  <2>2. ListTypeOK' /\ PlaceTypeOK' /\ SameDevices'
    BY <1>6, <2>1 DEF IInv, TypeOK, vars, ListTypeOK, PlaceTypeOK, SameDevices
  <2>3. Counters' /\ Untangled'
    BY <1>6, <2>1 DEF IInv, vars, Counters, Untangled
  <2>4. Sorted' /\ SortIsRight'
    BY <1>6, <2>1 DEF IInv, vars, Sorted, SortIsRight
  <2> QED
    BY <2>2, <2>3, <2>4 DEF IInv, TypeOK
<1> QED
  BY <1>1, <1>2, <1>3, <1>4, <1>5, <1>6 DEF Next

\* The inductive invariant, from which the theorems follow.
THEOREM Invariant == Spec => []IInv
BY InvInit, InvStep, PTL DEF Spec

\* The sort and the placing keep their types and neither lose nor double a
\* device, for any number of devices on any channels.
THEOREM TypeCorrect == Spec => []TypeOK
<1>1. IInv => TypeOK
  BY DEF IInv
<1> QED
  BY <1>1, Invariant, PTL

\* Whatever a scan has found, sort_device_list puts it in order.
THEOREM SortCorrect == Spec => []SortIsRight
<1>1. IInv => SortIsRight
  BY DEF IInv
<1> QED
  BY <1>1, Invariant, PTL

(***************************************************************************)
(* The places.  What assign_keymap_shifts knows of the devices it has      *)
(* passed is the end of the last module of the running channel, and of the *)
(* last encoder.  That no earlier module of the channel lies behind that   *)
(* end needs that the list is in order, so that a channel's devices come   *)
(* one after another: otherwise a channel would begin twice (ChannelOf).   *)
(***************************************************************************)

Keyed(p) == list[p].ch # 0 /\ Width(list[p].kind) > 0
Turned(p) == list[p].ch # 0 /\ list[p].kind = "re"
Size(p)  == IF list[p].kind = "re" THEN 1 ELSE Width(list[p].kind)
PlaceEndOf(p) == shift[p] + Size(p)

\* Where the counters stand.
Running ==
  /\ pc = "sort" => next = 0 /\ nextRE = REStart /\ prevCh = NumCh + 1
  /\ pc = "done" => n < i
  /\ nextRE >= REStart
  /\ \A c \in 1 .. NumCh : prevCh = c => next >= PerCh * (c - 1)

\* The channel of the device before is the running one.
ChannelOf ==
  pc = "place" => \A p \in Index : i = p + 1 /\ list[p].ch # 0 => prevCh = list[p].ch

\* The place of each device passed, by itself.
EachPlace ==
  pc # "sort" => \A p \in Index : p < i =>
    /\ Keyed(p) \/ Turned(p) => (shift[p] % Cols) + Size(p) <= Cols
    /\ Keyed(p) => shift[p] >= PerCh * (list[p].ch - 1)
    /\ Keyed(p) /\ list[p].ch = prevCh => PlaceEndOf(p) <= next
    /\ Turned(p) => shift[p] >= REStart /\ PlaceEndOf(p) <= nextRE

\* And of two of them.
PairsOfPlaces ==
  pc # "sort" => \A p, q \in Index : p < q /\ q < i =>
    /\ Keyed(p) /\ Keyed(q) /\ list[p].ch = list[q].ch => PlaceEndOf(p) <= shift[q]
    /\ Turned(p) /\ Turned(q) => PlaceEndOf(p) <= shift[q]

PInv == Running /\ ChannelOf /\ EachPlace /\ PairsOfPlaces

LEMMA WidthSmall ==
  \A k \in Kinds : Width(k) \in 0 .. 5 /\ (k = "re" => Width(k) = 0)
BY DEF Width, Kinds

LEMMA Multiple ==
  ASSUME NEW c \in Nat \ {0}, NEW m \in Nat
  PROVE  (c * m) % c = 0
<1>1. c * m \in Nat /\ c * m = c * m + 0
  OBVIOUS
<1>2. (c * m) % c \in 0 .. c - 1 /\ (c * m) \div c \in Nat
      /\ c * m = c * ((c * m) \div c) + ((c * m) % c)
  BY <1>1
<1> DEFINE x == (c * m) \div c
           r == (c * m) % c
<1>3. r = c * (m - x) /\ r \in 0 .. c - 1 /\ x \in Nat
  <2>1. r \in 0 .. c - 1 /\ x \in Nat /\ c * m = c * x + r
    BY <1>2
  <2> HIDE DEF x, r
  <2> QED
    BY <2>1
<1>4. r = 0
  <2> HIDE DEF x, r
  <2>1. CASE m - x >= 1
    <3>1. c * (m - x) >= c
      BY <1>3, <2>1
    <3> QED
      BY <1>3, <3>1
  <2>2. CASE m - x <= 0
    <3>1. c * (m - x) <= 0
      BY <1>3, <2>2
    <3> QED
      BY <1>3, <3>1
  <2> QED
    BY <1>3, <2>1, <2>2
<1> QED
  BY <1>4

LEMMA MultipleOfCols ==
  ASSUME NEW c \in Nat \ {0}, NEW s \in Nat
  PROVE  s % c \in 0 .. c - 1 /\ (s + (c - (s % c))) % c = 0
<1>1. s % c \in 0 .. c - 1 /\ s \div c \in Nat /\ s = c * (s \div c) + (s % c)
  OBVIOUS
<1>2. s + (c - (s % c)) = c * ((s \div c) + 1)
  <2> DEFINE x == s \div c
             r == s % c
  <2>1. r \in 0 .. c - 1 /\ x \in Nat /\ s = c * x + r
    BY <1>1
  <2>2. s + (c - r) = c * (x + 1)
    <3> HIDE DEF x, r
    <3> QED
      BY <2>1
  <2> QED
    BY <2>2
<1>3. (c * ((s \div c) + 1)) % c = 0
  <2>1. (s \div c) + 1 \in Nat
    BY <1>1
  <2> QED
    BY <2>1, Multiple
<1> QED
  BY <1>1, <1>2, <1>3, Zenon

\* An aligned place is not before where it was meant to be, and in one row.
LEMMA AlignedFits ==
  ASSUME NEW s \in Nat, NEW w \in 0 .. 5
  PROVE  /\ Aligned(s, w) \in Nat /\ Aligned(s, w) >= s
         /\ (Aligned(s, w) % Cols) + w <= Cols
<1>1. Cols \in Nat \ {0} /\ Cols >= 5
  BY LayoutAssumption
<1>2. s % Cols \in 0 .. Cols - 1 /\ (s + (Cols - (s % Cols))) % Cols = 0
  BY <1>1, MultipleOfCols
<1>3. CASE (s % Cols) + w > Cols
  <2>1. Aligned(s, w) = s + (Cols - (s % Cols))
    BY <1>3 DEF Aligned
  <2>2. Aligned(s, w) % Cols = 0
    BY <1>2, <2>1, Zenon
  <2> QED
    BY <1>1, <1>2, <2>1, <2>2
<1>4. CASE ~((s % Cols) + w > Cols)
  <2>1. Aligned(s, w) = s
    BY <1>4 DEF Aligned
  <2> QED
    BY <1>1, <1>2, <1>4, <2>1
<1> QED
  BY <1>3, <1>4

LEMMA SameRow ==
  ASSUME NEW c \in Nat \ {0}, NEW s \in Nat, NEW k \in Nat, (s % c) + k < c
  PROVE  (s + k) \div c = s \div c
OBVIOUS

LEMMA RowsAfter ==
  ASSUME NEW k \in Nat, NEW c \in Nat, NEW d \in Nat, c < d
  PROVE  k * c <= k * (d - 1)
<1>1. c <= d - 1
  OBVIOUS
<1> QED
  BY <1>1

\* The device to place comes after all others of its channel, which is running
\* if there are any; its place may begin where they end.
LEMMA StartOfNext ==
  ASSUME IInv, PInv, Place, list[i].ch # 0
  PROVE  /\ list[i].ch \in 1 .. NumCh
         /\ ChannelStart(list[i].ch) \in Nat
         /\ ChannelStart(list[i].ch) >= PerCh * (list[i].ch - 1)
         /\ \A p \in Index : p < i /\ Keyed(p) /\ list[p].ch = list[i].ch =>
              PlaceEndOf(p) <= ChannelStart(list[i].ch)
<1> DEFINE c == list[i].ch
<1>1. pc = "place" /\ i \in Index /\ n \in Nat /\ i \in Nat \ {0}
  BY DEF Place, IInv, TypeOK, ListTypeOK, Index
<1>2. \A p \in Index : list[p].ch \in Nat /\ list[p].ch <= NumCh
  BY LayoutAssumption DEF IInv, TypeOK, ListTypeOK, Device
<1>3. c \in 1 .. NumCh
  BY <1>1, <1>2, LayoutAssumption
<1>4. ChannelStart(c) \in Nat
  BY <1>3, ChannelStartNat DEF IInv, TypeOK, PlaceTypeOK
<1>5. ChannelStart(c) >= PerCh * (c - 1)
  <2>1. PerCh * (c - 1) \in Nat
    BY <1>3, LayoutAssumption
  <2>2. CASE prevCh = c
    <3>1. next >= PerCh * (c - 1)
      BY <1>3, <2>2 DEF PInv, Running
    <3>2. ChannelStart(c) = next
      BY <2>2 DEF ChannelStart
    <3> QED
      BY <3>1, <3>2
  <2>3. CASE prevCh # c
    <3>1. ChannelStart(c) = PerCh * (c - 1)
      BY <2>3 DEF ChannelStart
    <3> QED
      BY <2>1, <3>1
  <2> QED
    BY <2>2, <2>3
<1>6. ASSUME NEW p \in Index, p < i, list[p].ch = c
      PROVE  prevCh = c
  <2> DEFINE q == i - 1
  <2>1. q \in Index /\ i = q + 1 /\ (p = q \/ p < q) /\ q < i
    BY <1>1, <1>6 DEF Index
  <2>2. \A a, b \in Index : a < b => list[a].ch <= list[b].ch
    <3>1. \A a, b \in Index : a < b => Before(list[a], list[b])
      BY <1>1 DEF IInv, SortIsRight
    <3> QED
      BY <1>2, <3>1 DEF Before
  <2> HIDE DEF q
  <2>3. list[q].ch = c
    <3>1. list[p].ch <= list[q].ch
      BY <1>2, <2>1, <2>2
    <3>2. list[q].ch <= c
      BY <1>1, <2>1, <2>2
    <3> QED
      BY <1>2, <1>6, <2>1, <3>1, <3>2
  <2> QED
    BY <1>1, <1>3, <2>1, <2>3 DEF PInv, ChannelOf
<1>7. ASSUME NEW p \in Index, p < i, Keyed(p), list[p].ch = c
      PROVE  PlaceEndOf(p) <= ChannelStart(c)
  <2>1. prevCh = c
    BY <1>6, <1>7
  <2>2. ChannelStart(c) = next
    BY <2>1 DEF ChannelStart
  <2>3. PlaceEndOf(p) <= next
    BY <1>1, <1>7, <2>1 DEF PInv, EachPlace
  <2> QED
    BY <2>2, <2>3
<1> QED
  BY <1>3, <1>4, <1>5, <1>7

\* What Place makes of the device at i; the others keep their places.
LEMMA PlaceKeeps ==
  ASSUME IInv, PInv, Place
  PROVE  /\ i \in Index /\ Index' = Index /\ i' = i + 1 /\ list' = list /\ pc' = "place"
         /\ \A p \in Index : p < i' => p < i \/ p = i
         /\ shift' \in [Index -> Nat]
         /\ \A p \in Index : p # i => shift'[p] = shift[p]
<1>1. pc = "place" /\ pc' = "place" /\ i <= n /\ i' = i + 1 /\ UNCHANGED <<n, list>>
  BY DEF Place
<1>2. i \in Index /\ n \in Nat /\ Index' = Index
  BY <1>1 DEF IInv, TypeOK, ListTypeOK, Index
<1>3. \A p \in Index : p < i' => p < i \/ p = i
  BY <1>1, <1>2 DEF Index
<1>4. shift' \in [Index -> Nat]
  BY <1>2, PlaceStep DEF IInv, TypeOK, PlaceTypeOK
<1>5. \A p \in Index : p # i => shift'[p] = shift[p]
  <2>1. shift \in [Index -> Nat]
    BY DEF IInv, TypeOK, PlaceTypeOK
  <2>2. shift' = shift \/ \E s : shift' = [shift EXCEPT ![i] = s]
    BY Zenon DEF Place
  <2> QED
    BY <1>2, <2>1, <2>2
<1> QED
  BY <1>1, <1>2, <1>3, <1>4, <1>5

\* The device is skipped: it is upstream of the multiplexer, or has no place.
LEMMA SkipPlace ==
  ASSUME IInv, PInv, Place, ~Keyed(i), ~Turned(i),
         UNCHANGED <<shift, nextRE>>,
         list[i].ch = 0 => UNCHANGED <<next, prevCh>>,
         list[i].ch # 0 => prevCh' = list[i].ch /\ next' = ChannelStart(list[i].ch)
  PROVE  PInv'
<1> USE PlaceKeeps
<1>1. Running'
  <2>1. CASE list[i].ch = 0
    BY <2>1 DEF PInv, Running, REStart
  <2>2. CASE list[i].ch # 0
    <3>1. next' >= PerCh * (list[i].ch - 1)
      BY <2>2, StartOfNext
    <3> QED
      BY <2>2, <3>1 DEF PInv, Running, REStart
  <2> QED
    BY <2>1, <2>2
<1>2. ChannelOf'
  <2>1. \A p \in Index : i + 1 = p + 1 => p = i
    BY DEF Index, IInv, TypeOK, ListTypeOK
  <2> QED
    BY <2>1 DEF ChannelOf
<1>3. EachPlace'
  <2> SUFFICES ASSUME NEW p \in Index, p < i'
        PROVE  /\ Keyed(p) \/ Turned(p) => (shift[p] % Cols) + Size(p) <= Cols
               /\ Keyed(p) => shift[p] >= PerCh * (list[p].ch - 1)
               /\ Keyed(p) /\ list[p].ch = prevCh' => PlaceEndOf(p) <= next'
               /\ Turned(p) => shift[p] >= REStart /\ PlaceEndOf(p) <= nextRE
    BY DEF EachPlace, Keyed, Turned, Size, PlaceEndOf, REStart
  <2>1. CASE p = i
    BY <2>1
  <2>2. CASE p < i
    <3>1. /\ Keyed(p) \/ Turned(p) => (shift[p] % Cols) + Size(p) <= Cols
          /\ Keyed(p) => shift[p] >= PerCh * (list[p].ch - 1)
          /\ Keyed(p) /\ list[p].ch = prevCh => PlaceEndOf(p) <= next
          /\ Turned(p) => shift[p] >= REStart /\ PlaceEndOf(p) <= nextRE
      BY <2>2 DEF PInv, EachPlace, Place
    <3>2. Keyed(p) /\ list[p].ch = prevCh' => PlaceEndOf(p) <= next'
      <4>1. CASE list[i].ch = 0
        BY <3>1, <4>1
      <4>2. CASE list[i].ch # 0
        BY <2>2, <4>2, StartOfNext
      <4> QED
        BY <4>1, <4>2
    <3> QED
      BY <3>1, <3>2, Zenon
  <2> QED
    BY <2>1, <2>2
<1>4. PairsOfPlaces'
  <2> SUFFICES ASSUME NEW p \in Index, NEW q \in Index, p < q, q < i'
        PROVE  /\ Keyed(p) /\ Keyed(q) /\ list[p].ch = list[q].ch => PlaceEndOf(p) <= shift[q]
               /\ Turned(p) /\ Turned(q) => PlaceEndOf(p) <= shift[q]
    BY DEF PairsOfPlaces, Keyed, Turned, Size, PlaceEndOf
  <2>1. CASE q = i
    BY <2>1
  <2>2. CASE q < i
    BY <2>2 DEF PInv, PairsOfPlaces, Place
  <2> QED
    BY <2>1, <2>2
<1> QED
  BY <1>1, <1>2, <1>3, <1>4 DEF PInv

\* A module with keys gets its place.
LEMMA KeyedPlace ==
  ASSUME IInv, PInv, Place, Keyed(i)
  PROVE  PInv'
<1> USE PlaceKeeps
<1> DEFINE c     == list[i].ch
           w     == Width(list[i].kind)
           start == ChannelStart(c)
           s     == Aligned(start, w)
<1>1. w \in 0 .. 5 /\ list[i].kind # "re" /\ Size(i) = w /\ ~Turned(i)
  BY WidthSmall DEF Keyed, Turned, Size, IInv, TypeOK, ListTypeOK, Device
<1>2. prevCh' = c /\ shift' = [shift EXCEPT ![i] = s] /\ next' = s + w /\ nextRE' = nextRE
  BY Zenon DEF Place, Keyed
<1>3. /\ c \in 1 .. NumCh /\ start \in Nat /\ start >= PerCh * (c - 1)
      /\ \A p \in Index : p < i /\ Keyed(p) /\ list[p].ch = c => PlaceEndOf(p) <= start
  BY StartOfNext DEF Keyed
<1>4. s \in Nat /\ s >= start /\ (s % Cols) + w <= Cols
  BY <1>1, <1>3, AlignedFits
<1>5. shift'[i] = s
  BY <1>2 DEF IInv, TypeOK, PlaceTypeOK
<1>6. /\ PerCh * (c - 1) \in Nat
      /\ \A p \in Index : PlaceEndOf(p) \in Nat
  <2>1. PerCh * (c - 1) \in Nat
    BY <1>3, LayoutAssumption
  <2>2. \A p \in Index : Size(p) \in Nat /\ shift[p] \in Nat
    BY WidthSmall DEF Size, IInv, TypeOK, ListTypeOK, PlaceTypeOK, Device
  <2> QED
    BY <2>1, <2>2 DEF PlaceEndOf
<1> HIDE DEF s, start, w
<1>7. s >= PerCh * (c - 1) /\ s + w >= PerCh * (c - 1)
      /\ \A p \in Index : p < i /\ Keyed(p) /\ list[p].ch = c =>
           PlaceEndOf(p) <= s /\ PlaceEndOf(p) <= s + w
  BY <1>1, <1>3, <1>4, <1>6
<1>8. Running'
  BY <1>2, <1>7 DEF PInv, Running, REStart
<1>9. ChannelOf'
  <2>1. \A p \in Index : i + 1 = p + 1 => p = i
    BY DEF Index, IInv, TypeOK, ListTypeOK
  <2> QED
    BY <1>2, <2>1 DEF ChannelOf
<1>10. EachPlace'
  <2> SUFFICES ASSUME NEW p \in Index, p < i'
        PROVE  /\ Keyed(p) \/ Turned(p) => (shift'[p] % Cols) + Size(p) <= Cols
               /\ Keyed(p) => shift'[p] >= PerCh * (list[p].ch - 1)
               /\ Keyed(p) /\ list[p].ch = c => shift'[p] + Size(p) <= s + w
               /\ Turned(p) => shift'[p] >= REStart /\ shift'[p] + Size(p) <= nextRE
    BY <1>2 DEF EachPlace, Keyed, Turned, Size, PlaceEndOf, REStart
  <2>1. CASE p = i
    BY <1>1, <1>4, <1>5, <1>7, <2>1
  <2>2. CASE p < i
    <3>1. shift'[p] = shift[p]
      BY <2>2 DEF IInv, TypeOK, ListTypeOK
    <3>2. /\ Keyed(p) \/ Turned(p) => (shift[p] % Cols) + Size(p) <= Cols
          /\ Keyed(p) => shift[p] >= PerCh * (list[p].ch - 1)
          /\ Turned(p) => shift[p] >= REStart /\ PlaceEndOf(p) <= nextRE
      BY <2>2 DEF PInv, EachPlace, Place
    <3> QED
      BY <1>7, <2>2, <3>1, <3>2, Zenon DEF PlaceEndOf
  <2> QED
    BY <2>1, <2>2
<1>11. PairsOfPlaces'
  <2> SUFFICES ASSUME NEW p \in Index, NEW q \in Index, p < q, q < i'
        PROVE  /\ Keyed(p) /\ Keyed(q) /\ list[p].ch = list[q].ch =>
                    shift'[p] + Size(p) <= shift'[q]
               /\ Turned(p) /\ Turned(q) => shift'[p] + Size(p) <= shift'[q]
    BY DEF PairsOfPlaces, Keyed, Turned, Size, PlaceEndOf
  <2>1. shift'[p] = shift[p] /\ (q = i => p < i)
    BY DEF IInv, TypeOK, ListTypeOK, Index
  <2>2. CASE q = i
    BY <1>1, <1>5, <1>7, <2>1, <2>2, Zenon DEF PlaceEndOf
  <2>3. CASE q < i
    <3>1. shift'[q] = shift[q]
      BY <2>3 DEF IInv, TypeOK, ListTypeOK
    <3>2. /\ Keyed(p) /\ Keyed(q) /\ list[p].ch = list[q].ch => PlaceEndOf(p) <= shift[q]
          /\ Turned(p) /\ Turned(q) => PlaceEndOf(p) <= shift[q]
      BY <2>3 DEF PInv, PairsOfPlaces, Place
    <3> QED
      BY <2>1, <3>1, <3>2, Zenon DEF PlaceEndOf
  <2> QED
    BY <2>2, <2>3
<1> QED
  BY <1>8, <1>9, <1>10, <1>11 DEF PInv

\* An encoder gets its place, in the row of the encoders.
LEMMA TurnedPlace ==
  ASSUME IInv, PInv, Place, Turned(i)
  PROVE  PInv'
<1> USE PlaceKeeps
<1> DEFINE c     == list[i].ch
           start == ChannelStart(c)
           re    == Aligned(nextRE, 1)
<1>1. Width(list[i].kind) = 0 /\ Size(i) = 1 /\ ~Keyed(i)
  BY WidthSmall DEF Keyed, Turned, Size, IInv, TypeOK, ListTypeOK, Device
<1>2. prevCh' = c /\ shift' = [shift EXCEPT ![i] = re] /\ next' = start /\ nextRE' = re + 1
  <2>1. ~(Width(list[i].kind) > 0)
    BY <1>1
  <2> QED
    BY <2>1, Zenon DEF Place, Turned
<1>3. /\ c \in 1 .. NumCh /\ start \in Nat /\ start >= PerCh * (c - 1)
      /\ \A p \in Index : p < i /\ Keyed(p) /\ list[p].ch = c => PlaceEndOf(p) <= start
  BY StartOfNext DEF Turned
<1>4. re \in Nat /\ re >= nextRE /\ (re % Cols) + 1 <= Cols
  <2>1. nextRE \in Nat /\ 1 \in 0 .. 5
    BY DEF IInv, TypeOK, PlaceTypeOK
  <2> QED
    BY <2>1, AlignedFits
<1>5. shift'[i] = re
  BY <1>2 DEF IInv, TypeOK, PlaceTypeOK
<1>6. /\ REStart \in Nat /\ nextRE \in Nat /\ nextRE >= REStart
      /\ \A p \in Index : PlaceEndOf(p) \in Nat
  <2>1. REStart \in Nat /\ nextRE \in Nat /\ nextRE >= REStart
    BY LayoutAssumption DEF REStart, IInv, TypeOK, PlaceTypeOK, PInv, Running
  <2>2. \A p \in Index : Size(p) \in Nat /\ shift[p] \in Nat
    BY WidthSmall DEF Size, IInv, TypeOK, ListTypeOK, PlaceTypeOK, Device
  <2> QED
    BY <2>1, <2>2 DEF PlaceEndOf
<1> HIDE DEF re, start
<1>7. /\ re >= REStart /\ re + 1 >= REStart
      /\ \A p \in Index : PlaceEndOf(p) <= nextRE => PlaceEndOf(p) <= re /\ PlaceEndOf(p) <= re + 1
      /\ re + 1 <= re + 1
  BY <1>4, <1>6
<1>8. Running'
  BY <1>2, <1>3, <1>7 DEF PInv, Running, REStart
<1>9. ChannelOf'
  <2>1. \A p \in Index : i + 1 = p + 1 => p = i
    BY DEF Index, IInv, TypeOK, ListTypeOK
  <2> QED
    BY <1>2, <2>1 DEF ChannelOf
<1>10. \A p \in Index : p < i =>
         /\ Keyed(p) \/ Turned(p) => (shift[p] % Cols) + Size(p) <= Cols
         /\ Keyed(p) => shift[p] >= PerCh * (list[p].ch - 1)
         /\ Turned(p) => shift[p] >= REStart /\ PlaceEndOf(p) <= nextRE
  BY DEF PInv, EachPlace, Place
<1>11. EachPlace'
  <2> SUFFICES ASSUME NEW p \in Index, p < i'
        PROVE  /\ Keyed(p) \/ Turned(p) => (shift'[p] % Cols) + Size(p) <= Cols
               /\ Keyed(p) => shift'[p] >= PerCh * (list[p].ch - 1)
               /\ Keyed(p) /\ list[p].ch = c => shift'[p] + Size(p) <= start
               /\ Turned(p) => shift'[p] >= REStart /\ shift'[p] + Size(p) <= re + 1
    BY <1>2 DEF EachPlace, Keyed, Turned, Size, PlaceEndOf, REStart
  <2>1. CASE p = i
    BY <1>1, <1>4, <1>5, <1>7, <2>1, Zenon
  <2>2. CASE p < i
    <3>1. shift'[p] = shift[p]
      BY <2>2 DEF IInv, TypeOK, ListTypeOK
    <3> QED
      BY <1>3, <1>7, <1>10, <2>2, <3>1, Zenon DEF PlaceEndOf
  <2> QED
    BY <2>1, <2>2
<1>12. PairsOfPlaces'
  <2> SUFFICES ASSUME NEW p \in Index, NEW q \in Index, p < q, q < i'
        PROVE  /\ Keyed(p) /\ Keyed(q) /\ list[p].ch = list[q].ch =>
                    shift'[p] + Size(p) <= shift'[q]
               /\ Turned(p) /\ Turned(q) => shift'[p] + Size(p) <= shift'[q]
    BY DEF PairsOfPlaces, Keyed, Turned, Size, PlaceEndOf
  <2>1. shift'[p] = shift[p] /\ (q = i => p < i)
    BY DEF IInv, TypeOK, ListTypeOK, Index
  <2>2. CASE q = i
    BY <1>1, <1>5, <1>7, <1>10, <2>1, <2>2, Zenon DEF PlaceEndOf
  <2>3. CASE q < i
    <3>1. shift'[q] = shift[q]
      BY <2>3 DEF IInv, TypeOK, ListTypeOK
    <3>2. /\ Keyed(p) /\ Keyed(q) /\ list[p].ch = list[q].ch => PlaceEndOf(p) <= shift[q]
          /\ Turned(p) /\ Turned(q) => PlaceEndOf(p) <= shift[q]
      BY <2>3 DEF PInv, PairsOfPlaces, Place
    <3> QED
      BY <2>1, <3>1, <3>2, Zenon DEF PlaceEndOf
  <2> QED
    BY <2>2, <2>3
<1> QED
  BY <1>8, <1>9, <1>11, <1>12 DEF PInv

LEMMA PlacesInit == Init => PInv
BY LayoutAssumption DEF Init, PInv, Running, REStart, ChannelOf, EachPlace, PairsOfPlaces

LEMMA PlacesStep == IInv /\ PInv /\ [Next]_vars => PInv'
<1> SUFFICES ASSUME IInv, PInv, [Next]_vars PROVE PInv'
  OBVIOUS
<1>1. CASE Compare \/ NextRound
  <2>1. pc' = "sort" /\ pc = "sort" /\ UNCHANGED <<next, nextRE, prevCh>>
    BY <1>1 DEF Compare, NextRound
  <2> QED
    BY <2>1 DEF PInv, Running, REStart, ChannelOf, EachPlace, PairsOfPlaces
<1>2. CASE SortEnd
  <2>1. pc = "sort" /\ pc' = "place" /\ i' = 1 /\ UNCHANGED <<n, next, nextRE, prevCh>>
    BY <1>2 DEF SortEnd
  <2>2. \A p \in Index' : ~(p < i') /\ i' # p + 1
    BY <2>1 DEF Index, IInv, TypeOK, ListTypeOK
  <2>3. Running'
    BY <2>1 DEF PInv, Running, REStart
  <2> QED
    BY <2>1, <2>2, <2>3 DEF PInv, ChannelOf, EachPlace, PairsOfPlaces
<1>3. CASE Place
  <2>1. CASE Keyed(i)
    BY <1>3, <2>1, KeyedPlace
  <2>2. CASE Turned(i)
    BY <1>3, <2>2, TurnedPlace
  <2>3. CASE ~Keyed(i) /\ ~Turned(i)
    <3>1. /\ UNCHANGED <<shift, nextRE>>
          /\ list[i].ch = 0 => UNCHANGED <<next, prevCh>>
          /\ list[i].ch # 0 => prevCh' = list[i].ch /\ next' = ChannelStart(list[i].ch)
      BY <1>3, <2>3, Zenon DEF Place, Keyed, Turned
    <3> QED
      BY <1>3, <2>3, <3>1, SkipPlace
  <2> QED
    BY <2>1, <2>2, <2>3
<1>4. CASE PlaceEnd
  <2>1. pc = "place" /\ pc' = "done" /\ ~(i <= n) /\ UNCHANGED <<n, i, list, shift, next, nextRE, prevCh>>
    BY <1>4 DEF PlaceEnd
  <2>2. n < i
    BY <2>1 DEF IInv, TypeOK, ListTypeOK
  <2> QED
    BY <2>1, <2>2 DEF PInv, Running, REStart, ChannelOf, EachPlace, PairsOfPlaces,
                      Keyed, Turned, Size, PlaceEndOf, Index
<1>5. CASE UNCHANGED vars
  BY <1>5 DEF vars, PInv, Running, REStart, ChannelOf, EachPlace, PairsOfPlaces,
              Keyed, Turned, Size, PlaceEndOf, Index
<1> QED
  BY <1>1, <1>2, <1>3, <1>4, <1>5 DEF Next

\* The places of a device, and what is known of them once all are placed.
LEMMA PlacesOf ==
  ASSUME IInv, PInv, pc = "done", NEW p \in Placed
  PROVE  /\ p \in Index /\ (Keyed(p) \/ Turned(p)) /\ ~(Keyed(p) /\ Turned(p))
         /\ shift[p] \in Nat /\ Size(p) \in 0 .. 5 /\ list[p].ch \in 1 .. NumCh
         /\ Places(p) = shift[p] .. shift[p] + Size(p) - 1
         /\ (shift[p] % Cols) + Size(p) <= Cols
         /\ Keyed(p) => shift[p] >= PerCh * (list[p].ch - 1)
         /\ Turned(p) => shift[p] >= REStart
         /\ Keyed(p) => (Spilled(p) <=> shift[p] + Size(p) > PerCh * list[p].ch)
<1>1. p \in Index /\ (Keyed(p) \/ Turned(p))
  BY DEF Placed, Keyed, Turned
<1>2. list[p].kind \in Kinds /\ list[p].ch \in 0 .. NumCh /\ shift[p] \in Nat
  BY <1>1 DEF IInv, TypeOK, ListTypeOK, PlaceTypeOK, Device
<1>3. Width(list[p].kind) \in 0 .. 5 /\ (list[p].kind = "re" => Width(list[p].kind) = 0)
  BY <1>2, WidthSmall
<1>4. ~(Keyed(p) /\ Turned(p)) /\ Size(p) \in 0 .. 5
      /\ (Keyed(p) => list[p].kind # "re" /\ Size(p) = Width(list[p].kind))
  BY <1>3 DEF Keyed, Turned, Size
<1>5. list[p].ch \in 1 .. NumCh
  BY <1>1, <1>2, LayoutAssumption DEF Keyed, Turned
<1>6. p < i
  <2>1. n < i /\ n \in Nat /\ i \in Nat
    BY DEF PInv, Running, IInv, TypeOK, ListTypeOK
  <2> QED
    BY <1>1, <2>1 DEF Index
<1>7. Places(p) = shift[p] .. shift[p] + Size(p) - 1
  BY DEF Places, Size
<1> QED
  BY <1>1, <1>2, <1>4, <1>5, <1>6, <1>7 DEF PInv, EachPlace, Spilled

LEMMA PlacesInOneRow == IInv /\ PInv => InOneRow
<1> SUFFICES ASSUME IInv, PInv, pc = "done", NEW p \in Placed, NEW a \in Places(p)
             PROVE  a \div Cols = shift[p] \div Cols
  BY Zenon DEF InOneRow
<1> DEFINE s == shift[p]
           k == a - s
<1>1. s \in Nat /\ Size(p) \in 0 .. 5 /\ a \in s .. s + Size(p) - 1 /\ (s % Cols) + Size(p) <= Cols
  BY PlacesOf
<1>2. Cols \in Nat \ {0} /\ s % Cols \in Nat
  BY <1>1, LayoutAssumption
<1>3. k \in Nat /\ a = s + k /\ (s % Cols) + k < Cols
  BY <1>1, <1>2
<1> HIDE DEF s, k
<1>4. (s + k) \div Cols = s \div Cols
  BY <1>1, <1>2, <1>3, SameRow
<1> QED
  BY <1>3, <1>4 DEF s

\* The later of two devices with a common place lies behind the rows of the
\* earlier one's channel, or begins where that one ends.
LEMMA PlacesMeet ==
  ASSUME IInv, PInv, pc = "done", NEW p \in Placed, NEW q \in Placed, p < q,
         NEW a \in Places(p), a \in Places(q)
  PROVE  Spilled(p) \/ Spilled(q)
<1> DEFINE ep == shift[p] + Size(p)
           eq == shift[q] + Size(q)
<1>1. /\ p \in Index /\ shift[p] \in Nat /\ Size(p) \in 0 .. 5 /\ list[p].ch \in 1 .. NumCh
      /\ a \in shift[p] .. shift[p] + Size(p) - 1
      /\ Keyed(p) => (Spilled(p) <=> ep > PerCh * list[p].ch)
      /\ Turned(p) => shift[p] >= REStart
      /\ Keyed(p) \/ Turned(p)
  BY PlacesOf
<1>2. /\ q \in Index /\ shift[q] \in Nat /\ Size(q) \in 0 .. 5 /\ list[q].ch \in 1 .. NumCh
      /\ a \in shift[q] .. shift[q] + Size(q) - 1
      /\ Keyed(q) => (Spilled(q) <=> eq > PerCh * list[q].ch)
      /\ Keyed(q) => shift[q] >= PerCh * (list[q].ch - 1)
      /\ Turned(q) => shift[q] >= REStart
      /\ Keyed(q) \/ Turned(q)
  BY PlacesOf
<1>3. ep > shift[q] /\ eq > shift[p] /\ ep \in Nat /\ eq \in Nat
  <2> HIDE DEF PInv
  <2> QED
    BY <1>1, <1>2
<1>4. q < i
  <2>1. n < i /\ n \in Nat /\ i \in Nat
    BY DEF PInv, Running, IInv, TypeOK, ListTypeOK
  <2> QED
    BY <1>2, <2>1 DEF Index
<1>5. list[p].ch <= list[q].ch
  <2>1. Before(list[p], list[q])
    BY <1>1, <1>2 DEF IInv, SortIsRight
  <2> QED
    BY <1>1, <1>2, <2>1 DEF Before
<1>6. CASE Keyed(p) /\ Keyed(q)
  <2>1. CASE list[p].ch = list[q].ch
    <3>1. ep <= shift[q]
      BY <1>1, <1>2, <1>4, <1>6, <2>1 DEF PInv, PairsOfPlaces, PlaceEndOf
    <3> QED
      BY <1>1, <1>2, <1>3, <3>1
  <2>2. CASE list[p].ch # list[q].ch
    <3>1. list[p].ch < list[q].ch
      BY <1>1, <1>2, <1>5, <2>2
    <3>2. PerCh * list[p].ch <= PerCh * (list[q].ch - 1)
      BY <1>1, <1>2, <3>1, RowsAfter, LayoutAssumption
    <3>3. PerCh * list[p].ch \in Nat /\ PerCh * (list[q].ch - 1) \in Nat
      BY <1>1, <1>2, LayoutAssumption
    <3>4. ep > PerCh * list[p].ch
      <4>1. shift[q] >= PerCh * (list[q].ch - 1)
        BY <1>2, <1>6
      <4> QED
        BY <1>2, <1>3, <3>2, <3>3, <4>1
    <3> QED
      BY <1>1, <1>6, <3>4
  <2> QED
    BY <2>1, <2>2
<1>7. \A c \in 1 .. NumCh : PerCh * c <= REStart /\ PerCh * c \in Nat /\ REStart \in Nat
  <2> SUFFICES ASSUME NEW c \in 1 .. NumCh
               PROVE  PerCh * c <= PerCh * NumCh /\ PerCh * c \in Nat /\ PerCh * NumCh \in Nat
    BY DEF REStart
  <2>1. c < NumCh + 1 /\ c \in Nat /\ NumCh + 1 \in Nat /\ NumCh + 1 - 1 = NumCh
    BY LayoutAssumption
  <2>2. PerCh * c <= PerCh * (NumCh + 1 - 1)
    BY <2>1, RowsAfter, LayoutAssumption
  <2> QED
    BY <2>1, <2>2, LayoutAssumption
<1>8. CASE Keyed(p) /\ Turned(q)
  <2>1. ep > PerCh * list[p].ch
    <3>1. shift[q] >= REStart /\ PerCh * list[p].ch <= REStart
          /\ PerCh * list[p].ch \in Nat /\ REStart \in Nat
      BY <1>1, <1>2, <1>7, <1>8
    <3> QED
      BY <1>2, <1>3, <3>1
  <2> QED
    BY <1>1, <1>8, <2>1
<1>9. CASE Turned(p) /\ Keyed(q)
  <2>1. eq > PerCh * list[q].ch
    <3>1. shift[p] >= REStart /\ PerCh * list[q].ch <= REStart
          /\ PerCh * list[q].ch \in Nat /\ REStart \in Nat
      BY <1>1, <1>2, <1>7, <1>9
    <3> QED
      BY <1>1, <1>3, <3>1
  <2> QED
    BY <1>2, <1>9, <2>1
<1>10. CASE Turned(p) /\ Turned(q)
  <2>1. ep <= shift[q]
    BY <1>1, <1>2, <1>4, <1>10 DEF PInv, PairsOfPlaces, PlaceEndOf
  <2> QED
    BY <1>1, <1>2, <1>3, <2>1
<1> QED
  BY <1>1, <1>2, <1>6, <1>8, <1>9, <1>10

LEMMA PlacesFitTogether == IInv /\ PInv => PlacesFit
<1> SUFFICES ASSUME IInv, PInv PROVE PlacesAreApart
  BY PlacesInOneRow DEF PlacesFit
<1> SUFFICES ASSUME pc = "done", NEW p \in Placed, NEW q \in Placed, p # q,
                    NEW a, a \in Places(p), a \in Places(q)
             PROVE  Spilled(p) \/ Spilled(q)
  BY DEF PlacesAreApart
<1>1. p < q \/ q < p
  <2>1. p \in Index /\ q \in Index /\ n \in Nat
    BY DEF Placed, IInv, TypeOK, ListTypeOK
  <2> QED
    BY <2>1 DEF Index
<1>2. CASE p < q
  BY <1>2, PlacesMeet
<1>3. CASE q < p
  BY <1>3, PlacesMeet
<1> QED
  BY <1>1, <1>2, <1>3

\* Whatever a scan has found, every module lies in one row of the matrix, and no
\* two share a key unless a channel has more modules than its rows hold.
THEOREM PlacesCorrect == Spec => []PlacesFit
<1>1. Spec => [](IInv /\ PInv)
  BY Invariant, PlacesInit, PlacesStep, PTL DEF Spec
<1> QED
  BY <1>1, PlacesFitTogether, PTL

(***************************************************************************)
(* The users of the list.                                                  *)
(***************************************************************************)

\* The encoders with a place that are listed before one.
TurnedBefore(p) == {q \in Index : Turned(q) /\ q < p}

\* The places of encoders are counted without a gap.
TurnsCounted ==
  /\ pc = "sort" => nextRE = REStart
  /\ pc # "sort" => /\ nextRE = REStart + Cardinality(TurnedBefore(i))
                    /\ \A p \in Index : p < i /\ Turned(p) =>
                         shift[p] = REStart + Cardinality(TurnedBefore(p))

LEMMA IndexFinite ==
  ASSUME n \in Nat
  PROVE  \A S \in SUBSET Index : IsFiniteSet(S) /\ Cardinality(S) \in Nat
<1>1. IsFiniteSet(Index)
  BY FS_Interval DEF Index
<1> QED
  BY <1>1, FS_Subset, FS_CardinalityType

\* A row has room for the one place of an encoder anywhere.
LEMMA AlignedOne == \A s \in Nat : Aligned(s, 1) = s
<1> SUFFICES ASSUME NEW s \in Nat PROVE Aligned(s, 1) = s
  OBVIOUS
<1>1. s % Cols \in 0 .. Cols - 1
  BY LayoutAssumption
<1> QED
  BY <1>1, LayoutAssumption DEF Aligned

LEMMA TurnsInit == Init => TurnsCounted
  BY DEF Init, TurnsCounted

LEMMA TurnsPlace ==
  ASSUME IInv, PInv, TurnsCounted, Place
  PROVE  TurnsCounted'
<1> USE PlaceKeeps
<1>1. pc = "place" /\ n \in Nat /\ nextRE \in Nat /\ REStart \in Nat /\ i \in Nat
  BY LayoutAssumption DEF Place, IInv, TypeOK, ListTypeOK, PlaceTypeOK, REStart
<1>2. \A p \in Index : p \in Nat
  BY <1>1 DEF Index
<1>3. /\ nextRE = REStart + Cardinality(TurnedBefore(i))
      /\ \A p \in Index : p < i /\ Turned(p) => shift[p] = REStart + Cardinality(TurnedBefore(p))
  BY <1>1 DEF TurnsCounted
<1>4. \A p \in Index : Turned(p)' <=> Turned(p)
  BY DEF Turned
<1>5. TurnsCounted' <=>
        /\ nextRE' = REStart + Cardinality({q \in Index : Turned(q) /\ q < i + 1})
        /\ \A p \in Index : p < i + 1 /\ Turned(p) =>
             shift'[p] = REStart + Cardinality({q \in Index : Turned(q) /\ q < p})
  BY <1>4 DEF TurnsCounted, TurnedBefore, REStart
<1>6. {q \in Index : Turned(q) /\ q < i + 1} =
        IF Turned(i) THEN TurnedBefore(i) \cup {i} ELSE TurnedBefore(i)
  BY <1>1, <1>2 DEF TurnedBefore
<1>7. IsFiniteSet(TurnedBefore(i)) /\ i \notin TurnedBefore(i)
      /\ Cardinality(TurnedBefore(i)) \in Nat
  BY <1>1, IndexFinite DEF TurnedBefore
<1>8. \A p \in Index : p < i /\ Turned(p) =>
        shift'[p] = REStart + Cardinality({q \in Index : Turned(q) /\ q < p})
  BY <1>1, <1>2, <1>3 DEF TurnedBefore
<1>9. CASE Turned(i)
  <2>1. ~(Width(list[i].kind) > 0)
    BY <1>9, WidthSmall DEF Turned, IInv, TypeOK, ListTypeOK, Device
  <2>2. shift' = [shift EXCEPT ![i] = Aligned(nextRE, 1)] /\ nextRE' = Aligned(nextRE, 1) + 1
    BY <1>9, <2>1, Zenon DEF Place, Turned
  <2>3. shift'[i] = nextRE /\ nextRE' = nextRE + 1
    BY <1>1, <2>2, AlignedOne DEF IInv, TypeOK, PlaceTypeOK
  <2>4. Cardinality(TurnedBefore(i) \cup {i}) = Cardinality(TurnedBefore(i)) + 1
    BY <1>7, FS_AddElement
  <2>5. nextRE' = REStart + Cardinality({q \in Index : Turned(q) /\ q < i + 1})
    BY <1>1, <1>3, <1>6, <1>7, <1>9, <2>3, <2>4
  <2>6. shift'[i] = REStart + Cardinality({q \in Index : Turned(q) /\ q < i})
    BY <1>3, <2>3 DEF TurnedBefore
  <2>7. \A p \in Index : p < i + 1 => p < i \/ p = i
    BY <1>1, <1>2
  <2> QED
    BY <1>5, <1>8, <2>5, <2>6, <2>7
<1>10. CASE ~Turned(i)
  <2>1. nextRE' = nextRE
    BY <1>10, Zenon DEF Place, Turned
  <2>2. \A p \in Index : p < i + 1 /\ Turned(p) => p < i
    BY <1>1, <1>2, <1>10
  <2> QED
    BY <1>3, <1>5, <1>6, <1>8, <1>10, <2>1, <2>2
<1> QED
  BY <1>9, <1>10

LEMMA TurnsStep == IInv /\ PInv /\ TurnsCounted /\ [Next]_vars => TurnsCounted'
<1> SUFFICES ASSUME IInv, PInv, TurnsCounted, [Next]_vars PROVE TurnsCounted'
  OBVIOUS
<1>1. CASE Compare \/ NextRound
  BY <1>1 DEF Compare, NextRound, TurnsCounted, REStart
<1>2. CASE SortEnd
  <2>1. /\ pc = "sort" /\ pc' = "place" /\ i' = 1
        /\ UNCHANGED <<n, found, list, shift, j, next, nextRE, prevCh>>
    BY <1>2 DEF SortEnd
  <2>2. n \in Nat /\ \A p \in Index : p \in Nat /\ ~(p < 1)
    BY DEF IInv, TypeOK, ListTypeOK, Index
  <2>3. Index' = Index
    BY <2>1 DEF Index
  <2>4. TurnedBefore(i)' = {}
    BY <2>1, <2>2, <2>3 DEF TurnedBefore
  <2>5. nextRE' = REStart' + Cardinality(TurnedBefore(i)')
    <3>1. nextRE = REStart /\ REStart \in Nat /\ REStart' = REStart
      BY <2>1, LayoutAssumption DEF TurnsCounted, REStart
    <3> QED
      BY <2>1, <2>4, <3>1, FS_EmptySet
  <2> QED
    BY <2>1, <2>2, <2>3, <2>5 DEF TurnsCounted
<1>3. CASE Place
  BY <1>3, TurnsPlace
<1>4. CASE PlaceEnd
  BY <1>4 DEF PlaceEnd, TurnsCounted, TurnedBefore, Turned, Index, REStart
<1>5. CASE UNCHANGED vars
  BY <1>5 DEF vars, TurnsCounted, TurnedBefore, Turned, Index, REStart
<1> QED
  BY <1>1, <1>2, <1>3, <1>4, <1>5 DEF Next

(***************************************************************************)
(* What the pass reads.                                                    *)
(***************************************************************************)

\* The keys held on a module in the state the pass leaves.
Keys(p) == {h[2] : h \in {g \in held' : g[1] = p}}
BitsRead(p) == RowBits(list[p].kind, PinsHigh(list[p].kind, Keys(p)))

\* Whatever a chip, a register reads as a set of bits of a byte.
LEMMA BitsOfByte ==
  ASSUME NEW p, NEW spare1, spare1 \in {{}, 0 .. 7}, spare' = spare1
  PROVE  BitsRead(p) \subseteq 0 .. 7
  BY DEF BitsRead, RowBits, Key4, PCA9557, XL9555, Width

LEMMA RowBitsOf ==
  ASSUME NEW kind, NEW high
  PROVE  /\ kind = "keys" => RowBits(kind, high) = high \cap (0 .. 3)
         /\ kind = "re" => RowBits(kind, high) = IF 2 \in high THEN {0} ELSE {}
<1>1. ASSUME kind = "keys" PROVE RowBits(kind, high) = high \cap (0 .. 3)
  BY <1>1 DEF RowBits, Key4
<1>2. ASSUME kind = "re" PROVE RowBits(kind, high) = IF 2 \in high THEN {0} ELSE {}
  BY <1>2 DEF RowBits, Rotary
<1> QED
  BY <1>1, <1>2

\* A register reads exactly as the keys are held, but an XL9555 with spare pins.
LEMMA BitsAreKeys ==
  ASSUME NEW kind, NEW keys, kind \in {"keys", "re", "keysV1", "keys5V1"},
         keys \subseteq 0 .. (IF kind = "re" THEN 1 ELSE Width(kind)) - 1,
         NEW spare1, spare1 \in {{}, 0 .. 7}, spare' = spare1,
         expander' = "PCA9557" \/ spare' = {}
  PROVE  RowBits(kind, PinsHigh(kind, keys)) = keys
<1>1. CASE kind = "keys"
  <2>1. keys \subseteq 0 .. 3
    BY <1>1 DEF Width
  <2>2. RowBits(kind, PinsHigh(kind, keys)) = (keys \cup (spare' \ (0 .. 3))) \cap (0 .. 3)
    <3>1. PinsHigh(kind, keys) = keys \cup (spare' \ (0 .. 3))
      BY <1>1 DEF PinsHigh
    <3> QED
      BY <1>1, <3>1, RowBitsOf
  <2> QED
    BY <2>1, <2>2
<1>2. CASE kind = "re"
  <2>1. PinsHigh(kind, keys) = {2 : k \in keys} \cup (spare' \ {2})
    BY <1>2 DEF PinsHigh
  <2>2. 2 \in PinsHigh(kind, keys) <=> keys # {}
    BY <2>1
  <2>4. keys = {} \/ keys = {0}
    <3>1. keys \subseteq 0 .. 0
      BY <1>2
    <3>2. \A k \in 0 .. 0 : k = 0
      OBVIOUS
    <3> QED
      BY <3>1, <3>2
  <2>5. RowBits(kind, PinsHigh(kind, keys)) = IF 2 \in PinsHigh(kind, keys) THEN {0} ELSE {}
    BY <1>2, RowBitsOf
  <2> QED
    BY <2>2, <2>4, <2>5
<1>3. CASE kind = "keysV1"
  <2>1. PinsHigh(kind, keys) = ((0 .. 3) \ keys) \cup (spare' \ (0 .. 3))
    BY <1>3 DEF PinsHigh, Width
  <2>2. RowBits(kind, PinsHigh(kind, keys)) = (0 .. 3) \ PinsHigh(kind, keys)
    BY <1>3 DEF RowBits, PCA9557, XL9555, Width
  <2>3. keys \subseteq 0 .. 3
    BY <1>3 DEF Width
  <2> QED
    BY <2>1, <2>2, <2>3
<1>4. CASE kind = "keys5V1"
  <2>1. PinsHigh(kind, keys) = ((0 .. 4) \ keys) \cup (spare' \ (0 .. 4))
    BY <1>4 DEF PinsHigh, Width
  <2>2. RowBits(kind, PinsHigh(kind, keys)) =
          IF expander' = "PCA9557" THEN (0 .. 4) \ PinsHigh(kind, keys)
          ELSE ((0 .. 4) \ PinsHigh(kind, keys)) \cup (PinsHigh(kind, keys) \cap 5 .. 7)
    BY <1>4 DEF RowBits, PCA9557, XL9555, Width
  <2>3. keys \subseteq 0 .. 4
    BY <1>4 DEF Width
  <2>4. (0 .. 4) \ PinsHigh(kind, keys) = keys
    BY <2>1, <2>3
  <2>5. spare' = {} => PinsHigh(kind, keys) \cap 5 .. 7 = {}
    BY <2>1
  <2>6. expander' = "PCA9557" \/ spare' = {}
    OBVIOUS
  <2> QED
    BY <2>2, <2>4, <2>5, <2>6
<1> QED
  BY <1>1, <1>2, <1>3, <1>4

(***************************************************************************)
(* The steps of the users.                                                 *)
(***************************************************************************)

\* A set of numbers that is not empty has a least one.
LEMMA Least ==
  ASSUME NEW S \in SUBSET Nat, S # {}
  PROVE  \E x \in S : \A y \in S : x <= y
<1> DEFINE R == OpToRel(<, Nat)
<1>1. IsWellFoundedOn(R, Nat)
  BY NatLessThanWellFounded
<1>2. \A x \in Nat : \A y \in Nat : <<y, x>> \notin R => x <= y
  BY DEF OpToRel
<1> HIDE DEF R
<1>3. \E x \in S : \A y \in S : ~ (<<y, x>> \in R)
  BY <1>1, WFMin
<1> QED
  BY <1>2, <1>3

\* First finds something if there is anything.
LEMMA FirstOf ==
  ASSUME n \in Nat, NEW S \in SUBSET Index
  PROVE  /\ S = {} => First(S) = 0
         /\ S # {} => First(S) \in S /\ First(S) # 0
         /\ First(S) \in 0 .. n
<1>1. \A p \in Index : p \in Nat /\ p # 0 /\ p \in 0 .. n
  BY DEF Index
<1>2. CASE S = {}
  BY <1>2 DEF First
<1>3. CASE S # {}
  <2>1. \E p \in S : \A q \in S : p <= q
    BY <1>1, <1>3, Least
  <2>2. First(S) = CHOOSE p \in S : \A q \in S : p <= q
    BY <1>3 DEF First
  <2>3. First(S) \in S
    BY <2>1, <2>2, Zenon
  <2> QED
    BY <1>1, <1>3, <2>3, Zenon
<1> QED
  BY <1>2, <1>3

\* Once used, the list stays; before, nothing is known of any use.
UseInv ==
  /\ use = "none" => matrix = {} /\ held = {} /\ silent = {} /\ shown = 0
  /\ use # "none" => pc = "done"

UInv == UsersTypeOK /\ UseInv /\ RowIsExact /\ LookupsAgree

LInv == IInv /\ PInv /\ TurnsCounted

LEMMA UsersInvInit == UsersInit /\ IInv => UInv
<1> SUFFICES ASSUME UsersInit, IInv PROVE UInv
  OBVIOUS
<1>1. n \in Nat
  BY DEF IInv, TypeOK, ListTypeOK
<1>2. UsersTypeOK
  BY <1>1 DEF UsersInit, UsersTypeOK
<1>3. UseInv /\ RowIsExact /\ LookupsAgree
  BY DEF UsersInit, UseInv, RowIsExact, LookupsAgree, OwnerIsShown, TurnAndClickAgree
<1> QED
  BY <1>2, <1>3 DEF UInv

\* The scan goes on only while nothing has used the list.
LEMMA ScanGoesOn ==
  ASSUME LInv, LInv', UInv, Next, UNCHANGED userVars
  PROVE  UInv'
<1>1. pc # "done"
  BY DEF Next, Compare, NextRound, SortEnd, Place, PlaceEnd
<1>2. use = "none" /\ UNCHANGED <<use, matrix, held, silent, expander, spare, wanted, shown>>
  BY <1>1 DEF UInv, UseInv, userVars
<1>3. matrix = {} /\ held = {} /\ silent = {} /\ shown = 0 /\ n' \in Nat
  BY <1>2 DEF UInv, UseInv, LInv, IInv, TypeOK, ListTypeOK
<1>4. UsersTypeOK'
  BY <1>2, <1>3 DEF UInv, UsersTypeOK
<1>5. UseInv' /\ RowIsExact' /\ LookupsAgree'
  BY <1>2, <1>3 DEF UseInv, RowIsExact, LookupsAgree, OwnerIsShown, TurnAndClickAgree
<1> QED
  BY <1>4, <1>5 DEF UInv

\* A module that is read, in a list where each key has its place.
LEMMA ReadModule ==
  ASSUME LInv, EachHasItsPlace, NEW p \in Index, HasRowData(p)
  PROVE  /\ p \in Placed /\ list[p].kind \in {"keys", "re", "keysV1", "keys5V1"}
         /\ Size(p) = KeysOf(list[p].kind)
<1>1. list[p].kind \in Kinds /\ list[p].kind # "display" /\ list[p].kind # "reV1" /\ list[p].ch # 0
  BY DEF LInv, IInv, TypeOK, ListTypeOK, Device, EachHasItsPlace, HasRowData
<1>2. list[p].kind \in {"keys", "re", "keysV1", "keys5V1"}
  BY <1>1 DEF Kinds
<1> QED
  BY <1>1, <1>2 DEF Placed, Size, KeysOf, Width

\* The keys of a module that are held lie in its row.
LEMMA HeldKeys ==
  ASSUME held' \subseteq KeysThere, NEW p \in Index
  PROVE  /\ Keys(p) \subseteq 0 .. KeysOf(list[p].kind) - 1
         /\ \A h \in held' : h[1] = p => h[2] \in Keys(p)
         /\ \A k \in Keys(p) : \E h \in held' : h[1] = p /\ h[2] = k
<1>1. \A h \in held' : h[1] = p => h[2] \in 0 .. 4 /\ h[2] < KeysOf(list[p].kind)
  BY DEF KeysThere
<1>2. KeysOf(list[p].kind) \in Int
  BY DEF KeysOf, Width
<1>3. Keys(p) \subseteq 0 .. KeysOf(list[p].kind) - 1
  BY <1>1, <1>2 DEF Keys
<1> QED
  BY <1>3 DEF Keys

LEMMA ReadRowsStep ==
  ASSUME LInv, UInv, NEW keys \in SUBSET KeysThere, NEW failed \in SUBSET Index,
         ReadRows(keys, failed)
  PROVE  UInv'
<1> DEFINE Read == {q \in Index : HasRowData(q)} \ silent'
<1>1. /\ pc = "done" /\ use = "none" /\ use' = "rows" /\ held' = keys /\ silent' = failed
      /\ expander' \in {"PCA9557", "XL9555"} /\ spare' \in {{}, 0 .. 7}
      /\ UNCHANGED <<wanted, shown, n, list, shift, pc>>
  BY DEF ReadRows, vars
<1>2. matrix' = UNION {{shift[p] + b : b \in {c \in BitsRead(p) : (shift[p] % Cols) + c < Cols}} : p \in Read}
  BY DEF ReadRows, RowsRead, BitsRead, Keys
<1>3. \A p \in Index : BitsRead(p) \subseteq 0 .. 7
  BY <1>1, BitsOfByte
<1>4. \A place : place \in matrix' <=>
        \E p \in Read : \E b \in BitsRead(p) : (shift[p] % Cols) + b < Cols /\ place = shift[p] + b
  <2> SUFFICES ASSUME NEW place
               PROVE  place \in matrix' <=>
                 \E p \in Read : \E b \in BitsRead(p) : (shift[p] % Cols) + b < Cols /\ place = shift[p] + b
    OBVIOUS
  <2> HIDE DEF Read
  <2> DEFINE Part(p) == {shift[p] + b : b \in {c \in BitsRead(p) : (shift[p] % Cols) + c < Cols}}
  <2>1. \A p : place \in Part(p) <=> \E b \in BitsRead(p) : (shift[p] % Cols) + b < Cols /\ place = shift[p] + b
    OBVIOUS
  <2>2. place \in matrix' <=> \E p \in Read : place \in Part(p)
    <3>1. matrix' = UNION {Part(p) : p \in Read}
      BY <1>2
    <3> HIDE DEF Part
    <3> QED
      BY <3>1
  <2> QED
    BY <2>1, <2>2, Zenon
<1>5. UsersTypeOK'
  <2>1. \A place \in matrix' : \E p \in Index : HasRowData(p) /\ place \div Cols = shift[p] \div Cols
    <3> SUFFICES ASSUME NEW place \in matrix'
                 PROVE  \E p \in Index : HasRowData(p) /\ place \div Cols = shift[p] \div Cols
      OBVIOUS
    <3>1. PICK p \in Read : \E b \in BitsRead(p) : (shift[p] % Cols) + b < Cols /\ place = shift[p] + b
      BY <1>4
    <3>2. PICK b \in BitsRead(p) : (shift[p] % Cols) + b < Cols /\ place = shift[p] + b
      BY <3>1
    <3>3. p \in Index /\ HasRowData(p) /\ b \in Nat /\ shift[p] \in Nat
      <4>1. p \in Index /\ HasRowData(p)
        OBVIOUS
      <4>2. b \in Nat
        BY <1>3, <4>1
      <4> QED
        BY <4>1, <4>2 DEF LInv, IInv, TypeOK, PlaceTypeOK
    <3>4. place \div Cols = shift[p] \div Cols
      BY <3>2, <3>3, SameRow, LayoutAssumption
    <3> QED
      BY <3>3, <3>4
  <2>2. \A p \in Index : HasRowData(p)' <=> HasRowData(p)
    BY <1>1 DEF HasRowData
  <2>3. KeysThere' = KeysThere /\ Index' = Index
    BY <1>1 DEF KeysThere, Index
  <2>4. spare' \subseteq 0 .. 7
    BY <1>1
  <2> QED
    BY <1>1, <2>1, <2>2, <2>3, <2>4 DEF UInv, UsersTypeOK
<1>6. RowIsExact'
  <2> SUFFICES ASSUME EachHasItsPlace, expander' = "PCA9557" \/ spare' = {}
               PROVE  matrix' = {shift[h[1]] + h[2] : h \in {k \in held' : list[k[1]].ch # 0 /\ k[1] \notin silent'}}
    BY <1>1 DEF RowIsExact, EachHasItsPlace, Spilled, Index
  <2>1. \A p \in Index : HasRowData(p) => BitsRead(p) = Keys(p) /\ \A b \in Keys(p) : (shift[p] % Cols) + b < Cols
    <3> SUFFICES ASSUME NEW p \in Index, HasRowData(p)
                 PROVE  BitsRead(p) = Keys(p) /\ \A b \in Keys(p) : (shift[p] % Cols) + b < Cols
      OBVIOUS
    <3>1. /\ p \in Placed /\ list[p].kind \in {"keys", "re", "keysV1", "keys5V1"}
          /\ Size(p) = KeysOf(list[p].kind)
      BY ReadModule
    <3>2. Keys(p) \subseteq 0 .. KeysOf(list[p].kind) - 1
      BY <1>1, HeldKeys
    <3>3. KeysOf(list[p].kind) = IF list[p].kind = "re" THEN 1 ELSE Width(list[p].kind)
      BY <3>1 DEF KeysOf
    <3>4. BitsRead(p) = Keys(p)
      BY <1>1, <3>1, <3>2, <3>3, BitsAreKeys DEF BitsRead
    <3>5. (shift[p] % Cols) + Size(p) <= Cols /\ Size(p) \in 0 .. 5 /\ shift[p] \in Nat
      BY <1>1, <3>1, PlacesOf DEF LInv
    <3>6. shift[p] % Cols \in Nat /\ Cols \in Nat
      BY <3>5, LayoutAssumption
    <3> QED
      BY <3>1, <3>2, <3>4, <3>5, <3>6
  <2>2. ASSUME NEW h \in held', list[h[1]].ch # 0
        PROVE  h[1] \in Index /\ HasRowData(h[1]) /\ h[2] \in Keys(h[1])
    <3>1. h \in KeysThere /\ h[1] \in Index /\ h[2] \in 0 .. 4 /\ h[2] < KeysOf(list[h[1]].kind)
      BY <1>1 DEF KeysThere
    <3>2. list[h[1]].kind # "display"
      BY <3>1 DEF KeysOf, Width
    <3> QED
      BY <1>1, <2>2, <3>1, <3>2, HeldKeys DEF HasRowData
  <2>3. ASSUME NEW p \in Read, NEW b \in Keys(p)
        PROVE  \E h \in held' : h[1] = p /\ h[2] = b /\ list[h[1]].ch # 0 /\ h[1] \notin silent'
    BY <1>1, <2>3, HeldKeys DEF HasRowData
  <2>4. \A place : place \in matrix' <=>
          \E h \in held' : list[h[1]].ch # 0 /\ h[1] \notin silent' /\ place = shift[h[1]] + h[2]
    <3> SUFFICES ASSUME NEW place
                 PROVE  place \in matrix' <=>
                          \E h \in held' : list[h[1]].ch # 0 /\ h[1] \notin silent' /\ place = shift[h[1]] + h[2]
      OBVIOUS
    <3>1. ASSUME place \in matrix'
          PROVE  \E h \in held' : list[h[1]].ch # 0 /\ h[1] \notin silent' /\ place = shift[h[1]] + h[2]
      <4>1. PICK p \in Read : \E b \in BitsRead(p) : place = shift[p] + b
        BY <1>4, <3>1
      <4>2. PICK b \in BitsRead(p) : place = shift[p] + b
        BY <4>1
      <4>3. b \in Keys(p)
        BY <2>1
      <4>4. PICK h \in held' : h[1] = p /\ h[2] = b /\ list[h[1]].ch # 0 /\ h[1] \notin silent'
        BY <2>3, <4>3
      <4> QED
        BY <4>2, <4>4
    <3>2. ASSUME NEW h \in held', list[h[1]].ch # 0, h[1] \notin silent', place = shift[h[1]] + h[2]
          PROVE  place \in matrix'
      <4>1. h[1] \in Read /\ h[2] \in Keys(h[1])
        BY <2>2, <3>2
      <4>2. h[2] \in BitsRead(h[1]) /\ (shift[h[1]] % Cols) + h[2] < Cols
        BY <2>1, <4>1
      <4> QED
        BY <1>4, <3>2, <4>1, <4>2
    <3> QED
      BY <3>1, <3>2, Zenon
  <2> QED
    BY <2>4, Zenon
<1>7. UseInv' /\ LookupsAgree'
  BY <1>1 DEF UseInv, LookupsAgree, OwnerIsShown, TurnAndClickAgree
<1> QED
  BY <1>5, <1>6, <1>7 DEF UInv

\* The modules that a lookup of a key can find.
Shown(place) == {p \in Index : shift[p] <= place /\ place < shift[p] + DisplayWidth(list[p].kind)}

\* Where each key has its place these are the ones the key is placed in, one at most.
LEMMA OneIsShown ==
  ASSUME LInv, pc = "done", EachHasItsPlace,
         \A p \in Index : list[p].ch = 0 => list[p].kind = "display",
         NEW place \in Nat
  PROVE  /\ Shown(place) = {p \in Placed : place \in Places(p)}
         /\ \A p, q \in Shown(place) : p = q
<1>1. \A p \in Index : /\ list[p].kind \in Kinds /\ list[p].kind # "reV1" /\ shift[p] \in Nat
                        /\ ~Spilled(p)
  BY DEF LInv, IInv, TypeOK, ListTypeOK, PlaceTypeOK, Device, EachHasItsPlace
<1>2. ASSUME NEW p \in Index
      PROVE  p \in Shown(place) <=> p \in Placed /\ place \in Places(p)
  <2>1. CASE list[p].kind = "display"
    BY <1>1, <2>1 DEF Shown, DisplayWidth, Width, Placed
  <2>2. CASE list[p].kind # "display"
    <3>1. p \in Placed
      BY <1>1, <2>2 DEF Placed, Width, Kinds
    <3>2. Places(p) = shift[p] .. shift[p] + DisplayWidth(list[p].kind) - 1
      BY <1>1 DEF Places, DisplayWidth
    <3>3. DisplayWidth(list[p].kind) \in Nat
      BY DEF DisplayWidth, Width
    <3> QED
      BY <1>1, <3>1, <3>2, <3>3 DEF Shown
  <2> QED
    BY <2>1, <2>2
<1>3. Shown(place) = {p \in Placed : place \in Places(p)}
  BY <1>2 DEF Shown, Placed
<1>4. PlacesFit
  BY PlacesFitTogether DEF LInv
<1>5. ASSUME NEW p \in Shown(place), NEW q \in Shown(place) PROVE p = q
  <2>1. p \in Placed /\ q \in Placed /\ Places(p) \cap Places(q) # {}
    BY <1>3
  <2>2. p \in Index /\ q \in Index
    BY DEF Shown
  <2> QED
    BY <1>1, <1>4, <2>1, <2>2 DEF PlacesFit, PlacesAreApart
<1> QED
  BY <1>3, <1>5

LEMMA ShowKeyStep ==
  ASSUME LInv, UInv, NEW place \in Nat, ShowKey(place)
  PROVE  UInv'
<1>1. /\ pc = "done" /\ use' = "key" /\ wanted' = place
      /\ UNCHANGED <<matrix, held, silent, expander, spare, n, list, shift, pc>>
      /\ n \in Nat
  BY DEF ShowKey, vars, LInv, IInv, TypeOK, ListTypeOK
<1>2. shown' = First(Shown(place))
  BY DEF ShowKey, FindForKey, Shown
<1>3. Shown(place) \subseteq Index
  BY DEF Shown
<1>4. UsersTypeOK'
  <2>1. Index' = Index /\ KeysThere' = KeysThere /\ \A p \in Index : HasRowData(p)' <=> HasRowData(p)
    BY <1>1 DEF Index, KeysThere, HasRowData
  <2>2. shown' \in 0 .. n
    BY <1>1, <1>2, <1>3, FirstOf
  <2> QED
    BY <1>1, <2>1, <2>2 DEF UInv, UsersTypeOK
<1>5. OwnerIsShown'
  <2> SUFFICES ASSUME EachHasItsPlace, \A p \in Index : list[p].ch = 0 => list[p].kind = "display"
               PROVE  /\ shown' # 0 <=> \E p \in Placed : place \in Places(p)
                      /\ shown' # 0 => place \in Places(shown')
                      /\ shown' # 0 /\ list[shown'].kind = "keys" => FindMagnetic(place) = shown'
    BY <1>1 DEF OwnerIsShown, EachHasItsPlace, Spilled, Index, Placed, Places, FindMagnetic
  <2>1. /\ Shown(place) = {p \in Placed : place \in Places(p)}
        /\ \A p, q \in Shown(place) : p = q
    BY <1>1, OneIsShown
  <2>2. shown' # 0 <=> Shown(place) # {}
    BY <1>1, <1>2, <1>3, FirstOf
  <2>3. shown' # 0 => shown' \in Shown(place)
    BY <1>1, <1>2, <1>3, FirstOf
  <2>4. ASSUME shown' # 0, list[shown'].kind = "keys" PROVE FindMagnetic(place) = shown'
    <3> DEFINE M == {p \in Index : list[p].kind = "keys" /\ shift[p] <= place /\ place < shift[p] + 4}
    <3>1. M \subseteq Shown(place)
      BY DEF Shown, DisplayWidth, Width
    <3>2. shown' \in M
      BY <2>3, <2>4 DEF Shown, DisplayWidth, Width
    <3>3. First(M) \in M
      BY <1>1, <3>2, FirstOf
    <3>4. FindMagnetic(place) = First(M)
      BY DEF FindMagnetic
    <3> QED
      BY <2>1, <2>3, <2>4, <3>1, <3>3, <3>4
  <2> QED
    BY <2>1, <2>2, <2>3, <2>4
<1>6. UseInv' /\ RowIsExact' /\ TurnAndClickAgree'
  BY <1>1 DEF UseInv, RowIsExact, TurnAndClickAgree
<1> QED
  BY <1>4, <1>5, <1>6 DEF UInv, LookupsAgree

\* The place of an encoder tells how many are listed before it.
LEMMA ClickPlace ==
  ASSUME LInv, pc = "done", EachHasItsPlace, \A p \in Encoders : list[p].ch # 0, NEW p \in Encoders
  PROVE  shift[p] = REStart + Cardinality({q \in Encoders : q < p})
<1>1. \A q \in Index : q \in Encoders <=> Turned(q)
  BY DEF Encoders, EachHasItsPlace, Turned
<1>2. {q \in Encoders : q < p} = TurnedBefore(p)
  BY <1>1 DEF TurnedBefore, Encoders
<1>3. p \in Index /\ p < i
  <2>1. n < i /\ n \in Nat /\ i \in Nat
    BY DEF LInv, PInv, Running, IInv, TypeOK, ListTypeOK
  <2> QED
    BY <2>1 DEF Encoders, Index
<1> QED
  BY <1>1, <1>2, <1>3 DEF LInv, TurnsCounted

LEMMA ShowEncoderStep ==
  ASSUME LInv, UInv, NEW index \in Nat, ShowEncoder(index)
  PROVE  UInv'
<1> DEFINE E == {p \in Encoders : Cardinality({q \in Encoders : q < p}) = index}
<1>1. /\ pc = "done" /\ use = "none" /\ use' = "encoder" /\ wanted' = index
      /\ UNCHANGED <<matrix, held, silent, expander, spare, n, list, shift, pc>>
      /\ n \in Nat
  BY DEF ShowEncoder, vars, LInv, IInv, TypeOK, ListTypeOK
<1>2. FindEncoder(index) = First(E) /\ E \subseteq Index /\ E \subseteq Encoders
  BY DEF FindEncoder, Encoders
<1>3. shown = 0
  BY <1>1 DEF UInv, UseInv
<1>4. shown' = First(E)
  BY <1>2, <1>3 DEF ShowEncoder
<1>5. UsersTypeOK'
  <2>1. Index' = Index /\ KeysThere' = KeysThere /\ \A p \in Index : HasRowData(p)' <=> HasRowData(p)
    BY <1>1 DEF Index, KeysThere, HasRowData
  <2>2. shown' \in 0 .. n
    BY <1>1, <1>2, <1>4, FirstOf
  <2> QED
    BY <1>1, <2>1, <2>2 DEF UInv, UsersTypeOK
<1>6. TurnAndClickAgree'
  <2> SUFFICES ASSUME EachHasItsPlace, \A p \in Encoders : list[p].ch # 0, shown' # 0
               PROVE  shift[shown'] = REStart + index
    BY <1>1 DEF TurnAndClickAgree, EachHasItsPlace, Spilled, Index, Encoders, REStart
  <2>1. shown' \in E
    BY <1>1, <1>2, <1>4, FirstOf
  <2> QED
    BY <1>1, <2>1, ClickPlace
<1>7. UseInv' /\ RowIsExact' /\ OwnerIsShown'
  BY <1>1 DEF UseInv, RowIsExact, OwnerIsShown
<1> QED
  BY <1>5, <1>6, <1>7 DEF UInv, LookupsAgree

LEMMA UInvStep == LInv /\ LInv' /\ UInv /\ [UsersNext]_<<vars, userVars>> => UInv'
<1> SUFFICES ASSUME LInv, LInv', UInv, [UsersNext]_<<vars, userVars>> PROVE UInv'
  OBVIOUS
<1>1. CASE Next /\ UNCHANGED userVars
  BY <1>1, ScanGoesOn
<1>2. ASSUME NEW keys \in {{}, KeysThere} \cup {{k} : k \in KeysThere},
             NEW failed \in {{}} \cup {{p} : p \in Index}, ReadRows(keys, failed)
      PROVE  UInv'
  <2>1. keys \in SUBSET KeysThere /\ failed \in SUBSET Index
    OBVIOUS
  <2> QED
    BY <1>2, <2>1, ReadRowsStep
<1>3. ASSUME NEW place \in 0 .. REStart + MaxDevices, ShowKey(place) PROVE UInv'
  BY <1>3, ShowKeyStep
<1>4. ASSUME NEW index \in 0 .. MaxDevices - 1, ShowEncoder(index) PROVE UInv'
  BY <1>4, ShowEncoderStep
<1>5. CASE UNCHANGED <<vars, userVars>>
  <2>1. UNCHANGED <<use, matrix, held, silent, expander, spare, wanted, shown, n, list, shift, pc>>
    BY <1>5 DEF vars, userVars
  <2>2. UsersTypeOK' /\ UseInv'
    BY <2>1 DEF UInv, UsersTypeOK, UseInv, KeysThere, HasRowData, Index
  <2>3. RowIsExact'
    BY <2>1 DEF UInv, RowIsExact, EachHasItsPlace, Spilled, Index
  <2>4. LookupsAgree'
    BY <2>1 DEF UInv, LookupsAgree, OwnerIsShown, TurnAndClickAgree, EachHasItsPlace, Spilled, Index,
                Placed, Places, FindMagnetic, Encoders, REStart
  <2> QED
    BY <2>2, <2>3, <2>4 DEF UInv
<1> QED
  BY <1>1, <1>2, <1>3, <1>4, <1>5 DEF UsersNext

\* The users leave the list as the scan has made it: they are a scan with readers.
THEOREM UsersKeepList == UsersSpec => Spec
<1>1. UsersInit => Init
  BY DEF UsersInit
<1>2. [UsersNext]_<<vars, userVars>> => [Next]_vars
  BY DEF UsersNext, ReadRows, ShowKey, ShowEncoder
<1> QED
  BY <1>1, <1>2, PTL DEF UsersSpec, Spec

LEMMA ListAlways == Spec => []LInv
<1>1. Init => LInv
  BY InvInit, PlacesInit, TurnsInit DEF LInv
<1>2. LInv /\ [Next]_vars => LInv'
  BY InvStep, PlacesStep, TurnsStep DEF LInv
<1> QED
  BY <1>1, <1>2, PTL DEF Spec

LEMMA UsersAlways == UsersSpec => []UInv
<1>1. UsersInit /\ LInv => UInv
  BY UsersInvInit DEF LInv
<1> QED
  BY <1>1, UInvStep, UsersKeepList, ListAlways, PTL DEF UsersSpec

\* What a pass puts into the matrix lies in the row of a listed module, and a
\* lookup finds nothing that is not listed.
THEOREM UsersTypes == UsersSpec => []UsersTypeOK
<1>1. UInv => UsersTypeOK
  BY DEF UInv
<1> QED
  BY <1>1, UsersAlways, PTL

\* matrix_read_cols_on_row puts exactly the keys that are held into the matrix,
\* each at its place, whatever is held and whichever modules do not answer.
THEOREM RowsAreExact == UsersSpec => []RowIsExact
<1>1. UInv => RowIsExact
  BY DEF UInv
<1> QED
  BY <1>1, UsersAlways, PTL

\* display_find_device_for_key, magkey_get_latest_value and the two searches for
\* an encoder mean the module whose keys the pass reads at that place.
THEOREM LookupsAreRight == UsersSpec => []LookupsAgree
<1>1. UInv => LookupsAgree
  BY DEF UInv
<1> QED
  BY <1>1, UsersAlways, PTL
==============================================================================
