-------------------------- MODULE EepromUpdateProofs --------------------------
(***************************************************************************)
(* For every EEPROM, block and buffer size: a block update is exact, and a *)
(* power cut mixes old and new bytes in one chunk of it at most.           *)
(***************************************************************************)
EXTENDS EepromUpdate, TLAPS

\* While the loop runs, the block is new below addr + off and old above.
Progress ==
  pc # "cut" => \A a \in Bytes :
    mem[a] = IF a \in Block /\ a < addr + off THEN New(a) ELSE before[a]

DoneAtEnd == pc = "done" => off = len

IInv == TypeOK /\ Progress /\ DoneAtEnd /\ OneChunkTorn

LEMMA ChunkFits ==
  ASSUME TypeOK, off < len
  PROVE  /\ Chunk \in Nat /\ 0 < Chunk /\ Chunk <= BufSize /\ off + Chunk <= len
         /\ \A a \in Window : a - addr \in 0 .. len - 1
  BY UpdateAssumption DEF TypeOK, Chunk, Window, Bytes

\* The cut a running or finished loop would leave.
LEMMA TornAtOff == TypeOK /\ Progress /\ pc # "cut" => OneChunkTorn
<1> SUFFICES ASSUME TypeOK, Progress, pc # "cut" PROVE OneChunkTorn
  OBVIOUS
<1>1. addr + off \in Bytes \cup {Top + 1}
  BY UpdateAssumption DEF TypeOK, Bytes
<1>2. ASSUME NEW a \in Bytes
      PROVE  /\ a \in Block /\ a < addr + off => mem[a] = New(a)
             /\ a \in Block /\ addr + off <= a /\ a < addr + off + BufSize => mem[a] \in {before[a], New(a)}
             /\ a \notin Block \/ addr + off + BufSize <= a => mem[a] = before[a]
  BY UpdateAssumption DEF TypeOK, Progress, Bytes
<1> QED
  BY <1>1, <1>2 DEF OneChunkTorn

LEMMA InvInit == Init => IInv
<1> SUFFICES ASSUME Init PROVE IInv
  OBVIOUS
<1>1. TypeOK
  BY UpdateAssumption DEF Init, TypeOK, Bytes
<1>2. Progress
  BY DEF Init, Progress, Block, Bytes
<1>3. OneChunkTorn
  BY <1>1, <1>2, TornAtOff DEF Init
<1> QED
  BY <1>1, <1>2, <1>3 DEF IInv, DoneAtEnd, Init

LEMMA InvStep == IInv /\ [Next]_vars => IInv'
<1> SUFFICES ASSUME IInv, [Next]_vars PROVE IInv'
  OBVIOUS
<1> USE DEF IInv
<1>0. TypeOK' /\ Progress' /\ (pc # "cut")' => OneChunkTorn'
  BY TornAtOff, PTL
<1>1. CASE WriteChunk
  <2>1. TypeOK'
    <3>1. \A a \in Window : New(a) \in Byte
      BY <1>1, ChunkFits DEF WriteChunk, NextOff, New, TypeOK
    <3>2. off' \in 0 .. len'
      BY <1>1, ChunkFits DEF WriteChunk, NextOff, TypeOK, args
    <3> QED
      BY <1>1, <3>1, <3>2 DEF WriteChunk, NextOff, TypeOK, args
  <2>2. Progress'
    BY <1>1, ChunkFits, UpdateAssumption DEF WriteChunk, NextOff, Progress, Window, Block, New, args, Bytes, TypeOK
  <2>3. pc' # "cut" /\ DoneAtEnd'
    BY <1>1 DEF WriteChunk, NextOff, DoneAtEnd
  <2> QED
    BY <2>1, <2>2, <2>3, <1>0
<1>2. CASE SkipChunk
  <2>1. TypeOK'
    BY <1>2, ChunkFits DEF SkipChunk, NextOff, TypeOK, args
  <2>2. Progress'
    BY <1>2, ChunkFits, UpdateAssumption DEF SkipChunk, NextOff, Differs, Progress, Window, Block, New, args, Bytes, TypeOK
  <2>3. pc' # "cut" /\ DoneAtEnd'
    BY <1>2 DEF SkipChunk, NextOff, DoneAtEnd
  <2> QED
    BY <2>1, <2>2, <2>3, <1>0
<1>3. CASE Return
  <2>1. TypeOK' /\ Progress' /\ DoneAtEnd' /\ pc' # "cut"
    BY <1>3 DEF Return, TypeOK, Progress, DoneAtEnd, Block, New, args
  <2> QED
    BY <1>0, <2>1
<1>4. CASE PowerCut
  <2>1. CASE off < len /\ Differs
    <3>1. PICK arrived \in SUBSET Window :
            mem' = [a \in Bytes |-> IF a \in arrived THEN New(a) ELSE mem[a]]
      BY <1>4, <2>1 DEF PowerCut
    <3>2. \A a \in arrived : New(a) \in Byte
      BY <2>1, <3>1, ChunkFits DEF New, TypeOK
    <3>3. TypeOK' /\ Progress' /\ DoneAtEnd'
      BY <1>4, <3>1, <3>2 DEF PowerCut, TypeOK, Progress, DoneAtEnd, args
    <3>4. ASSUME NEW a \in Bytes
          PROVE  /\ a \in Block /\ a < addr + off => mem'[a] = New(a)
                 /\ a \in Block /\ addr + off <= a /\ a < addr + off + BufSize => mem'[a] \in {before[a], New(a)}
                 /\ a \notin Block \/ addr + off + BufSize <= a => mem'[a] = before[a]
      <4>1. a \in Window => a \in Block /\ addr + off <= a /\ a < addr + off + BufSize
        BY <2>1, ChunkFits, UpdateAssumption DEF Window, Block, Bytes, TypeOK
      <4>2. mem[a] = IF a \in Block /\ a < addr + off THEN New(a) ELSE before[a]
        BY <1>4 DEF PowerCut, Progress
      <4>3. mem'[a] = IF a \in arrived THEN New(a) ELSE mem[a]
        BY <3>1
      <4> QED
        BY <3>1, <4>1, <4>2, <4>3, UpdateAssumption DEF Bytes, TypeOK
    <3>5. addr + off \in Bytes \cup {Top + 1}
      BY UpdateAssumption DEF TypeOK, Bytes
    <3>6. OneChunkTorn'
      BY <1>4, <3>4, <3>5 DEF PowerCut, OneChunkTorn, Block, New, args
    <3> QED
      BY <3>3, <3>6
  <2>2. CASE ~(off < len /\ Differs)
    <3>1. TypeOK' /\ Progress' /\ DoneAtEnd'
      BY <1>4, <2>2 DEF PowerCut, TypeOK, Progress, DoneAtEnd, args
    <3>2. OneChunkTorn'
      BY <1>4, <2>2 DEF PowerCut, OneChunkTorn, Block, New, args
    <3> QED
      BY <3>1, <3>2
  <2> QED
    BY <2>1, <2>2
<1>5. CASE UNCHANGED vars
  BY <1>5 DEF vars, args, TypeOK, Progress, DoneAtEnd, OneChunkTorn, Block, New
<1> QED
  BY <1>1, <1>2, <1>3, <1>4, <1>5 DEF Next

THEOREM Invariant == Spec => []IInv
  BY InvInit, InvStep, PTL DEF Spec

\* eeprom_update_block leaves exactly the block changed, and changed to buf.
THEOREM ExactUpdate == Spec => []UpdateIsExact
<1>1. IInv => UpdateIsExact
  BY UpdateAssumption DEF IInv, Progress, DoneAtEnd, UpdateIsExact, TypeOK, Block, Bytes
<1> QED
  BY <1>1, Invariant, PTL

\* A power cut tears at most one chunk of eeprom_update_block.
THEOREM TornOnce == Spec => []OneChunkTorn
<1>1. IInv => OneChunkTorn
  BY DEF IInv
<1> QED
  BY <1>1, Invariant, PTL
=============================================================================
