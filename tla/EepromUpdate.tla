----------------------------- MODULE EepromUpdate -----------------------------
(***************************************************************************)
(* eeprom_update_block (eeprom_driver.c), this keyboard's replacement for  *)
(* the driver's: a block is compared and written in chunks of at most the  *)
(* size of a buffer on the stack, and a chunk that is equal is not written *)
(* at all.  Power can go while a chunk is written.                         *)
(***************************************************************************)
EXTENDS Naturals

CONSTANTS
  Top,     \* the bytes of the EEPROM are 0 .. Top
  Byte,    \* the values of a byte
  BufSize  \* sizeof(read_buf)

ASSUME UpdateAssumption == Top \in Nat /\ BufSize \in Nat \ {0}

Bytes  == 0 .. Top

VARIABLES
  mem,     \* the EEPROM
  before,  \* the EEPROM when the call began
  addr,    \* the arguments of the call
  len,
  buf,     \* buf[i]: the byte for address addr + i
  off,     \* how far it has come
  pc       \* "run", "done", or "cut" when the power went

args == <<before, addr, len, buf>>
vars == <<mem, before, addr, len, buf, off, pc>>

Init ==
  /\ mem \in [Bytes -> Byte] /\ before = mem
  /\ addr \in Bytes
  /\ len \in {n \in 0 .. Top + 1 : addr + n <= Top + 1}
  /\ buf \in [0 .. len - 1 -> Byte]
  /\ off = 0 /\ pc = "run"

\* Bugs to detect: the last chunk is a byte short; the block is one chunk, as
\* in the driver this function replaces.
ShortChunk == IF len - off > BufSize THEN BufSize ELSE len - off - 1
WholeBlock == len - off

Chunk == IF len - off > BufSize THEN BufSize ELSE len - off

\* The addresses of the chunk at off, and what the block has for an address.
Window  == {a \in Bytes : addr + off <= a /\ a < addr + off + Chunk}
New(a)  == buf[a - addr]
\* A bug to detect: only the first byte of a chunk is compared.
FirstDiffers == mem[addr + off] # New(addr + off)

Differs == \E a \in Window : mem[a] # New(a)

NextOff == off + Chunk

\* eeprom_write_block brings the whole chunk into the EEPROM.
WriteChunk ==
  /\ pc = "run" /\ off < len /\ Differs
  /\ mem' = [a \in Bytes |-> IF a \in Window THEN New(a) ELSE mem[a]]
  /\ off' = NextOff
  /\ UNCHANGED <<args, pc>>

SkipChunk ==
  /\ pc = "run" /\ off < len /\ ~Differs
  /\ off' = NextOff
  /\ UNCHANGED <<mem, args, pc>>

Return ==
  /\ pc = "run" /\ ~(off < len)
  /\ pc' = "done"
  /\ UNCHANGED <<mem, args, off>>

\* The power goes: of a chunk that is being written any bytes have arrived.
PowerCut ==
  /\ pc = "run" /\ pc' = "cut"
  /\ IF off < len /\ Differs
     THEN \E arrived \in SUBSET Window :
            mem' = [a \in Bytes |-> IF a \in arrived THEN New(a) ELSE mem[a]]
     ELSE UNCHANGED mem
  /\ UNCHANGED <<args, off>>

Next == WriteChunk \/ SkipChunk \/ Return \/ PowerCut

Spec     == Init /\ [][Next]_vars
FairSpec == Spec /\ WF_vars(WriteChunk \/ SkipChunk \/ Return)

Block == {a \in Bytes : addr <= a /\ a < addr + len}

TypeOK ==
  /\ mem \in [Bytes -> Byte] /\ before \in [Bytes -> Byte]
  /\ addr \in Nat /\ len \in Nat /\ addr + len <= Top + 1
  /\ buf \in [0 .. len - 1 -> Byte]
  /\ off \in 0 .. len
  /\ pc \in {"run", "done", "cut"}

\* When the call returns, the EEPROM has the new bytes in the block and its old
\* ones everywhere else: no chunk reaches past the end of the block.
UpdateIsExact ==
  pc = "done" => \A a \in Bytes : mem[a] = IF a \in Block THEN New(a) ELSE before[a]

\* A power cut leaves the block new up to some address and old from another
\* one, at most a buffer further on: only one chunk can be mixed.
OneChunkTorn ==
  \E cut \in Bytes \cup {Top + 1} : \A a \in Bytes :
    /\ a \in Block /\ a < cut => mem[a] = New(a)
    /\ a \in Block /\ cut <= a /\ a < cut + BufSize => mem[a] \in {before[a], New(a)}
    /\ a \notin Block \/ cut + BufSize <= a => mem[a] = before[a]

\* The loop ends unless the power goes.
Returns == <>(pc # "run")
=============================================================================
