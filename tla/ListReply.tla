------------------------------- MODULE ListReply -------------------------------
(***************************************************************************)
(* The reply to the host's get_device_list (raw_hid_handler_via.c): the    *)
(* items of the list, one after the other, cut into parts that fit a       *)
(* report.  A part names itself and the last part, and the host, which is  *)
(* not in this repository, puts them together until it has the last.       *)
(***************************************************************************)
EXTENDS Integers

CONSTANTS
  ItemSize,   \* sizeof(Pendant_v2_DeviceItem_t)
  PartSize,   \* sizeof of the data of Pendant_v2_MultiPartPkt_t
  MaxItems,   \* MAX_MCP_NUM
  ReplyCounts \* bound: lengths of the list

ASSUME ReplyAssumption ==
  /\ ItemSize \in Nat \ {0} /\ PartSize \in Nat \ {0} /\ MaxItems \in Nat
  /\ ReplyCounts \subseteq Nat
  /\ ItemSize * MaxItems <= PartSize * 256  \* the part number is a byte

VARIABLES
  listed,   \* nDevices
  sending,  \* a reply is under way; send_device_list does not yield
  partNo,   \* the next part
  arrived,  \* history: the bytes of the payload the host has, as a bound
  complete, \* history: the host has had the last part
  emptyPart \* history: it has had a part without data

replyVars == <<listed, sending, partNo, arrived, complete, emptyPart>>

ReplyInit ==
  /\ listed \in ReplyCounts
  /\ sending = FALSE /\ partNo = 0 /\ arrived = 0 /\ complete = FALSE /\ emptyPart = FALSE

\* build_deviceitem_payload: the length of the payload, of at most MaxItems items.
Payload == (IF listed > MaxItems THEN MaxItems ELSE listed) * ItemSize

\* A bug to detect: the last part that is full is taken for the last.
LastFullPart(total) == total \div PartSize - 1

\* total_parts, which is the number of the last part.
LastPart(total) == (total - 1) \div PartSize

\* send_device_list: an empty list is not answered with parts at all.
RequestList ==
  /\ ~sending
  /\ sending' = (Payload > 0)
  /\ partNo' = 0 /\ arrived' = 0 /\ complete' = FALSE
  /\ UNCHANGED <<listed, emptyPart>>

Take(total) == IF total - partNo * PartSize > PartSize THEN PartSize ELSE total - partNo * PartSize

\* send_multipart_chunk: the host appends what follows on what it has.
SendPart ==
  /\ sending
  /\ arrived' = IF arrived = partNo * PartSize THEN arrived + Take(Payload) ELSE arrived
  /\ emptyPart' = (emptyPart \/ Take(Payload) = 0)
  /\ complete' = (partNo = LastPart(Payload))
  /\ sending' = (partNo < LastPart(Payload))
  /\ partNo' = partNo + 1
  /\ UNCHANGED listed

\* A scan between two requests.
ListChanges(count) ==
  /\ ~sending
  /\ listed' = count /\ complete' = FALSE
  /\ UNCHANGED <<sending, partNo, arrived, emptyPart>>

ReplyNext == RequestList \/ SendPart \/ \E count \in ReplyCounts : ListChanges(count)

ReplySpec == ReplyInit /\ [][ReplyNext]_replyVars

(***************************************************************************)
(* Properties.                                                             *)
(***************************************************************************)

\* The host that has the last part has the whole list and no byte more, whatever
\* its length, and no part was empty: the number in total_parts is neither one too
\* many nor one too few.
ReplyIsWhole ==
  /\ listed \in ReplyCounts /\ partNo \in 0 .. 256 /\ ~emptyPart
  /\ complete => arrived = Payload
================================================================================
