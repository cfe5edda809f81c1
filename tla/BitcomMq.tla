------------------------------ MODULE BitcomMq ------------------------------
(***************************************************************************)
(* The MQ path of the VE platform "bitcom" (ve/platform/bitcom/record.cpp). *)
(* The result thread puts the MQ text of a simple record into the first    *)
(* free slot of mq_send.text; mq_send_thread goes round the slots, copies  *)
(* a valid text out under the mutex and sends it without, or hands it to   *)
(* the retransmission table of module BitcomResend.                        *)
(***************************************************************************)
EXTENDS Integers, FiniteSets

CONSTANTS
  MaxRec,   \* texts put
  NumSlots  \* numberof(mq_send.text)

ASSUME BoundsAssumption == MaxRec \in Nat /\ NumSlots \in Nat \ {0}

Recs == 1..MaxRec
Slots == 1..NumSlots
NoText == 0
Junk == MaxRec + 1  \* what the uninitialised text of mq_send_thread holds

VARIABLES
  made,     \* simple records so far
  slots,    \* slots[s]: the valid text in slot s, or NoText
  refused,  \* texts that found no free slot
  scan,     \* mq_send_thread: its slot pointer,
  text,     \* its copy, valid unless NoText,
  pc,       \* and its step
  sent      \* sent[r]: how often (up to 2) text r was sent or put in the table

vars == <<made, slots, refused, scan, text, pc, sent>>

(* mq_send_put, under the mutex: the first free slot; with none the text is *)
(* dropped.                                                                 *)
FreeSlots == {s \in Slots : slots[s] = NoText}
FirstFree == CHOOSE s \in FreeSlots : \A t \in FreeSlots : s <= t

(* mq_send_msg of process_rg_mq, when cfg.pfm.bitcom.mq_enable is set. *)
Put ==
  /\ made < MaxRec
  /\ made' = made + 1
  /\ IF FreeSlots # {}
     THEN slots' = [slots EXCEPT ![FirstFree] = made + 1] /\ refused' = refused
     ELSE refused' = refused \union {made + 1} /\ slots' = slots
  /\ UNCHANGED <<scan, text, pc, sent>>

NextSlotShort(s) == IF s + 1 >= NumSlots THEN 1 ELSE s + 1
NextSlotNoWrap(s) == s + 1
NextSlot(s) == IF s = NumSlots THEN 1 ELSE s + 1
StillValid(s) == slots
Freed(s) == [slots EXCEPT ![s] = NoText]

(* mq_send_thread under the mutex: a valid text is copied out and its slot  *)
(* freed, and the pointer moves on.                                         *)
Scan ==
  /\ pc = "scan"
  /\ text' = IF slots[scan] # NoText THEN slots[scan] ELSE text
  /\ slots' = Freed(scan)
  /\ scan' = NextSlot(scan)
  /\ pc' = "send"
  /\ UNCHANGED <<made, refused, sent>>

(* A valid copy is sent, or put in the table when tabitcom_mq_send fails,   *)
(* and is invalid from then on.                                             *)
MqSend ==
  /\ pc = "send"
  /\ pc' = "scan"
  /\ text' = NoText
  /\ sent' = [r \in 1..Junk |-> IF r = text /\ sent[r] < 2 THEN sent[r] + 1 ELSE sent[r]]
  /\ UNCHANGED <<made, slots, refused, scan>>

(* tabitcom_mq_send_ram_init; text.valid of the thread is not initialised. *)
Init ==
  /\ made = 0 /\ refused = {}
  /\ slots = [s \in Slots |-> NoText]
  /\ scan = 1 /\ text \in {NoText, Junk} /\ pc = "scan"
  /\ sent = [r \in 1..Junk |-> 0]

Next == Put \/ Scan \/ MqSend

Spec == Init /\ [][Next]_vars

(* mq_send_thread is scheduled and every call it makes returns: the socket  *)
(* of tabitcom_mq_send has a timeout.                                       *)
FairSpec == Spec /\ WF_vars(Scan \/ MqSend)

----------------------------------------------------------------------------
TypeOK ==
  /\ made \in 0..MaxRec /\ refused \subseteq Recs
  /\ slots \in [Slots -> Recs \union {NoText}]
  /\ scan \in Slots /\ text \in Recs \union {NoText, Junk}
  /\ pc \in {"scan", "send"} /\ sent \in [1..Junk -> 0..2]

(* Every text is sent or put in the MQ table at most once, the garbage of    *)
(* the uninitialised copy included, however the result thread refills slots  *)
(* behind and before the pointer (mq_send_put, mq_send_thread).              *)
MqOnce == \A r \in 1..Junk : sent[r] <= 1

(* A text that found a slot is sent or put in the MQ table, whichever slot   *)
(* it got (mq_send_thread).                                                  *)
MqTextHandled ==
  \A r \in Recs : (\E s \in Slots : slots[s] = r) ~> sent[r] > 0
=============================================================================
