--------------------------- MODULE BitcomMqProofs ---------------------------
(* Theorems about BitcomMq, for any number of texts and of slots.          *)
EXTENDS BitcomMq, WellFoundedInduction, TLAPS

NatLess == OpToRel(<, Nat)

(* A nonempty set of numbers has a least one. *)
LEMMA LeastElement ==
  ASSUME NEW S \in SUBSET Nat, S # {}
  PROVE  \E x \in S : \A y \in S : x <= y
<1>1. IsWellFoundedOn(NatLess, Nat)
  BY NatLessThanWellFounded, Zenon DEF NatLess
<1>2. \A x, y \in Nat : x < y => <<x, y>> \in NatLess
  BY DEF NatLess, OpToRel
<1>3. PICK x \in S : \A y \in S : ~(<<y, x>> \in NatLess)
  BY <1>1, WFMin, Zenon
<1>4. \A y \in S : ~(y < x)
  BY <1>2, <1>3
<1> QED BY <1>4

(* The slot mq_send_put takes is a free one. *)
LEMMA FirstFreeType ==
  ASSUME FreeSlots # {}
  PROVE  FirstFree \in Slots /\ slots[FirstFree] = NoText
<1>1. FreeSlots \subseteq Nat
  BY BoundsAssumption DEF FreeSlots, Slots
<1>2. \E s \in FreeSlots : \A t \in FreeSlots : s <= t
  BY <1>1, LeastElement
<1>3. FirstFree \in FreeSlots
  BY <1>2 DEF FirstFree
<1> QED BY <1>3 DEF FreeSlots

(* Where a text is before it is sent: in one slot at most, or in the copy, *)
(* and not sent yet; texts that were not put yet are nowhere.              *)
Pending ==
  /\ \A s \in Slots : slots[s] # NoText => slots[s] <= made /\ sent[slots[s]] = 0
  /\ \A s, t \in Slots : slots[s] # NoText /\ slots[s] = slots[t] => s = t
  /\ \A s \in Slots : slots[s] # NoText => slots[s] # text
  /\ text \in Recs => text <= made
  /\ text # NoText => sent[text] = 0
  /\ \A r \in Recs : r > made => sent[r] = 0

IInv == TypeOK /\ Pending /\ MqOnce

LEMMA InitInv == Init => IInv
<1> SUFFICES ASSUME Init PROVE IInv
  OBVIOUS
<1> USE BoundsAssumption DEF Init, Recs, Slots, NoText, Junk
<1>1. TypeOK
  BY DEF TypeOK
<1>2. Pending
  BY DEF Pending
<1>3. MqOnce
  BY DEF MqOnce
<1> QED BY <1>1, <1>2, <1>3 DEF IInv

(* mq_send_put: a new text enters one free slot. *)
LEMMA PutInv == IInv /\ Put => IInv'
<1> SUFFICES ASSUME IInv, Put PROVE IInv'
  OBVIOUS
<1> DEFINE new == made + 1
<1>0. /\ MaxRec \in Nat /\ NumSlots \in Nat \ {0} /\ made \in Nat /\ made < MaxRec
      /\ new \in Recs /\ new # NoText /\ new # Junk /\ new > made
  BY BoundsAssumption DEF IInv, TypeOK, Put, Recs, NoText, Junk
<1>1. /\ made' = new
      /\ scan' = scan /\ text' = text /\ pc' = pc /\ sent' = sent
  BY DEF Put
<1>2. \/ slots' = slots /\ refused' = refused \union {new}
      \/ /\ FreeSlots # {}
         /\ slots' = [slots EXCEPT ![FirstFree] = new] /\ refused' = refused
  BY DEF Put
<1>3. TypeOK'
  <2>1. made' \in 0..MaxRec
    BY <1>0, <1>1
  <2>2. refused' \subseteq Recs /\ slots' \in [Slots -> Recs \union {NoText}]
    BY <1>0, <1>2, FirstFreeType DEF IInv, TypeOK
  <2> QED BY <1>1, <2>1, <2>2 DEF IInv, TypeOK
<1>4. MqOnce'
  BY <1>1 DEF IInv, MqOnce
<1>5. sent[new] = 0 /\ new # text
  BY <1>0 DEF IInv, Pending
<1>6. \A s \in Slots : slots[s] # new
  BY <1>0 DEF IInv, Pending
<1>7. /\ text \in Recs => text <= new
      /\ \A r \in Recs : r > new => sent[r] = 0
  BY <1>0 DEF IInv, Pending, Recs
<1>8. \A s \in Slots : slots'[s] # NoText =>
        slots'[s] <= new /\ sent[slots'[s]] = 0 /\ slots'[s] # text
  <2> SUFFICES ASSUME NEW s \in Slots, slots'[s] # NoText
               PROVE  slots'[s] <= new /\ sent[slots'[s]] = 0 /\ slots'[s] # text
    OBVIOUS
  <2>1. slots'[s] = slots[s] \/ slots'[s] = new
    BY <1>2 DEF IInv, TypeOK
  <2>2. CASE slots'[s] = new
    BY <2>2, <1>0, <1>5
  <2>3. CASE slots'[s] = slots[s]
    <3>1. slots[s] \in Nat /\ slots[s] <= made /\ sent[slots[s]] = 0 /\ slots[s] # text
      BY <2>3, <1>0 DEF IInv, TypeOK, Pending, Recs, NoText
    <3> QED BY <3>1, <2>3, <1>0
  <2> QED BY <2>1, <2>2, <2>3
<1>9. \A s, t \in Slots : slots'[s] # NoText /\ slots'[s] = slots'[t] => s = t
  <2>1. CASE slots' = slots
    BY <2>1 DEF IInv, Pending
  <2>2. CASE FreeSlots # {} /\ slots' = [slots EXCEPT ![FirstFree] = new]
    BY <2>2, <1>6, FirstFreeType DEF IInv, Pending, TypeOK
  <2> QED BY <1>2, <2>1, <2>2
<1>10. Pending'
  BY <1>1, <1>7, <1>8, <1>9 DEF Pending, IInv
<1> QED BY <1>3, <1>4, <1>10 DEF IInv

(* mq_send_thread moves a text from its slot to the copy. *)
LEMMA ScanInv == IInv /\ Scan => IInv'
<1> SUFFICES ASSUME IInv, Scan PROVE IInv'
  OBVIOUS
<1>1. /\ made' = made /\ refused' = refused /\ sent' = sent /\ pc' = "send"
      /\ slots' = [slots EXCEPT ![scan] = NoText]
      /\ text' = IF slots[scan] # NoText THEN slots[scan] ELSE text
      /\ scan' = IF scan = NumSlots THEN 1 ELSE scan + 1
  BY DEF Scan, Freed, NextSlot
<1>2. scan \in Slots /\ scan' \in Slots
  BY <1>1, BoundsAssumption DEF IInv, TypeOK, Slots
<1>3. TypeOK'
  BY <1>1, <1>2 DEF IInv, TypeOK
<1>4. MqOnce'
  BY <1>1 DEF IInv, MqOnce
<1>5. \A s \in Slots : slots'[s] # NoText => s # scan /\ slots'[s] = slots[s]
  BY <1>1, <1>2 DEF IInv, TypeOK
<1>6. \A s \in Slots : slots'[s] # NoText =>
        slots'[s] <= made /\ sent[slots'[s]] = 0 /\ slots'[s] # text'
  BY <1>1, <1>2, <1>5 DEF IInv, Pending
<1>7. \A s, t \in Slots : slots'[s] # NoText /\ slots'[s] = slots'[t] => s = t
  BY <1>5 DEF IInv, Pending
<1>8. /\ text' \in Recs => text' <= made
      /\ text' # NoText => sent[text'] = 0
  BY <1>1, <1>2 DEF IInv, Pending
<1>9. Pending'
  BY <1>1, <1>6, <1>7, <1>8 DEF Pending, IInv
<1> QED BY <1>3, <1>4, <1>9 DEF IInv

(* The copy is sent, or handed to the table, and invalid from then on. *)
LEMMA MqSendInv == IInv /\ MqSend => IInv'
<1> SUFFICES ASSUME IInv, MqSend PROVE IInv'
  OBVIOUS
<1>0. Recs \subseteq 1..Junk /\ Junk \in 1..Junk /\ NoText \notin 1..Junk
  BY BoundsAssumption DEF Recs, Junk, NoText
<1>1. /\ made' = made /\ refused' = refused /\ slots' = slots /\ scan' = scan
      /\ pc' = "scan" /\ text' = NoText
      /\ sent' = [r \in 1..Junk |-> IF r = text /\ sent[r] < 2 THEN sent[r] + 1 ELSE sent[r]]
  BY DEF MqSend
<1>2. \A r \in 1..Junk : sent[r] \in 0..2
  BY DEF IInv, TypeOK
<1>3. \A r \in 1..Junk : r # text => sent'[r] = sent[r]
  BY <1>1
<1>4. text \in 1..Junk => sent[text] = 0 /\ sent'[text] = 1
  BY <1>0, <1>1 DEF IInv, Pending
<1>5. TypeOK'
  <2>1. sent' \in [1..Junk -> 0..2]
    BY <1>1, <1>2
  <2> QED BY <1>1, <2>1 DEF IInv, TypeOK
<1>6. MqOnce'
  BY <1>3, <1>4 DEF IInv, MqOnce
<1>7. \A s \in Slots : slots[s] # NoText =>
        slots[s] <= made /\ sent'[slots[s]] = 0
  BY <1>0, <1>3 DEF IInv, Pending, TypeOK
<1>8. \A r \in Recs : r > made => sent'[r] = 0
  <2> SUFFICES ASSUME NEW r \in Recs, r > made PROVE sent'[r] = 0
    OBVIOUS
  <2>1. r # text
    BY BoundsAssumption DEF IInv, Pending, TypeOK, Recs
  <2> QED BY <1>0, <1>3, <2>1 DEF IInv, Pending
<1>9. Pending'
  <2>1. NoText \notin Recs
    BY <1>0
  <2> QED BY <1>1, <1>7, <1>8, <2>1 DEF Pending, IInv
<1> QED BY <1>5, <1>6, <1>9 DEF IInv

LEMMA StutterInv == IInv /\ UNCHANGED vars => IInv'
  BY DEF IInv, TypeOK, Pending, MqOnce, vars

LEMMA Inductive == Spec => []IInv
<1>1. IInv /\ [Next]_vars => IInv'
  BY PutInv, ScanInv, MqSendInv, StutterInv DEF Next
<1> QED BY InitInv, <1>1, PTL DEF Spec

(* The slots, the pointer and the counts of mq_send_thread keep their      *)
(* types: above all, the pointer never leaves the array (mq_send_thread).  *)
THEOREM MqTypeCorrect == Spec => []TypeOK
<1>1. IInv => TypeOK
  BY DEF IInv
<1> QED BY Inductive, <1>1, PTL

(* No text is sent or put in the MQ table twice, for any number of texts   *)
(* and slots and any interleaving of mq_send_put and mq_send_thread.       *)
THEOREM MqSentOnce == Spec => []MqOnce
<1>1. IInv => MqOnce
  BY DEF IInv
<1> QED BY Inductive, <1>1, PTL
=============================================================================
