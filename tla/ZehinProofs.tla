----------------------------- MODULE ZehinProofs -----------------------------
(* Theorems about Zehin, for all values of its constants.                  *)
EXTENDS Zehin, FiniteSetTheorems, WellFoundedInduction, TLAPS

(* The order of the natural numbers as a relation, for WFMin. *)
NatLess == OpToRel(<, Nat)

(* Every nonempty set of naturals has a least element ... *)
LEMMA LeastNumber ==
  ASSUME NEW S \in SUBSET Nat, S # {}
  PROVE  \E x \in S : \A y \in S : x <= y
<1>1. PICK x \in S : \A y \in S : ~(<<y, x>> \in NatLess)
  <2>1. IsWellFoundedOn(NatLess, Nat)
    BY NatLessThanWellFounded, Zenon DEF NatLess
  <2> QED BY <2>1, WFMin, Zenon
<1>2. \A y \in S : ~(y < x)
  BY <1>1 DEF NatLess, OpToRel
<1> QED BY <1>2

HasLargest(S) == \E x \in S : \A y \in S : y <= x

(* ... and every finite one a largest: one of least size without would     *)
(* still be without after losing an element.                               *)
LEMMA LargestNumber ==
  ASSUME NEW S \in SUBSET Nat, S # {}, IsFiniteSet(S)
  PROVE  HasLargest(S)
<1> DEFINE Bad(T) == /\ T \in SUBSET Nat /\ T # {} /\ IsFiniteSet(T)
                     /\ ~HasLargest(T)
           Sizes == {n \in Nat : \E T \in SUBSET Nat :
                                    Bad(T) /\ Cardinality(T) = n}
<1>1. SUFFICES ASSUME ~HasLargest(S) PROVE FALSE
  OBVIOUS
<1>2. Cardinality(S) \in Sizes
  BY <1>1, FS_CardinalityType
<1>3. PICK n \in Sizes : \A i \in Sizes : n <= i
  <2> HIDE DEF Sizes
  <2>1. Sizes \in SUBSET Nat
    BY DEF Sizes
  <2> QED BY <1>2, <2>1, LeastNumber
<1>4. PICK T \in SUBSET Nat : Bad(T) /\ Cardinality(T) = n
  BY <1>3
<1>5. PICK x \in T : TRUE
  BY <1>4
<1> DEFINE U == T \ {x}
<1>6. IsFiniteSet(U) /\ Cardinality(U) = n - 1 /\ n \in Nat
  BY <1>3, <1>4, <1>5, FS_RemoveElement
<1>7. U \in SUBSET Nat /\ x \in Nat /\ T = U \cup {x}
  BY <1>5
<1>8. Cardinality(U) \in Nat
  <2> HIDE DEF U
  <2> QED BY <1>6, FS_CardinalityType
<1>9. ~Bad(U)
  <2> SUFFICES ASSUME Bad(U) PROVE FALSE
    OBVIOUS
  <2>1. Cardinality(U) \in Sizes
    BY <1>7, <1>8
  <2>2. n <= Cardinality(U)
    <3> HIDE DEF Sizes, U
    <3> QED BY <1>3, <2>1
  <2> HIDE DEF U
  <2> QED BY <1>6, <2>2
<1>10. CASE U = {}
  <2>1. T = {x}
    BY <1>7, <1>10
  <2>2. HasLargest(T)
    BY <1>7, <2>1 DEF HasLargest
  <2> QED BY <1>4, <2>2
<1>11. CASE U # {}
  <2>1. PICK m \in U : \A y \in U : y <= m
    BY <1>6, <1>7, <1>9, <1>11 DEF HasLargest
  <2>2. m \in Nat /\ x \in Nat
    BY <1>7, <2>1
  <2>3. CASE x <= m
    <3>1. \A y \in T : y <= m
      BY <1>7, <2>1, <2>3
    <3>2. HasLargest(T)
      BY <1>7, <2>1, <3>1 DEF HasLargest
    <3> QED BY <1>4, <3>2
  <2>4. CASE m <= x
    <3>1. \A y \in T : y <= x
      <4>1. ASSUME NEW y \in U PROVE y <= x
        BY <1>7, <2>1, <2>2, <2>4
      <4> QED BY <1>7, <4>1
    <3>2. HasLargest(T)
      BY <1>5, <3>1 DEF HasLargest
    <3> QED BY <1>4, <3>2
  <2> QED BY <2>2, <2>3, <2>4
<1> QED BY <1>10, <1>11

-----------------------------------------------------------------------------
(* The rows of a table: finitely many, each with a number of its own. *)
Rows(rows) == IsFiniteSet(rows) /\ \A r \in rows : r.id \in Nat

LEMMA MaxIdFacts ==
  ASSUME NEW rows, Rows(rows)
  PROVE  /\ MaxId(rows) \in Nat
         /\ \A r \in rows : r.id <= MaxId(rows)
         /\ rows # {} => \E r \in rows : r.id = MaxId(rows)
<1>1. CASE rows = {}
  BY <1>1 DEF MaxId
<1>2. CASE rows # {}
  <2>1. IsFiniteSet(Ids(rows)) /\ Ids(rows) \in SUBSET Nat /\ Ids(rows) # {}
    <3>1. IsFiniteSet(Ids(rows))
      <4> DEFINE f == [r \in rows |-> r.id]
      <4>1. f \in Surjection(rows, Ids(rows))
        BY DEF Surjection, Ids
      <4> QED BY <4>1, FS_Surjection DEF Rows
    <3> QED BY <1>2, <3>1 DEF Rows, Ids
  <2>2. \E i \in Ids(rows) : \A j \in Ids(rows) : j <= i
    BY <2>1, LargestNumber DEF HasLargest
  <2>3. MaxId(rows) = CHOOSE i \in Ids(rows) : \A j \in Ids(rows) : j <= i
    BY <1>2 DEF MaxId
  <2>4. MaxId(rows) \in Ids(rows) /\ \A j \in Ids(rows) : j <= MaxId(rows)
    BY <2>2, <2>3
  <2> QED BY <2>1, <2>4 DEF Ids
<1> QED BY <1>1, <1>2

LEMMA FirstFacts ==
  ASSUME NEW rows, rows # {}, \A r \in rows : r.id \in Nat
  PROVE  First(rows) \in rows /\ \A q \in rows : First(rows).id <= q.id
<1>1. Ids(rows) \in SUBSET Nat /\ Ids(rows) # {}
  BY DEF Ids
<1>2. PICK i \in Ids(rows) : \A j \in Ids(rows) : i <= j
  BY <1>1, LeastNumber
<1>3. \E r \in rows : \A q \in rows : r.id <= q.id
  BY <1>2 DEF Ids
<1> QED BY <1>3 DEF First

-----------------------------------------------------------------------------
(* Every message that the record thread constructs was announced by a      *)
(* notification of its own: what is still on its way counts.               *)
OnItsWay ==
  Len(zq) + Len(park) + (IF post = "none" THEN 0 ELSE 1)
  + (IF rpc = "lock" THEN 1 ELSE 0)

Flow == msg + OnItsWay <= made

(* The record thread holds a message from its construction on. *)
Holding == rpc \notin {"wait", "lock"} => msg >= 1

(* The numbers and the bounds that the actions compute with. *)
LEMMA ConstFacts ==
  /\ MaxRec \in Nat /\ MaxRestarts \in Nat /\ Rotate \in Nat
  /\ QueueMax \in Nat /\ ZqMax \in Nat
  /\ Tries \in Nat /\ Tries > 0 /\ NumPics \in Nat /\ NumPics > 0
BY BoundsAssumption

LEMMA NumFacts ==
  ASSUME TypeOK
  PROVE  /\ made \in Nat /\ msg \in Nat /\ field \in Nat /\ last \in Nat
         /\ Len(park) \in Nat /\ Len(zq) \in Nat
BY ConstFacts DEF TypeOK

(* What msgsnd leaves in a queue. *)
LEMMA SentFacts ==
  ASSUME NEW q \in Seq(Kind), NEW max \in Nat, Len(q) <= max, NEW m \in Kind,
         NEW r \in Sent(q, max, m)
  PROVE  /\ r \in Seq(Kind) /\ Len(r) <= max /\ Len(r) \in Nat
         /\ Len(r) <= Len(q) + 1
<1>1. Len(q) \in Nat
  OBVIOUS
<1>2. CASE r = q
  BY <1>1, <1>2
<1>3. CASE r = Append(q, m) /\ Len(q) < max
  <2>1. r \in Seq(Kind) /\ Len(r) = Len(q) + 1
    BY <1>3
  <2> QED BY <1>1, <1>3, <2>1
<1> QED BY <1>2, <1>3 DEF Sent

LEMMA TailFacts ==
  ASSUME NEW q \in Seq(Kind), q # <<>>
  PROVE  /\ Tail(q) \in Seq(Kind) /\ Head(q) \in Kind
         /\ Len(Tail(q)) = Len(q) - 1 /\ Len(Tail(q)) \in Nat
OBVIOUS

LEMMA FlowNext ==
  ASSUME TypeOK, Flow, [Next]_vars
  PROVE  Flow'
<1> USE NumFacts DEF Flow, OnItsWay, bufVars, queueVars, recVars
<1>1. CASE Notify
  <2>1. /\ post = "none" /\ post' # "none" /\ made' = made + 1
        /\ UNCHANGED <<msg, park, zq, rpc>>
    BY <1>1 DEF Notify, Kind
  <2> QED BY <2>1
<1>2. CASE Post
  <2>1. /\ post # "none" /\ post' = "none" /\ UNCHANGED <<msg, made, zq, rpc>>
        /\ park' \in Sent(park, QueueMax, post)
    BY <1>2 DEF Post
  <2>2. Len(park') \in Nat /\ Len(park') <= Len(park) + 1
    BY <2>1, ConstFacts, SentFacts DEF TypeOK
  <2> QED BY <2>1, <2>2
<1>3. CASE Dispatch
  <2>1. Head(park) \in Kind /\ Len(park') = Len(park) - 1 /\ Len(park') \in Nat
    BY <1>3, TailFacts DEF Dispatch, TypeOK
  <2>2. Len(zq') \in Nat /\ Len(zq') <= Len(zq) + 1
    <3>1. CASE zq' = zq
      BY <3>1
    <3>2. CASE zq' \in Sent(zq, ZqMax, Head(park))
      BY <2>1, <3>2, ConstFacts, SentFacts DEF TypeOK
    <3> QED BY <1>3, <3>1, <3>2 DEF Dispatch
  <2>3. UNCHANGED <<msg, made, post, rpc>>
    BY <1>3 DEF Dispatch
  <2> QED BY <2>1, <2>2, <2>3
<1>4. CASE Take
  <2>1. Len(zq') = Len(zq) - 1 /\ Len(zq') \in Nat
    BY <1>4, TailFacts DEF Take, TypeOK
  <2>2. UNCHANGED <<msg, made, post, park>> /\ rpc = "wait" /\ rpc' = "lock"
    BY <1>4 DEF Take
  <2> QED BY <2>1, <2>2
<1>5. CASE Lock
  <2>1. /\ UNCHANGED <<made, post, park, zq>> /\ msg' = msg + 1
        /\ rpc = "lock" /\ rpc' = "check"
    BY <1>5 DEF Lock
  <2> QED BY <2>1
<1>6. CASE Restart
  <2>1. /\ UNCHANGED <<made, msg>> /\ post' = "none" /\ park' = <<>>
        /\ zq' = <<>> /\ rpc' = "wait"
    BY <1>6 DEF Restart
  <2> QED BY <2>1
<1>7. CASE /\ UNCHANGED <<made, msg, post, park, zq>>
           /\ rpc' = rpc \/ rpc' # "lock"
  BY <1>7
<1>8. CASE Check \/ Send \/ SendPicture \/ Store \/ StoreFails \/ Newest
           \/ RotatePics \/ InsertPic \/ InsertPicFails
  <2>1. rpc' # "lock" \/ rpc' = rpc
    BY <1>8 DEF Check, Send, SendPicture, Store, StoreFails, Newest, RotatePics, InsertPic, InsertPicFails,
       NextPicture, BackTo
  <2>2. UNCHANGED <<made, msg, post, park, zq>>
    BY <1>8 DEF Check, Send, SendPicture, Store, StoreFails, Newest, RotatePics, InsertPic, InsertPicFails
  <2> QED BY <1>7, <2>1, <2>2
<1>9. CASE LinkChange \/ RegetThread \/ UNCHANGED vars
  BY <1>7, <1>9 DEF LinkChange, RegetThread, MsgSelect, MsgAnswered,
     MsgUnanswered, MsgUpdate, MsgDelete, PicSelect, PicSend, PicDelete, vars
<1> QED
  BY <1>1, <1>2, <1>3, <1>4, <1>5, <1>6, <1>8, <1>9 DEF Next, RecordThread

(* What each group of actions leaves alone. *)
LEMMA OutsideKeeps ==
  ASSUME Notify \/ Post \/ Dispatch \/ LinkChange
  PROVE  UNCHANGED <<retransmit, tableVars, rpc, recVars, getVars, restarts,
                     seen, last, arrived, given, unstored, misfiled, reused>>
BY DEF Notify, Post, Dispatch, LinkChange, bufVars, hisVars

LEMMA RecordKeeps ==
  ASSUME RecordThread
  PROVE  UNCHANGED <<bufVars, post, park, netVars, getVars, restarts, misfiled,
                     crowded>>
BY DEF RecordThread, Take, Lock, Check, Send, SendPicture, Store, StoreFails, Newest,
   RotatePics, InsertPic, InsertPicFails, queueVars, hisVars

LEMMA RegetKeeps ==
  ASSUME RegetThread
  PROVE  UNCHANGED <<bufVars, queueVars, netVars, rpc, recVars, restarts, seen,
                     given, unstored, reused, crowded>>
BY DEF RegetThread, MsgSelect, MsgAnswered, MsgUnanswered, MsgUpdate,
   MsgDelete, PicSelect, PicSend, PicDelete, hisVars

LEMMA HoldingNext ==
  ASSUME TypeOK, Holding, [Next]_vars
  PROVE  Holding'
<1> USE NumFacts DEF Holding, recVars
<1>1. CASE UNCHANGED <<rpc, msg>>
  BY <1>1
<1>2. CASE Notify \/ Post \/ Dispatch \/ LinkChange
  BY <1>1, <1>2, OutsideKeeps
<1>3. CASE RegetThread
  BY <1>1, <1>3, RegetKeeps
<1>4. CASE UNCHANGED vars
  BY <1>1, <1>4 DEF vars
<1>5. CASE Restart
  BY <1>5 DEF Restart
<1>6. CASE Take
  BY <1>6 DEF Take
<1>7. CASE Lock
  <2>1. msg' = msg + 1
    BY <1>7 DEF Lock
  <2> QED BY <2>1
<1>8. CASE Check \/ Send \/ SendPicture \/ Store \/ StoreFails \/ Newest
           \/ RotatePics \/ InsertPic \/ InsertPicFails
  <2>1. rpc \notin {"wait", "lock"} /\ msg' = msg
    BY <1>8 DEF Check, Send, SendPicture, Store, StoreFails, Newest, RotatePics, InsertPic, InsertPicFails
  <2> QED BY <2>1
<1> QED
  BY <1>2, <1>3, <1>4, <1>5, <1>6, <1>7, <1>8 DEF Next, RecordThread

-----------------------------------------------------------------------------
(* The rows of msgreget are in the order of their messages, all of which   *)
(* the record thread has constructed.                                      *)
MsgOrder ==
  /\ \A m \in msgs : m.id <= m.msg /\ m.msg <= msg
  /\ rpc \in {"check", "send", "store"} => \A m \in msgs : m.msg < msg
  /\ \A m, n \in msgs : m.id <= n.id <=> m.msg <= n.msg

Finite == IsFiniteSet(msgs) /\ IsFiniteSet(pics)

LEMMA RowFacts ==
  ASSUME TypeOK, Finite
  PROVE  /\ Rows(msgs) /\ Rows(pics)
         /\ \A m \in msgs : m.id \in Nat /\ m.msg \in Nat /\ m.id > 0
         /\ \A p \in pics : p.id \in Nat
<1>1. msgs \in SUBSET MsgRow /\ pics \in SUBSET PicRow
  BY DEF TypeOK
<1>2. \A m \in MsgRow : m.id \in Nat /\ m.msg \in Nat /\ m.id > 0
  BY ConstFacts DEF MsgRow, Msg
<1>3. \A p \in PicRow : p.id \in Nat
  BY DEF PicRow
<1> QED BY <1>1, <1>2, <1>3 DEF Finite, Rows

(* The row that tpzehin_save_msg4reget adds. *)
NewRow == [id |-> NextId(msgs), msg |-> msg]

LEMMA NewRowFacts ==
  ASSUME TypeOK, Finite, Holding, MsgOrder, rpc = "store"
  PROVE  /\ NewRow \in MsgRow
         /\ NewRow.id <= NewRow.msg /\ NewRow.msg = msg
         /\ \A m \in msgs : m.id < NewRow.id /\ m.msg < NewRow.msg
<1>1. Rows(msgs) /\ \A m \in msgs : m.id \in Nat /\ m.msg \in Nat
  BY RowFacts
<1>2. /\ MaxId(msgs) \in Nat
      /\ \A m \in msgs : m.id <= MaxId(msgs)
      /\ msgs # {} => \E m \in msgs : m.id = MaxId(msgs)
  BY <1>1, MaxIdFacts
<1>3. msg \in Nat /\ msg >= 1 /\ msg <= MaxRec
  BY NumFacts, ConstFacts DEF Holding, TypeOK
<1>4. MaxId(msgs) < msg
  <2>1. CASE msgs = {}
    BY <1>3, <2>1 DEF MaxId
  <2>2. CASE msgs # {}
    <3>1. PICK m \in msgs : m.id = MaxId(msgs)
      BY <1>2, <2>2
    <3>2. m.id <= m.msg /\ m.msg < msg
      BY DEF MsgOrder
    <3> QED BY <1>1, <1>3, <3>1, <3>2
  <2> QED BY <2>1, <2>2
<1>5. NewRow.id = MaxId(msgs) + 1 /\ NewRow.msg = msg
  BY DEF NewRow, NextId
<1>6. NextId(msgs) \in Msg /\ msg \in Msg
  BY <1>2, <1>3, <1>4, ConstFacts DEF NextId, Msg
<1>7. \A m \in msgs : m.msg < msg
  BY DEF MsgOrder
<1>8. NewRow.id <= NewRow.msg
  BY <1>2, <1>3, <1>4, <1>5
<1>9. \A m \in msgs : m.id < NewRow.id
  BY <1>1, <1>2, <1>5
<1> QED BY <1>5, <1>6, <1>7, <1>8, <1>9 DEF NewRow, MsgRow

LEMMA MsgOrderNext ==
  ASSUME TypeOK, Finite, Holding, MsgOrder, [Next]_vars
  PROVE  MsgOrder'
<1>0. msg \in Nat /\ \A m \in msgs : m.id \in Nat /\ m.msg \in Nat
  BY NumFacts, RowFacts
<1>1. CASE /\ msgs' \subseteq msgs /\ msg' = msg
           /\ rpc' \in {"check", "send", "store"} =>
                rpc \in {"check", "send", "store"}
  BY <1>1 DEF MsgOrder
<1>2. CASE Notify \/ Post \/ Dispatch \/ LinkChange
  BY <1>1, <1>2, OutsideKeeps DEF tableVars, recVars
<1>3. CASE RegetThread
  <2>1. msgs' \subseteq msgs
    BY <1>3 DEF RegetThread, MsgSelect, MsgAnswered, MsgUnanswered, MsgUpdate,
       MsgDelete, PicSelect, PicSend, PicDelete, tableVars
  <2> QED BY <1>1, <1>3, <2>1, RegetKeeps DEF recVars
<1>4. CASE UNCHANGED vars
  BY <1>1, <1>4 DEF vars, tableVars, recVars
<1>5. CASE Restart
  BY <1>1, <1>5 DEF Restart, tableVars
<1>6. CASE Take \/ SendPicture \/ StoreFails \/ Newest \/ RotatePics
           \/ InsertPic \/ InsertPicFails
  <2>1. msgs' = msgs /\ msg' = msg
    BY <1>6 DEF Take, SendPicture, StoreFails, Newest, RotatePics, InsertPic,
       InsertPicFails, tableVars,
       recVars
  <2>2. rpc' \notin {"check", "send", "store"}
    BY <1>6 DEF Take, SendPicture, StoreFails, Newest, RotatePics, InsertPic,
       InsertPicFails, NextPicture,
       BackTo
  <2> QED BY <1>1, <2>1, <2>2
<1>7. CASE Check \/ Send
  BY <1>1, <1>7 DEF Check, Send, tableVars, recVars
<1>8. CASE Lock
  <2>1. msgs' = msgs /\ msg' = msg + 1
    BY <1>8 DEF Lock, tableVars
  <2>2. \A m \in msgs : m.msg < msg + 1 /\ m.msg <= msg + 1
    BY <1>0 DEF MsgOrder
  <2> QED BY <2>1, <2>2 DEF MsgOrder
<1>9. CASE Store
  <2>1. msgs' = msgs \cup {NewRow} /\ msg' = msg /\ rpc' = "newest"
    BY <1>9 DEF Store, NewRow
  <2>2. /\ NewRow.id <= NewRow.msg /\ NewRow.msg = msg
        /\ \A m \in msgs : m.id < NewRow.id /\ m.msg < NewRow.msg
        /\ NewRow \in MsgRow
    BY <1>9, NewRowFacts DEF Store
  <2>3. NewRow.id \in Nat /\ NewRow.msg \in Nat
    BY <2>2, ConstFacts DEF MsgRow, Msg
  <2>4. \A m \in msgs' : m.id <= m.msg /\ m.msg <= msg
    BY <1>0, <2>1, <2>2 DEF MsgOrder
  <2>5. ASSUME NEW m \in msgs', NEW n \in msgs'
        PROVE  m.id <= n.id <=> m.msg <= n.msg
    <3>1. CASE m = NewRow /\ n = NewRow
      BY <2>3, <3>1
    <3>2. CASE m = NewRow /\ n \in msgs
      BY <1>0, <2>2, <2>3, <3>2
    <3>3. CASE m \in msgs /\ n = NewRow
      BY <1>0, <2>2, <2>3, <3>3
    <3>4. CASE m \in msgs /\ n \in msgs
      BY <3>4 DEF MsgOrder
    <3> QED BY <2>1, <3>1, <3>2, <3>3, <3>4
  <2> QED BY <2>1, <2>4, <2>5 DEF MsgOrder
<1> QED
  BY <1>2, <1>3, <1>4, <1>5, <1>6, <1>7, <1>8, <1>9 DEF Next, RecordThread

-----------------------------------------------------------------------------
(* tpzehin_pic_update on one row: the platform's record id is filled in. *)
Updated(p) == IF p.tab = gmsg.id THEN [p EXCEPT !.rec = gmsg.msg] ELSE p

(* It changes nothing else of a row, and the number of rows at most falls. *)
LEMMA UpdatedFacts ==
  ASSUME TypeOK, Finite, gmsg \in MsgRow
  PROVE  LET new == {Updated(p) : p \in pics} IN
         /\ new \in SUBSET PicRow /\ IsFiniteSet(new)
         /\ Cardinality(new) <= Cardinality(pics)
         /\ \A p \in pics : /\ Updated(p).id = p.id /\ Updated(p).of = p.of
                            /\ Updated(p).serial = p.serial
                            /\ Updated(p).tab = p.tab
                            /\ Updated(p).rec =
                                 IF p.tab = gmsg.id THEN gmsg.msg ELSE p.rec
<1> DEFINE new == {Updated(p) : p \in pics}
           f == [p \in pics |-> Updated(p)]
<1>0. gmsg.msg \in 0..MaxRec
  BY ConstFacts DEF MsgRow, Msg
<1>1. ASSUME NEW p \in pics
      PROVE  /\ Updated(p) \in PicRow
             /\ Updated(p).id = p.id /\ Updated(p).of = p.of
             /\ Updated(p).serial = p.serial /\ Updated(p).tab = p.tab
             /\ Updated(p).rec = IF p.tab = gmsg.id THEN gmsg.msg ELSE p.rec
  <2>1. p \in PicRow
    BY DEF TypeOK
  <2> QED BY <1>0, <2>1 DEF Updated, PicRow
<1>2. f \in Surjection(pics, new)
  BY DEF Surjection
<1>3. IsFiniteSet(new) /\ Cardinality(new) <= Cardinality(pics)
  <2> HIDE DEF f, new
  <2> QED BY <1>2, FS_Surjection DEF Finite
<1> QED BY <1>1, <1>3

(* The reget thread works on the oldest row until that row is deleted. *)
Getting ==
  gpc \in {"send", "update", "delete"} =>
     retransmit /\ gmsg \in msgs /\ \A m \in msgs : gmsg.id <= m.id

LEMMA GettingNext ==
  ASSUME TypeOK, Finite, Holding, MsgOrder, Getting, [Next]_vars
  PROVE  Getting'
<1> USE DEF Getting
<1>1. CASE UNCHANGED <<retransmit, msgs, gpc, gmsg>>
  BY <1>1
<1>2. CASE Notify \/ Post \/ Dispatch \/ LinkChange
  BY <1>1, <1>2, OutsideKeeps DEF tableVars, getVars
<1>3. CASE UNCHANGED vars
  BY <1>1, <1>3 DEF vars, bufVars, tableVars, getVars
<1>4. CASE Restart
  BY <1>4 DEF Restart
<1>5. CASE Store
  <2>1. msgs' = msgs \cup {NewRow} /\ UNCHANGED <<retransmit, gpc, gmsg>>
    BY <1>5 DEF Store, NewRow, bufVars, getVars
  <2>2. \A m \in msgs : m.id < NewRow.id
    BY <1>5, NewRowFacts DEF Store
  <2>3. NewRow.id \in Nat /\ \A m \in msgs : m.id \in Nat
    <3>1. NewRow \in MsgRow
      BY <1>5, NewRowFacts DEF Store
    <3> QED BY <3>1, RowFacts, ConstFacts DEF MsgRow, Msg
  <2> QED BY <2>1, <2>2, <2>3
<1>6. CASE RecordThread /\ ~Store
  <2>1. msgs' = msgs
    BY <1>6 DEF RecordThread, Take, Lock, Check, Send, SendPicture,
       StoreFails, Newest, RotatePics, InsertPic, InsertPicFails, tableVars
  <2> QED BY <1>1, <1>6, <2>1, RecordKeeps DEF bufVars, getVars
<1>7. CASE MsgSelect
  <2>1. msgs' = msgs /\ retransmit /\ UNCHANGED retransmit
    BY <1>7 DEF MsgSelect, tableVars, bufVars
  <2>2. msgs # {} =>
          First(msgs) \in msgs /\ \A q \in msgs : First(msgs).id <= q.id
    BY RowFacts, FirstFacts
  <2> QED BY <1>7, <2>1, <2>2 DEF MsgSelect
<1>8. CASE MsgAnswered \/ MsgUpdate
  BY <1>8 DEF MsgAnswered, MsgUpdate, bufVars, tableVars
<1>9. CASE MsgUnanswered \/ MsgDelete \/ PicSelect \/ PicSend \/ PicDelete
  BY <1>9 DEF MsgUnanswered, MsgDelete, PicSelect, PicSend, PicDelete
<1> QED
  BY <1>2, <1>3, <1>4, <1>5, <1>6, <1>7, <1>8, <1>9 DEF Next, RegetThread

LEMMA GettingRow ==
  ASSUME TypeOK, Getting, gpc \in {"send", "update", "delete"}
  PROVE  gmsg \in MsgRow
BY DEF TypeOK, Getting

LEMMA FiniteNext ==
  ASSUME TypeOK, Finite, Getting, [Next]_vars
  PROVE  Finite'
<1> USE DEF Finite
<1>1. CASE UNCHANGED tableVars
  BY <1>1 DEF tableVars
<1>2. CASE Notify \/ Post \/ Dispatch \/ LinkChange
  BY <1>1, <1>2, OutsideKeeps
<1>3. CASE UNCHANGED vars \/ Restart
  BY <1>1, <1>3 DEF vars, Restart
<1>4. CASE Store
  BY <1>4, FS_AddElement DEF Store
<1>5. CASE InsertPic
  BY <1>5, FS_AddElement DEF InsertPic
<1>6. CASE RotatePics
  <2>1. pics' \in SUBSET pics /\ msgs' = msgs
    BY <1>6 DEF RotatePics, Rotated
  <2> QED BY <2>1, FS_Subset
<1>7. CASE Take \/ Lock \/ Check \/ Send \/ SendPicture \/ StoreFails \/ Newest
           \/ InsertPicFails
  BY <1>1, <1>7 DEF Take, Lock, Check, Send, SendPicture, StoreFails, Newest,
     InsertPicFails
<1>8. CASE MsgSelect \/ MsgAnswered \/ MsgUnanswered \/ PicSelect \/ PicSend
  BY <1>1, <1>8 DEF MsgSelect, MsgAnswered, MsgUnanswered, PicSelect, PicSend
<1>9. CASE MsgUpdate
  <2>1. pics' = {Updated(p) : p \in pics} /\ msgs' = msgs
    BY <1>9 DEF MsgUpdate, Updated
  <2> QED BY <1>9, <2>1, UpdatedFacts, GettingRow DEF MsgUpdate
<1>10. CASE MsgDelete
  <2>1. msgs' \in SUBSET msgs /\ pics' = pics
    BY <1>10 DEF MsgDelete
  <2> QED BY <2>1, FS_Subset
<1>11. CASE PicDelete
  <2>1. pics' \in SUBSET pics /\ msgs' = msgs
    BY <1>11 DEF PicDelete
  <2> QED BY <2>1, FS_Subset
<1> QED
  BY <1>2, <1>3, <1>4, <1>5, <1>6, <1>7, <1>8, <1>9, <1>10, <1>11
     DEF Next, RecordThread, RegetThread

-----------------------------------------------------------------------------
(* The type invariant needs all of these: that the message numbers and the *)
(* ids of rows stay within the number of records is a matter of the flow   *)
(* of announcements and of the order of the rows.                          *)
TInv == TypeOK /\ Finite /\ Flow /\ Holding /\ MsgOrder /\ Getting

LEMMA NextPictureFacts ==
  ASSUME NEW s \in 1..NumPics, NEW pc, NextPicture(s, pc)
  PROVE  serial' \in 1..NumPics /\ rpc' \in {pc, "wait"}
BY ConstFacts DEF NextPicture

LEMMA TypeInit == Init => TInv
<1> SUFFICES ASSUME Init PROVE TInv
  OBVIOUS
<1> USE DEF Init
<1>1. TypeOK
  <2>1. <<>> \in Seq(Kind) /\ Len(<<>>) = 0
    OBVIOUS
  <2>2. {retransmit, link, sf, withPic, misfiled, reused, crowded}
          \subseteq BOOLEAN
    OBVIOUS
  <2>3. {} \subseteq Msg /\ 1 \in 1..NumPics /\ 0 \in 0..(Tries - 1)
        /\ 0 \in 0..MaxRec /\ 0 \in 0..MaxRestarts
    BY ConstFacts
  <2> QED BY <2>1, <2>2, <2>3, ConstFacts DEF TypeOK
<1>2. Finite
  BY FS_EmptySet DEF Finite
<1>3. Flow
  BY DEF Flow, OnItsWay
<1> QED BY <1>1, <1>2, <1>3 DEF TInv, Holding, MsgOrder, Getting

LEMMA TypeOutside ==
  ASSUME TInv, Notify \/ Post \/ Dispatch \/ LinkChange \/ Restart
  PROVE  TypeOK'
<1> USE ConstFacts DEF TInv, TypeOK, bufVars, queueVars, netVars, tableVars,
                       recVars, getVars, hisVars
<1>1. CASE Notify
  <2>1. made + 1 \in 0..MaxRec
    BY <1>1 DEF Notify
  <2> QED BY <1>1, <2>1 DEF Notify, Kind
<1>2. CASE Post
  <2>1. park' \in Seq(Kind) /\ Len(park') <= QueueMax
    BY <1>2, SentFacts DEF Post, Kind
  <2>2. crowded' \in BOOLEAN
    BY <1>2 DEF Post
  <2> QED BY <1>2, <2>1, <2>2 DEF Post
<1>3. CASE Dispatch
  <2>1. park' \in Seq(Kind) /\ Head(park) \in Kind /\ Len(park') <= QueueMax
    BY <1>3, TailFacts, NumFacts DEF Dispatch
  <2>2. zq' \in Seq(Kind) /\ Len(zq') <= ZqMax
    BY <1>3, <2>1, SentFacts DEF Dispatch
  <2>3. crowded' \in BOOLEAN
    BY <1>3 DEF Dispatch
  <2> QED BY <1>3, <2>1, <2>2, <2>3 DEF Dispatch
<1>4. CASE LinkChange
  BY <1>4 DEF LinkChange
<1>5. CASE Restart
  <2>1. given' \subseteq Msg /\ unstored' \subseteq given'
    <3>1. rpc \notin {"wait", "lock"} => msg \in Msg
      BY DEF Holding, Msg
    <3>2. /\ given' = IF rpc \in {"wait", "lock"} THEN given ELSE given \cup {msg}
          /\ unstored' = unstored
      BY <1>5, Zenon DEF Restart
    <3>3. given \subseteq given' /\ given' \subseteq Msg
      BY <3>1, <3>2
    <3> QED BY <3>2, <3>3
  <2>2. restarts' \in 0..MaxRestarts
    <3>1. restarts < MaxRestarts /\ restarts' = restarts + 1
      BY <1>5 DEF Restart
    <3>2. restarts \in 0..MaxRestarts /\ MaxRestarts \in Nat
      BY DEF TypeOK
    <3> HIDE DEF TInv, TypeOK
    <3> QED BY <3>1, <3>2
  <2>3. /\ park' \in Seq(Kind) /\ Len(park') = 0
        /\ zq' \in Seq(Kind) /\ Len(zq') = 0
    BY <1>5 DEF Restart
  <2>4. {retransmit', link', sf', withPic', misfiled', reused', crowded'}
          \subseteq BOOLEAN
    BY <1>5 DEF Restart
  <2>5. /\ made' \in 0..MaxRec /\ field' \in 0..MaxRec /\ picture' \in 0..MaxRec
        /\ post' = "none" /\ msgs' \subseteq MsgRow /\ pics' \subseteq PicRow
        /\ rpc' = "wait" /\ msg' \in 0..MaxRec /\ tries' = 0
        /\ recordId' = 0 /\ serial' = 1 /\ tab' = 0
        /\ gpc' = "msg" /\ gmsg' = NoMsg /\ gpic' = NoPic
        /\ seen' \subseteq 0..MaxRec /\ last' \in 0..MaxRec
        /\ arrived' \subseteq Msg
    BY <1>5 DEF Restart
  <2> HIDE DEF TInv
  <2> QED BY <2>1, <2>2, <2>3, <2>4, <2>5
<1> QED BY <1>1, <1>2, <1>3, <1>4, <1>5

LEMMA TypeRecord ==
  ASSUME TInv, RecordThread
  PROVE  TypeOK'
<1> USE ConstFacts DEF TInv, TypeOK, bufVars, queueVars, netVars, tableVars,
                       recVars, getVars, hisVars
<1>0. rpc \notin {"wait", "lock"} => msg \in Msg
  BY DEF Holding, Msg
<1>1. CASE Take
  <2>1. zq' \in Seq(Kind) /\ Len(zq') <= ZqMax
    BY <1>1, TailFacts, NumFacts DEF Take
  <2>2. withPic' \in BOOLEAN
    BY <1>1 DEF Take
  <2> QED BY <1>1, <2>1, <2>2 DEF Take
<1>2. CASE Lock
  <2>1. msg + 1 \in 0..MaxRec
    BY <1>2, NumFacts DEF Lock, Flow, OnItsWay
  <2> QED BY <1>2, <2>1 DEF Lock
<1>3. CASE Check
  BY <1>3 DEF Check
<1>4. CASE Send
  <2>1. msg \in Msg
    BY <1>0, <1>4 DEF Send
  <2>2. last' \in 0..MaxRec /\ arrived' \subseteq Msg
    BY <1>4, <2>1 DEF Send, Arrive
  <2>3. tries' \in 0..(Tries - 1)
    BY <1>4 DEF Send
  <2>4. given' \subseteq Msg /\ unstored' \subseteq given'
    BY <1>4, <2>1 DEF Send
  <2>5. recordId' \in 0..MaxRec /\ serial' \in 1..NumPics
    BY <1>4 DEF Send
  <2>6. rpc' \in {"pic", "wait", "store", "send"}
    BY <1>4 DEF Send
  <2> QED BY <1>4, <2>2, <2>3, <2>4, <2>5, <2>6 DEF Send
<1>5. CASE SendPicture
  <2>1. serial' \in 1..NumPics /\ rpc' \in {"wait", "pic", "newest"}
    BY <1>5, NextPictureFacts DEF SendPicture
  <2> QED BY <1>5, <2>1 DEF SendPicture
<1>6. CASE Store
  <2>1. msgs' \subseteq MsgRow
    <3>1. NewRow \in MsgRow
      BY <1>6, NewRowFacts DEF Store
    <3> QED BY <1>6, <3>1 DEF Store, NewRow
  <2>2. reused' \in BOOLEAN
    BY <1>6 DEF Store
  <2> QED BY <1>6, <2>1, <2>2 DEF Store
<1>7. CASE Newest
  <2>1. MaxId(msgs) \in 0..MaxRec
    <3>1. CASE msgs = {}
      BY <3>1 DEF MaxId
    <3>2. CASE msgs # {}
      <4>1. PICK m \in msgs : m.id = MaxId(msgs)
        BY <3>2, RowFacts, MaxIdFacts
      <4> QED BY <4>1 DEF MsgRow, Msg
    <3> QED BY <3>1, <3>2
  <2>2. serial' \in 1..NumPics /\ rpc' \in {"rotate", "wait", "pic", "newest"}
    BY <1>7, NextPictureFacts DEF Newest, BackTo
  <2> QED BY <1>7, <2>1, <2>2 DEF Newest, NewestRow
<1>8. CASE RotatePics
  <2>1. pics' \subseteq pics
    BY <1>8 DEF RotatePics, Rotated
  <2> QED BY <1>8, <2>1 DEF RotatePics
<1>9. CASE InsertPic
  <2>1. MaxId(pics) \in Nat
    BY RowFacts, MaxIdFacts
  <2>2. pics' \subseteq PicRow
    BY <1>0, <1>9, <2>1 DEF InsertPic, PicRow, NextId
  <2>3. serial' \in 1..NumPics /\ rpc' \in {"wait", "pic", "newest"}
    BY <1>9, NextPictureFacts DEF InsertPic, BackTo
  <2> QED BY <1>9, <2>2, <2>3 DEF InsertPic
<1>10. CASE StoreFails
  <2>1. given' \subseteq Msg /\ unstored' \subseteq given'
    BY <1>0, <1>10 DEF StoreFails
  <2> QED BY <1>10, <2>1 DEF StoreFails
<1>11. CASE InsertPicFails
  <2>1. serial' \in 1..NumPics /\ rpc' \in {"wait", "pic", "newest"}
    BY <1>11, NextPictureFacts DEF InsertPicFails, BackTo
  <2> QED BY <1>11, <2>1 DEF InsertPicFails
<1> QED
  BY <1>1, <1>2, <1>3, <1>4, <1>5, <1>6, <1>7, <1>8, <1>9, <1>10, <1>11
     DEF RecordThread

LEMMA TypeReget ==
  ASSUME TInv, RegetThread
  PROVE  TypeOK'
<1> USE ConstFacts DEF TInv, TypeOK, bufVars, queueVars, netVars, tableVars,
                       recVars, getVars, hisVars
<1>1. CASE MsgSelect
  <2>1. msgs # {} => First(msgs) \in MsgRow
    BY RowFacts, FirstFacts
  <2> QED BY <1>1, <2>1 DEF MsgSelect
<1>2. CASE MsgAnswered \/ MsgUnanswered
  <2>1. gmsg \in MsgRow
    BY <1>2, GettingRow DEF MsgAnswered, MsgUnanswered
  <2>2. last' \in 0..MaxRec /\ arrived' \subseteq Msg
    <3>1. gmsg.msg \in Msg /\ Msg \subseteq 0..MaxRec
      BY <2>1 DEF MsgRow, Msg
    <3> QED BY <1>2, <3>1 DEF MsgAnswered, MsgUnanswered, Arrive
  <2> QED BY <1>2, <2>2 DEF MsgAnswered, MsgUnanswered
<1>3. CASE MsgUpdate
  <2>1. pics' = {Updated(p) : p \in pics}
    BY <1>3 DEF MsgUpdate, Updated
  <2>2. pics' \subseteq PicRow
    BY <1>3, <2>1, UpdatedFacts, GettingRow DEF MsgUpdate
  <2> QED BY <1>3, <2>2 DEF MsgUpdate
<1>4. CASE MsgDelete
  BY <1>4 DEF MsgDelete
<1>5. CASE PicSelect
  <2> DEFINE ready == {p \in pics : p.rec > 0}
  <2>1. ready # {} => First(ready) \in PicRow
    BY RowFacts, FirstFacts
  <2> QED BY <1>5, <2>1 DEF PicSelect
<1>6. CASE PicSend
  <2>1. misfiled' \in BOOLEAN
    BY <1>6 DEF PicSend
  <2> QED BY <1>6, <2>1 DEF PicSend
<1>7. CASE PicDelete
  BY <1>7 DEF PicDelete
<1> QED BY <1>1, <1>2, <1>3, <1>4, <1>5, <1>6, <1>7 DEF RegetThread

LEMMA TypeNext == TInv /\ [Next]_vars => TInv'
<1> SUFFICES ASSUME TInv, [Next]_vars PROVE TInv'
  OBVIOUS
<1>1. TypeOK'
  <2>1. CASE UNCHANGED vars
    BY <2>1 DEF TInv, TypeOK, vars, bufVars, queueVars, netVars, tableVars,
       recVars, getVars, hisVars
  <2> QED BY <2>1, TypeOutside, TypeRecord, TypeReget DEF Next
<1> QED
  BY <1>1, FiniteNext, FlowNext, HoldingNext, MsgOrderNext, GettingNext DEF TInv

(* The queues of the zehin platform, the message numbers, the pictures'    *)
(* loop counter and the ids of both tables stay within their ranges: no    *)
(* notification is turned into two messages, and msgreget hands out no id  *)
(* above the number of its message.                                        *)
THEOREM TypeCorrect == Spec => []TypeOK
<1>1. TInv => TypeOK
  BY DEF TInv
<1> QED BY <1>1, TypeInit, TypeNext, PTL DEF Spec

-----------------------------------------------------------------------------
LEMMA AnnouncedNext ==
  ASSUME TypeOK, BufferAnnounced, [Next]_vars
  PROVE  BufferAnnounced'
<1> USE DEF BufferAnnounced, Waits, bufVars, queueVars, hisVars
<1>1. CASE /\ UNCHANGED <<field, post, park, zq, crowded>>
           /\ seen \subseteq seen'
           /\ rpc = "lock" => rpc' = "lock"
  BY <1>1
<1>2. CASE Notify
  BY <1>2 DEF Notify, Kind
<1>3. CASE Post
  BY <1>3 DEF Post
<1>4. CASE Dispatch
  <2>1. Passed(Head(park))
    BY <1>4, TailFacts DEF Dispatch, TypeOK, Kind, Passed
  <2> QED BY <1>4, <2>1 DEF Dispatch
<1>5. CASE LinkChange \/ UNCHANGED vars
  BY <1>1, <1>5 DEF LinkChange, vars
<1>6. CASE Take
  BY <1>6 DEF Take
<1>7. CASE Lock
  BY <1>7 DEF Lock
<1>8. CASE RecordThread /\ ~Take /\ ~Lock
  <2>1. rpc # "lock" /\ UNCHANGED <<zq, seen>>
    BY <1>8 DEF RecordThread, Check, Send, SendPicture, Store, StoreFails, Newest,
       RotatePics, InsertPic, InsertPicFails
  <2> QED BY <1>1, <1>8, <2>1, RecordKeeps
<1>9. CASE RegetThread
  BY <1>1, <1>9, RegetKeeps
<1>10. CASE Restart
  BY <1>10 DEF Restart
<1> QED
  BY <1>2, <1>3, <1>4, <1>5, <1>6, <1>7, <1>8, <1>9, <1>10 DEF Next

(* A record in the global buffer that nobody has looked at is announced,   *)
(* whatever the lengths of MSG_PARK_ID and of the zehin queue: only a      *)
(* queue that was full of other messages loses its announcement.           *)
THEOREM BufferIsAnnounced == Spec => []BufferAnnounced
<1>1. Init => BufferAnnounced
  BY DEF Init, BufferAnnounced
<1>2. TInv /\ BufferAnnounced /\ [Next]_vars => BufferAnnounced'
  BY AnnouncedNext DEF TInv
<1> QED BY <1>1, <1>2, TypeInit, TypeNext, PTL DEF Spec

-----------------------------------------------------------------------------
(* A constructed message is with the record thread until it has arrived,   *)
(* is given up or has its row; the reget thread deletes the row of a       *)
(* message that arrived.                                                   *)
Accounted(n) ==
  \/ n \in arrived \cup given
  \/ \E m \in msgs : m.msg = n
  \/ n = msg /\ rpc \in {"check", "send", "store"}

Account ==
  /\ \A n \in 1..msg : Accounted(n)
  /\ gpc \in {"update", "delete"} => gmsg.msg \in arrived

LEMMA AccountNext ==
  ASSUME TInv, Account, [Next]_vars
  PROVE  Account'
<1> USE DEF Account, Accounted, bufVars, queueVars, netVars, tableVars, recVars,
            getVars, hisVars
<1>1. CASE UNCHANGED <<msgs, arrived, given, msg, rpc, gpc, gmsg>>
  BY <1>1
<1>2. CASE Notify \/ Post \/ Dispatch \/ LinkChange
  BY <1>1, <1>2, OutsideKeeps
<1>3. CASE UNCHANGED vars
  BY <1>1, <1>3 DEF vars
<1>4. CASE Restart
  BY <1>4 DEF Restart
<1>5. CASE Lock
  <2>1. /\ msg' = msg + 1 /\ rpc = "lock" /\ rpc' = "check"
        /\ UNCHANGED <<msgs, arrived, given, gpc, gmsg>>
    BY <1>5 DEF Lock
  <2>2. \A n \in 1..msg' : n \in 1..msg \/ n = msg'
    BY <2>1, NumFacts DEF TInv
  <2> QED BY <2>1, <2>2
<1>6. CASE Check
  BY <1>6 DEF Check
<1>7. CASE Send
  <2>1. arrived \subseteq arrived' /\ given \subseteq given'
        /\ UNCHANGED <<msgs, msg, gpc, gmsg>> /\ rpc = "send"
    BY <1>7 DEF Send, Arrive
  <2>2. msg \in arrived' \cup given' \/ rpc' \in {"send", "store"}
    BY <1>7 DEF Send, Arrive
  <2> QED BY <2>1, <2>2
<1>8. CASE Store
  <2>1. /\ msgs' = msgs \cup {NewRow} /\ NewRow.msg = msg
        /\ UNCHANGED <<msg, arrived, given, gpc, gmsg>>
    BY <1>8 DEF Store, NewRow
  <2> QED BY <2>1
<1>13. CASE StoreFails
  <2>1. /\ given' = given \cup {msg} /\ UNCHANGED <<msgs, arrived, msg, gpc, gmsg>>
    BY <1>13 DEF StoreFails
  <2> QED BY <2>1
<1>9. CASE Take \/ SendPicture \/ Newest \/ RotatePics \/ InsertPic \/ InsertPicFails
  <2>1. /\ rpc \notin {"check", "send", "store"}
        /\ UNCHANGED <<msgs, arrived, given, msg, gpc, gmsg>>
    BY <1>9 DEF Take, SendPicture, Newest, RotatePics, InsertPic, InsertPicFails
  <2> QED BY <2>1
<1>10. CASE MsgAnswered \/ MsgUnanswered
  <2>0. arrived' = arrived \/ arrived' = arrived \cup {gmsg.msg}
    BY <1>10 DEF MsgAnswered, MsgUnanswered, Arrive
  <2>1. arrived \subseteq arrived' /\ UNCHANGED <<msgs, given, msg, rpc>>
    BY <1>10, <2>0 DEF MsgAnswered, MsgUnanswered
  <2>2. gpc' = "pic" \/ (gpc' = "update" /\ gmsg' = gmsg /\ gmsg.msg \in arrived')
    BY <1>10 DEF MsgAnswered, MsgUnanswered, Arrive
  <2> QED BY <2>1, <2>2
<1>11. CASE MsgDelete
  <2>1. /\ gpc = "delete" /\ gpc' = "pic" /\ msgs' = msgs \ Delivered
        /\ UNCHANGED <<arrived, given, msg, rpc>>
    BY <1>11 DEF MsgDelete
  <2>2. gmsg \in msgs /\ \A m \in msgs : m.id \in Nat /\ m.msg \in Nat
    BY <2>1, RowFacts DEF TInv, Getting
  <2>3. ASSUME NEW m \in Delivered PROVE m.msg = gmsg.msg
    <3>1. m \in msgs /\ m.id = gmsg.id
      BY DEF Delivered
    <3>2. m.msg <= gmsg.msg /\ gmsg.msg <= m.msg
      BY <2>2, <3>1 DEF TInv, MsgOrder
    <3> QED BY <2>2, <3>1, <3>2
  <2> QED BY <2>1, <2>3
<1>12. CASE MsgSelect \/ MsgUpdate \/ PicSelect \/ PicSend \/ PicDelete
  <2>1. /\ UNCHANGED <<msgs, arrived, given, msg, rpc>>
        /\ gpc' \in {"update", "delete"} => gpc = "update" /\ gmsg' = gmsg
    BY <1>12 DEF MsgSelect, MsgUpdate, PicSelect, PicSend, PicDelete
  <2> QED BY <2>1
<1> QED
  BY <1>2, <1>3, <1>4, <1>5, <1>6, <1>7, <1>8, <1>9, <1>10, <1>11, <1>12,
     <1>13 DEF Next, RecordThread, RegetThread

(* No message is lost between tpzehin_record_pthread and the reget thread, *)
(* however often answers are lost and the device reboots: only a message   *)
(* in the record thread's hands at a reboot, one with retransmission off,  *)
(* and one whose INSERT failed in tpzehin_save_msg4reget are given up.     *)
THEOREM MessagesKept == Spec => []NoMessageLost
<1>1. Init => Account
  BY DEF Init, Account
<1>2. TInv /\ Account /\ [Next]_vars => Account'
  BY AccountNext
<1>3. Account => NoMessageLost
  BY DEF Account, Accounted, NoMessageLost
<1> QED BY <1>1, <1>2, <1>3, TypeInit, TypeNext, PTL DEF Spec

-----------------------------------------------------------------------------
(* With retransmission on, the record thread sends past an empty msgreget  *)
(* only.  While it stores pictures, the newest row of msgreget, if any, is *)
(* the one of its message, unless that was not stored.                     *)
Direct ==
  /\ retransmit /\ rpc \in {"send", "pic"} => msgs = {}
  /\ rpc = "pic" => recordId = msg
  /\ rpc \in {"newest", "rotate", "insert"} =>
        /\ recordId \in {0, msg}
        /\ recordId # 0 => retransmit /\ msgs = {}
        /\ msgs # {} /\ msg \notin unstored => \E m \in msgs : m.msg = msg

(* What waits in msgreget is not older than what arrived. *)
Order ==
  /\ last <= msg
  /\ retransmit => \A m \in msgs : last <= m.msg

(* The oldest row is the one of the oldest message. *)
LEMMA OldestMessage ==
  ASSUME TInv, gpc \in {"send", "update", "delete"}
  PROVE  /\ gmsg.msg \in Nat /\ gmsg.msg <= msg
         /\ gmsg \in msgs /\ \A m \in msgs : gmsg.msg <= m.msg
BY RowFacts DEF TInv, Getting, MsgOrder

LEMMA DirectNext ==
  ASSUME TInv, Direct, [Next]_vars
  PROVE  Direct'
<1> USE DEF Direct, bufVars, queueVars, netVars, tableVars, recVars, getVars,
            hisVars
<1>1. CASE UNCHANGED <<msg, recordId, retransmit, rpc, msgs, unstored>>
  BY <1>1
<1>2. CASE Notify \/ Post \/ Dispatch \/ LinkChange
  BY <1>1, <1>2, OutsideKeeps
<1>3. CASE UNCHANGED vars
  BY <1>1, <1>3 DEF vars
<1>4. CASE Restart
  BY <1>4 DEF Restart
<1>5. CASE Take \/ Lock
  BY <1>5 DEF Take, Lock
<1>6. CASE Check
  <2>1. /\ UNCHANGED <<retransmit, msgs>> /\ rpc' \in {"send", "store"}
        /\ rpc' = "send" => ~(retransmit /\ msgs # {})
    BY <1>6 DEF Check, MustStore
  <2> QED BY <2>1
<1>7. CASE Send
  <2>1. /\ UNCHANGED <<retransmit, msgs, msg>> /\ rpc = "send"
        /\ rpc' \in {"send", "store", "wait", "pic"}
        /\ rpc' = "pic" => recordId' = msg
    BY <1>7 DEF Send
  <2> QED BY <2>1
<1>8. CASE SendPicture
  <2>1. /\ UNCHANGED <<retransmit, msgs, msg, recordId>> /\ rpc = "pic"
        /\ rpc' \in {"pic", "wait"} \/ (rpc' = "newest" /\ retransmit)
    BY <1>8 DEF SendPicture, NextPicture
  <2> QED BY <2>1
<1>9. CASE Store
  <2>1. /\ msgs' = msgs \cup {NewRow} /\ NewRow.msg = msg /\ msg' = msg
        /\ rpc' = "newest" /\ recordId' = 0
    BY <1>9 DEF Store, NewRow
  <2> QED BY <2>1
<1>13. CASE StoreFails
  <2>1. /\ msg \in unstored' /\ msg' = msg /\ rpc' = "newest" /\ recordId' = 0
    BY <1>13 DEF StoreFails
  <2> QED BY <2>1
<1>10. CASE Newest \/ RotatePics \/ InsertPic \/ InsertPicFails
  <2>1. /\ UNCHANGED <<retransmit, msgs, msg, recordId, unstored>>
        /\ rpc \in {"newest", "rotate", "insert"}
        /\ \/ rpc' \in {"wait", "newest", "rotate", "insert"}
           \/ rpc' = "pic" /\ recordId # 0
    BY <1>10 DEF Newest, RotatePics, InsertPic, InsertPicFails, NextPicture, BackTo
  <2> QED BY <2>1
<1>11. CASE MsgDelete
  <2>1. /\ msgs' = msgs \ Delivered /\ gpc = "delete"
        /\ UNCHANGED <<retransmit, msg, recordId, rpc, unstored>>
    BY <1>11 DEF MsgDelete
  <2>2. /\ \A m \in msgs : gmsg.id <= m.id
        /\ \A m \in msgs : m.id \in Nat /\ m.msg \in Nat /\ m.msg <= msg
        /\ \A m, n \in msgs : m.msg <= n.msg => m.id <= n.id
        /\ gmsg \in msgs
    BY <2>1, RowFacts DEF TInv, Getting, MsgOrder
  <2>3. ASSUME NEW m \in msgs, m.msg = msg, m \in Delivered
        PROVE  msgs' = {}
    <3>1. ASSUME NEW n \in msgs PROVE n.id = gmsg.id
      <4>1. gmsg.id <= n.id /\ n.id <= m.id /\ m.id = gmsg.id
        BY <2>2, <2>3 DEF Delivered
      <4> QED BY <2>2, <4>1
    <3> QED BY <2>1, <3>1 DEF Delivered
  <2>4. (\E m \in msgs : m.msg = msg) =>
          msgs' = {} \/ \E m \in msgs' : m.msg = msg
    BY <2>1, <2>3
  <2> QED BY <2>1, <2>4
<1>12. CASE RegetThread /\ ~MsgDelete
  <2>1. msgs' = msgs
    BY <1>12 DEF RegetThread, MsgSelect, MsgAnswered, MsgUnanswered, MsgUpdate,
       PicSelect, PicSend, PicDelete
  <2> QED BY <1>1, <1>12, <2>1, RegetKeeps
<1> QED
  BY <1>2, <1>3, <1>4, <1>5, <1>6, <1>7, <1>8, <1>9, <1>10, <1>11, <1>12,
     <1>13 DEF Next, RecordThread

LEMMA OrderNext ==
  ASSUME TInv, Direct, Order, [Next]_vars
  PROVE  Order' /\ last' >= last
<1> USE DEF Order, bufVars, queueVars, netVars, tableVars, recVars, getVars,
            hisVars
<1>0. /\ msg \in Nat /\ last \in Nat
      /\ \A m \in msgs : m.id \in Nat /\ m.msg \in Nat
      /\ last >= last
  BY NumFacts, RowFacts DEF TInv
<1>1. CASE UNCHANGED <<msg, last, retransmit>> /\ msgs' \subseteq msgs
  BY <1>0, <1>1
<1>2. CASE Notify \/ Post \/ Dispatch \/ LinkChange
  BY <1>1, <1>2, OutsideKeeps
<1>3. CASE UNCHANGED vars
  BY <1>1, <1>3 DEF vars
<1>4. CASE Restart
  BY <1>1, <1>4 DEF Restart
<1>5. CASE Lock
  <2>1. msg' = msg + 1 /\ UNCHANGED <<last, retransmit, msgs>>
    BY <1>5 DEF Lock
  <2>2. last' <= msg'
    BY <1>0, <2>1
  <2> QED BY <1>0, <2>1, <2>2
<1>6. CASE Take \/ Check \/ SendPicture \/ StoreFails \/ Newest \/ RotatePics
           \/ InsertPic \/ InsertPicFails
  <2>1. UNCHANGED <<msg, last, retransmit, msgs>>
    BY <1>6 DEF Take, Check, SendPicture, StoreFails, Newest, RotatePics,
       InsertPic, InsertPicFails
  <2> QED BY <1>1, <2>1
<1>7. CASE Send
  <2>1. /\ last' = last \/ last' = msg
        /\ UNCHANGED <<msg, retransmit, msgs>> /\ rpc = "send"
    BY <1>7 DEF Send, Arrive
  <2>2. retransmit => msgs = {}
    BY <2>1 DEF Direct
  <2> QED BY <1>0, <2>1, <2>2
<1>8. CASE Store
  <2>1. /\ msgs' = msgs \cup {NewRow} /\ NewRow.msg = msg
        /\ UNCHANGED <<msg, last, retransmit>>
    BY <1>8 DEF Store, NewRow
  <2> QED BY <1>0, <2>1
<1>9. CASE MsgAnswered \/ MsgUnanswered
  <2>1. /\ last' = last \/ last' = gmsg.msg
        /\ UNCHANGED <<msg, retransmit, msgs, rpc>> /\ gpc = "send"
    BY <1>9 DEF MsgAnswered, MsgUnanswered, Arrive
  <2>2. /\ gmsg.msg \in Nat /\ gmsg.msg <= msg
        /\ gmsg \in msgs /\ \A m \in msgs : gmsg.msg <= m.msg
    BY <2>1, OldestMessage
  <2>3. retransmit
    BY <2>1 DEF TInv, Getting
  <2> QED BY <1>0, <2>1, <2>2, <2>3
<1>10. CASE MsgSelect \/ MsgUpdate \/ MsgDelete \/ PicSelect \/ PicSend
            \/ PicDelete
  <2>1. UNCHANGED <<msg, last, retransmit, rpc>> /\ msgs' \subseteq msgs
    BY <1>10 DEF MsgSelect, MsgUpdate, MsgDelete, PicSelect, PicSend, PicDelete
  <2> QED BY <1>1, <2>1
<1> QED
  BY <1>2, <1>3, <1>4, <1>5, <1>6, <1>7, <1>8, <1>9, <1>9, <1>10
     DEF Next, RecordThread, RegetThread

(* The platform gets the messages in the order of their construction from  *)
(* two threads, across lost answers, reboots and the deletion of rows.     *)
THEOREM ArrivalsInOrder == Spec => MessagesInOrder
<1> DEFINE IInv == TInv /\ Direct /\ Order
<1>1. Init => IInv
  BY TypeInit DEF Init, Direct, Order
<1>2. IInv /\ [Next]_vars => IInv'
  BY TypeNext, DirectNext, OrderNext
<1>3. IInv /\ [Next]_vars => [last' >= last]_vars
  BY OrderNext
<1> QED BY <1>1, <1>2, <1>3, PTL DEF Spec, MessagesInOrder

-----------------------------------------------------------------------------
(* The row that tpzehin_save_picture4reget adds. *)
NewPic == [id |-> NextId(pics), of |-> msg, serial |-> serial, tab |-> tab,
           rec |-> recordId]

LEMMA NewPicFacts ==
  ASSUME TypeOK, Finite
  PROVE  NewPic.id \in Nat /\ \A p \in pics : p.id \in Nat /\ p.id < NewPic.id
<1>1. /\ MaxId(pics) \in Nat /\ \A p \in pics : p.id <= MaxId(pics)
      /\ \A p \in pics : p.id \in Nat
  BY RowFacts, MaxIdFacts
<1>2. NewPic.id = MaxId(pics) + 1
  BY DEF NewPic, NextId
<1> QED BY <1>1, <1>2

(* The steps of picreget: what is left, changed or added. *)
LEMMA PicsSteps ==
  ASSUME [Next]_vars
  PROVE  \/ pics' = pics
         \/ RotatePics /\ pics' = Rotated(pics)
         \/ InsertPic /\ pics' = pics \cup {NewPic}
         \/ MsgUpdate /\ pics' = {Updated(p) : p \in pics}
         \/ PicDelete /\ pics' = {p \in pics : p.id # gpic.id}
<1> USE DEF tableVars
<1>1. CASE Notify \/ Post \/ Dispatch \/ LinkChange
  BY <1>1, OutsideKeeps
<1>2. CASE UNCHANGED vars \/ Restart
  BY <1>2 DEF vars, Restart
<1>3. CASE RecordThread
  BY <1>3 DEF RecordThread, Take, Lock, Check, Send, SendPicture, Store, StoreFails, Newest,
     RotatePics, InsertPic, InsertPicFails, NewPic
<1>4. CASE RegetThread
  BY <1>4 DEF RegetThread, MsgSelect, MsgAnswered, MsgUnanswered, MsgUpdate,
     MsgDelete, PicSelect, PicSend, PicDelete, Updated
<1> QED BY <1>1, <1>2, <1>3, <1>4 DEF Next

PicLimit == IF Rotate = 0 THEN 1 ELSE Rotate

(* Rotation leaves room for one row. *)
Room ==
  /\ Cardinality(pics) <= PicLimit
  /\ rpc = "insert" => Cardinality(pics) < PicLimit

LEMMA RotatedFacts ==
  ASSUME TypeOK, Finite, pics # {}
  PROVE  /\ First(pics) \in pics
         /\ \A p \in pics : First(pics).id <= p.id
         /\ Cardinality(pics) \in Nat /\ Cardinality(pics) > 0
         /\ IsFiniteSet(pics \ {First(pics)})
         /\ Cardinality(pics \ {First(pics)}) = Cardinality(pics) - 1
<1>1. First(pics) \in pics /\ \A p \in pics : First(pics).id <= p.id
  BY RowFacts, FirstFacts
<1>2. Cardinality(pics) \in Nat /\ Cardinality(pics) # 0
  BY FS_CardinalityType, FS_EmptySet DEF Finite
<1>3. /\ IsFiniteSet(pics \ {First(pics)})
      /\ Cardinality(pics \ {First(pics)}) = Cardinality(pics) - 1
  BY <1>1, FS_RemoveElement DEF Finite
<1> QED BY <1>1, <1>2, <1>3

LEMMA RoomNext ==
  ASSUME TInv, Room, [Next]_vars
  PROVE  Room'
<1> DEFINE n == Cardinality(pics)
<1>0. /\ n \in Nat /\ PicLimit \in Nat /\ PicLimit >= 1 /\ PicLimit >= Rotate
      /\ Rotate \in Nat /\ PicLimit' = PicLimit
  BY ConstFacts, FS_CardinalityType DEF TInv, Finite, PicLimit
<1>1. CASE RotatePics
  <2>1. CASE pics # {} /\ n >= Rotate
    <3>1. Cardinality(pics') = n - 1 /\ n > 0
      BY <1>1, <2>1, RotatedFacts DEF TInv, RotatePics, Rotated
    <3> QED BY <1>0, <3>1 DEF Room
  <2>2. CASE pics = {}
    <3>1. pics' = {}
      BY <1>1, <2>2 DEF RotatePics, Rotated
    <3>2. Cardinality(pics') = 0
      BY <3>1, FS_EmptySet
    <3> QED BY <1>0, <3>2 DEF Room
  <2>3. CASE pics # {} /\ ~(n >= Rotate)
    <3>1. pics' = pics
      BY <1>1, <2>3 DEF RotatePics, Rotated
    <3> QED BY <1>0, <2>3, <3>1 DEF Room
  <2> QED BY <2>1, <2>2, <2>3
<1>2. CASE InsertPic
  <2>1. pics' = pics \cup {NewPic} /\ n < PicLimit
    BY <1>2 DEF InsertPic, NewPic, Room
  <2>2. Cardinality(pics') \in {n, n + 1}
    BY <2>1, FS_AddElement DEF TInv, Finite
  <2>3. rpc' # "insert"
    BY <1>2 DEF InsertPic, NextPicture, BackTo
  <2> QED BY <1>0, <2>1, <2>2, <2>3 DEF Room
<1>3. ASSUME ~RotatePics, ~InsertPic PROVE Room'
  <2>1. rpc' = "insert" => rpc = "insert"
    <3>1. CASE Notify \/ Post \/ Dispatch \/ LinkChange
      BY <3>1, OutsideKeeps
    <3>2. CASE UNCHANGED vars \/ Restart
      BY <3>2 DEF vars, Restart
    <3>3. CASE RecordThread
      BY <1>3, <3>3 DEF RecordThread, Take, Lock, Check, Send, SendPicture,
         Store, StoreFails, Newest, InsertPicFails, NextPicture, BackTo
    <3>4. CASE RegetThread
      BY <3>4, RegetKeeps
    <3> QED BY <3>1, <3>2, <3>3, <3>4 DEF Next
  <2>2. Cardinality(pics') <= n /\ Cardinality(pics') \in Nat
    <3>1. CASE pics' = pics
      BY <1>0, <3>1
    <3>2. CASE MsgUpdate /\ pics' = {Updated(p) : p \in pics}
      BY <3>2, UpdatedFacts, GettingRow, FS_CardinalityType DEF TInv, MsgUpdate
    <3>3. CASE PicDelete /\ pics' = {p \in pics : p.id # gpic.id}
      <4>1. pics' \in SUBSET pics
        BY <3>3
      <4> QED BY <4>1, FS_Subset, FS_CardinalityType DEF TInv, Finite
    <3> QED BY <1>3, <3>1, <3>2, <3>3, PicsSteps
  <2> QED BY <1>0, <2>1, <2>2 DEF Room
<1> QED BY <1>1, <1>2, <1>3

(* picreget never holds more than rotate_count pictures (one, if that is   *)
(* 0), for every rotate_count, though both threads change it.              *)
THEOREM PicturesStayBounded == Spec => []PicturesBounded
<1>1. Init => Room
  BY ConstFacts, FS_EmptySet DEF Init, Room, PicLimit
<1>2. TInv /\ Room /\ [Next]_vars => Room'
  BY RoomNext
<1>3. Room => PicturesBounded
  BY DEF Room, PicturesBounded, PicLimit
<1> QED BY <1>1, <1>2, <1>3, TypeInit, TypeNext, PTL DEF Spec

-----------------------------------------------------------------------------
(* As long as no id of msgreget is given out that waiting pictures name: a *)
(* picture is named by the row of its own message or by none, also the one *)
(* that is being inserted, and has its own record id or none, unless its   *)
(* message was not stored.                                                 *)
Filed ==
  /\ \A p \in pics : p.of \notin unstored =>
        p.rec \in {0, p.of} /\ \A m \in msgs : m.id = p.tab => m.msg = p.of
  /\ rpc \in {"rotate", "insert"} /\ msg \notin unstored =>
        \A m \in msgs : m.id = tab => m.msg = msg
  /\ gpc = "psend" /\ gpic.of \notin unstored => gpic.rec = gpic.of
  /\ ~misfiled

(* The newest row of msgreget is the row of the message whose pictures are *)
(* stored, if it has one.                                                  *)
LEMMA NewestIsOwn ==
  ASSUME TInv, Direct, rpc = "newest", msg \notin unstored,
         NEW m \in msgs, m.id = MaxId(msgs)
  PROVE  m.msg = msg
<1>1. PICK own \in msgs : own.msg = msg
  BY DEF Direct
<1>2. own.id <= m.id
  BY RowFacts, MaxIdFacts DEF TInv
<1>3. own.msg <= m.msg /\ m.msg <= msg
  BY <1>2 DEF TInv, MsgOrder
<1> QED BY <1>1, <1>3, RowFacts, NumFacts DEF TInv

LEMMA FiledNext ==
  ASSUME TInv, Direct, Filed, [Next]_vars, ~reused'
  PROVE  Filed'
<1> USE DEF Filed, tableVars, recVars, getVars, hisVars
<1>1. CASE /\ pics' \subseteq pics /\ msgs' \subseteq msgs
           /\ UNCHANGED misfiled /\ unstored \subseteq unstored'
           /\ gpc' = "psend" => gpc = "psend" /\ gpic' = gpic
           /\ \/ UNCHANGED <<rpc, tab, msg>>
              \/ rpc' \notin {"rotate", "insert"}
  BY <1>1
<1>2. CASE Notify \/ Post \/ Dispatch \/ LinkChange
  BY <1>1, <1>2, OutsideKeeps
<1>3. CASE UNCHANGED vars
  BY <1>1, <1>3 DEF vars
<1>4. CASE Restart
  BY <1>4 DEF Restart
<1>5. CASE Take \/ Lock \/ Check \/ Send \/ SendPicture \/ StoreFails
           \/ InsertPicFails
  <2>1. UNCHANGED <<pics, msgs, gpic, misfiled, gpc>> /\ unstored \subseteq unstored'
    BY <1>5 DEF Take, Lock, Check, Send, SendPicture, StoreFails, InsertPicFails
  <2>2. rpc' \notin {"rotate", "insert"}
    BY <1>5 DEF Take, Lock, Check, Send, SendPicture, StoreFails,
       InsertPicFails, NextPicture, BackTo
  <2> QED BY <1>1, <2>1, <2>2
<1>6. CASE Store
  <2>1. /\ msgs' = msgs \cup {NewRow} /\ NewRow.id = NextId(msgs)
        /\ UNCHANGED <<pics, gpic, misfiled, gpc, unstored>> /\ rpc' = "newest"
        /\ \A p \in pics : p.tab # NextId(msgs)
    BY <1>6 DEF Store, NewRow
  <2> QED BY <2>1
<1>7. CASE Newest
  <2>1. /\ UNCHANGED <<pics, msgs, gpic, misfiled, gpc, msg, unstored>>
        /\ tab' = MaxId(msgs) /\ rpc = "newest" /\ rpc' # "insert"
    BY <1>7 DEF Newest, NewestRow, NextPicture, BackTo
  <2>2. msg \notin unstored => \A m \in msgs : m.id = tab' => m.msg = msg
    BY <2>1, NewestIsOwn
  <2> QED BY <2>1, <2>2
<1>8. CASE RotatePics
  <2>1. pics' \subseteq pics /\ UNCHANGED <<msgs, gpic, misfiled, gpc, tab, msg>>
        /\ rpc = "rotate" /\ unstored' = unstored
    BY <1>8 DEF RotatePics, Rotated
  <2> QED BY <2>1
<1>9. CASE InsertPic
  <2>1. /\ pics' = pics \cup {NewPic} /\ NewPic.of = msg
        /\ NewPic.tab = tab /\ NewPic.rec = recordId /\ rpc = "insert"
        /\ UNCHANGED <<msgs, gpic, misfiled, gpc, unstored>>
    BY <1>9 DEF InsertPic, NewPic
  <2>2. rpc' \notin {"rotate", "insert"}
    BY <1>9 DEF InsertPic, NextPicture, BackTo
  <2>3. recordId \in {0, msg}
    BY <2>1 DEF Direct
  <2> QED BY <2>1, <2>2, <2>3
<1>10. CASE MsgSelect \/ MsgAnswered \/ MsgUnanswered
  BY <1>10 DEF MsgSelect, MsgAnswered, MsgUnanswered
<1>11. CASE MsgUpdate
  <2>1. /\ pics' = {Updated(p) : p \in pics} /\ gpc = "update"
        /\ UNCHANGED <<msgs, gpic, misfiled, rpc, tab, msg, unstored>> /\ gpc' = "delete"
    BY <1>11 DEF MsgUpdate, Updated
  <2>2. gmsg \in msgs /\ gmsg \in MsgRow
    BY <2>1, GettingRow DEF TInv, Getting
  <2>3. ASSUME NEW p \in pics, Updated(p).of \notin unstored
        PROVE  /\ Updated(p).rec \in {0, Updated(p).of}
               /\ \A m \in msgs : m.id = Updated(p).tab => m.msg = Updated(p).of
    <3>1. /\ Updated(p).of = p.of /\ Updated(p).tab = p.tab
          /\ Updated(p).rec = IF p.tab = gmsg.id THEN gmsg.msg ELSE p.rec
      BY <2>2, UpdatedFacts DEF TInv
    <3> QED BY <2>2, <2>3, <3>1
  <2> QED BY <2>1, <2>3
<1>12. CASE MsgDelete \/ PicDelete
  BY <1>1, <1>12 DEF MsgDelete, PicDelete
<1>13. CASE PicSelect
  <2> DEFINE ready == {p \in pics : p.rec > 0}
  <2>1. ready # {} => First(ready) \in ready
    BY RowFacts, FirstFacts DEF TInv
  <2>2. \A p \in ready : p.of \notin unstored => p.rec = p.of
    OBVIOUS
  <2> QED BY <1>13, <2>1, <2>2 DEF PicSelect
<1>14. CASE PicSend
  <2>1. gpc = "psend" /\ UNCHANGED <<pics, msgs, rpc, tab, msg, unstored>>
        /\ gpc' \in {"pdelete", "msg"}
    BY <1>14 DEF PicSend
  <2>2. ~misfiled'
    BY <1>14 DEF PicSend
  <2> QED BY <2>1, <2>2
<1> QED
  BY <1>2, <1>3, <1>4, <1>5, <1>6, <1>7, <1>8, <1>9, <1>10, <1>11, <1>12,
     <1>13, <1>14 DEF Next, RecordThread, RegetThread

LEMMA ReusedStays == [Next]_vars => (reused => reused')
<1> SUFFICES ASSUME [Next]_vars, reused PROVE reused'
  OBVIOUS
<1>1. CASE Store
  BY <1>1 DEF Store
<1>2. ASSUME ~Store PROVE reused' = reused
  BY <1>2, OutsideKeeps, RegetKeeps DEF Next, vars, hisVars, Restart,
     RecordThread, Take, Lock, Check, Send, SendPicture, StoreFails, Newest,
     RotatePics,
     InsertPic, InsertPicFails
<1> QED BY <1>1, <1>2

(* tpzehin_save_picture4reget takes the newest row of msgreget for the row *)
(* of its message, with the reget thread deleting rows in between: still,  *)
(* no picture of a message that has a row is announced for another record, *)
(* unless an id of msgreget was used again.                                *)
THEOREM PicturesFiledRight == Spec => []PictureOfItsRecord
<1> DEFINE IInv == TInv /\ Direct /\ (reused \/ Filed)
<1>1. Init => IInv
  BY TypeInit DEF Init, Direct, Filed
<1>2. IInv /\ [Next]_vars => IInv'
  BY TypeNext, DirectNext, FiledNext, ReusedStays
<1>3. IInv => PictureOfItsRecord
  BY DEF Filed, PictureOfItsRecord
<1> QED BY <1>1, <1>2, <1>3, PTL DEF Spec

-----------------------------------------------------------------------------
(* Ids in picreget are unique.  While the reget thread is at a picture, a  *)
(* row with its id or a larger one stays, so that the next id, one above   *)
(* the largest, is another one.                                            *)
PicIds == \A p, q \in pics : p.id = q.id => p = q

OwnPic ==
  Rotate >= 2 /\ gpc \in {"psend", "pdelete"} =>
     /\ \E p \in pics : p.id >= gpic.id
     /\ \A p \in pics : p.id = gpic.id =>
           p.of = gpic.of /\ p.serial = gpic.serial

LEMMA PicIdsNext ==
  ASSUME TInv, PicIds, [Next]_vars
  PROVE  PicIds'
<1> USE DEF PicIds
<1>1. CASE pics' \subseteq pics
  BY <1>1
<1>2. CASE RotatePics /\ pics' = Rotated(pics)
  BY <1>1, <1>2 DEF Rotated
<1>3. CASE InsertPic /\ pics' = pics \cup {NewPic}
  <2>1. NewPic.id \in Nat /\ \A p \in pics : p.id \in Nat /\ p.id < NewPic.id
    BY NewPicFacts DEF TInv
  <2>2. \A p \in pics : p.id # NewPic.id
    BY <2>1
  <2> QED BY <1>3, <2>2
<1>4. CASE MsgUpdate /\ pics' = {Updated(p) : p \in pics}
  <2>1. \A p \in pics : Updated(p).id = p.id
    BY <1>4, UpdatedFacts, GettingRow DEF TInv, MsgUpdate
  <2> QED BY <1>4, <2>1
<1>5. CASE PicDelete /\ pics' = {p \in pics : p.id # gpic.id}
  BY <1>1, <1>5
<1> QED BY <1>1, <1>2, <1>3, <1>4, <1>5, PicsSteps

(* gpic changes only when the reget thread selects. *)
LEMMA GpicSteps ==
  ASSUME [Next]_vars, gpc' \in {"psend", "pdelete"}, ~PicSelect
  PROVE  gpc \in {"psend", "pdelete"} /\ gpic' = gpic /\ ~PicDelete
<1> USE DEF getVars
<1>1. CASE Notify \/ Post \/ Dispatch \/ LinkChange
  BY <1>1, OutsideKeeps DEF Notify, Post, Dispatch, LinkChange, PicDelete
<1>2. CASE UNCHANGED vars \/ Restart
  BY <1>2 DEF vars, Restart, PicDelete
<1>3. CASE RecordThread
  BY <1>3, RecordKeeps DEF PicDelete
<1>4. CASE RegetThread
  BY <1>4 DEF RegetThread, MsgSelect, MsgAnswered, MsgUnanswered, MsgUpdate,
     MsgDelete, PicSend, PicDelete
<1> QED BY <1>1, <1>2, <1>3, <1>4 DEF Next

LEMMA OwnPicNext ==
  ASSUME TInv, PicIds, OwnPic, [Next]_vars
  PROVE  OwnPic'
<1> SUFFICES ASSUME Rotate >= 2, gpc' \in {"psend", "pdelete"}
             PROVE  /\ \E p \in pics' : p.id >= gpic'.id
                    /\ \A p \in pics' : p.id = gpic'.id =>
                          p.of = gpic'.of /\ p.serial = gpic'.serial
  BY DEF OwnPic
<1>1. CASE PicSelect
  <2> DEFINE ready == {p \in pics : p.rec > 0}
  <2>1. ready # {} /\ gpic' = First(ready) /\ pics' = pics
    BY <1>1 DEF PicSelect, tableVars
  <2>2. First(ready) \in ready /\ First(ready).id \in Nat
    BY <2>1, RowFacts, FirstFacts DEF TInv
  <2>3. gpic' \in pics /\ gpic'.id >= gpic'.id
    <3> HIDE DEF ready
    <3>1. First(ready).id >= First(ready).id
      BY <2>2
    <3> QED BY <2>1, <2>2, <3>1 DEF ready
  <2> QED BY <2>1, <2>3 DEF PicIds
<1>2. CASE ~PicSelect
  <2>1. gpc \in {"psend", "pdelete"} /\ gpic' = gpic /\ ~PicDelete
    BY <1>2, GpicSteps
  <2>2. /\ \E p \in pics : p.id >= gpic.id
        /\ \A p \in pics : p.id = gpic.id =>
              p.of = gpic.of /\ p.serial = gpic.serial
    BY <2>1 DEF OwnPic
  <2>3. gpic.id \in Nat /\ \A p \in pics : p.id \in Nat
    <3>1. gpic \in PicRow \/ gpic = NoPic
      BY DEF TInv, TypeOK
    <3>2. gpic.id \in Nat
      BY <3>1 DEF PicRow, NoPic
    <3> QED BY <3>2, RowFacts DEF TInv
  <2>4. CASE pics' = pics
    BY <2>1, <2>2, <2>4
  <2>5. CASE RotatePics /\ pics' = Rotated(pics)
    <3>1. \E p \in pics' : p.id >= gpic.id
      <4>1. CASE pics # {} /\ Cardinality(pics) >= Rotate
        <5>1. pics' = pics \ {First(pics)}
          BY <2>5, <4>1 DEF Rotated
        <5>2. /\ First(pics) \in pics
              /\ \A p \in pics : First(pics).id <= p.id
              /\ Cardinality(pics) \in Nat /\ IsFiniteSet(pics')
              /\ Cardinality(pics') = Cardinality(pics) - 1
          BY <4>1, <5>1, RotatedFacts DEF TInv
        <5>3. Cardinality(pics') > 0
          BY <4>1, <5>2, ConstFacts
        <5>4. PICK q \in pics' : TRUE
          <6>1. pics' # {}
            BY <5>3, FS_EmptySet
          <6> QED BY <6>1
        <5>5. PICK p \in pics : p.id >= gpic.id
          BY <2>2
        <5>6. CASE p # First(pics)
          BY <5>1, <5>5, <5>6
        <5>7. CASE p = First(pics)
          <6>1. p.id <= q.id /\ q \in pics
            BY <5>1, <5>2, <5>4, <5>7
          <6>2. q.id >= gpic.id
            BY <2>3, <5>5, <6>1
          <6> QED BY <5>4, <6>2
        <5> QED BY <5>6, <5>7
      <4>2. CASE ~(pics # {} /\ Cardinality(pics) >= Rotate)
        BY <2>2, <2>5, <4>2 DEF Rotated
      <4> QED BY <4>1, <4>2
    <3>2. pics' \subseteq pics
      BY <2>5 DEF Rotated
    <3> QED BY <2>1, <2>2, <3>1, <3>2
  <2>6. CASE InsertPic /\ pics' = pics \cup {NewPic}
    <3>1. NewPic.id \in Nat /\ \A p \in pics : p.id < NewPic.id
      BY NewPicFacts DEF TInv
    <3>2. NewPic.id # gpic.id
      BY <2>2, <2>3, <3>1
    <3> QED BY <2>1, <2>2, <2>6, <3>2
  <2>7. CASE MsgUpdate /\ pics' = {Updated(p) : p \in pics}
    BY <2>1, <2>7 DEF MsgUpdate
  <2> QED BY <2>1, <2>4, <2>5, <2>6, <2>7, PicsSteps
<1> QED BY <1>1, <1>2

LEMMA PicturesLeave ==
  ASSUME TInv, PicIds, OwnPic, [Next]_vars, Rotate >= 2, NEW p \in pics
  PROVE  \/ \E q \in pics' : q.of = p.of /\ q.serial = p.serial
         \/ rpc = "rotate" /\ p = First(pics)
         \/ p.of = gpic.of /\ p.serial = gpic.serial
<1>1. CASE pics' = pics \/ (InsertPic /\ pics' = pics \cup {NewPic})
  BY <1>1
<1>2. CASE RotatePics /\ pics' = Rotated(pics)
  <2>1. rpc = "rotate" /\ (p \in pics' \/ p = First(pics))
    BY <1>2 DEF RotatePics, Rotated
  <2> QED BY <2>1
<1>3. CASE MsgUpdate /\ pics' = {Updated(q) : q \in pics}
  <2>1. Updated(p).of = p.of /\ Updated(p).serial = p.serial
    BY <1>3, UpdatedFacts, GettingRow DEF TInv, MsgUpdate
  <2>2. Updated(p) \in pics'
    BY <1>3
  <2> QED BY <2>1, <2>2
<1>4. CASE PicDelete /\ pics' = {q \in pics : q.id # gpic.id}
  <2>1. gpc = "pdelete"
    BY <1>4 DEF PicDelete
  <2>2. CASE p.id = gpic.id
    BY <2>1, <2>2 DEF OwnPic
  <2>3. CASE p.id # gpic.id
    BY <1>4, <2>3
  <2> QED BY <2>2, <2>3
<1> QED BY <1>1, <1>2, <1>3, <1>4, PicsSteps

(* With room for at least two pictures, a waiting picture leaves picreget  *)
(* only as the oldest one or as the one that was sent: tpzehin_pic_reget   *)
(* deletes by an id that the record thread cannot have given out again.    *)
THEOREM PicturesLeaveInTurn == Spec => PictureLeaves
<1> DEFINE IInv == TInv /\ PicIds /\ OwnPic
           Step == Rotate >= 2 =>
             \A p \in pics :
               \/ \E q \in pics' : q.of = p.of /\ q.serial = p.serial
               \/ rpc = "rotate" /\ p = First(pics)
               \/ p.of = gpic.of /\ p.serial = gpic.serial
<1>1. Init => IInv
  BY TypeInit DEF Init, PicIds, OwnPic
<1>2. IInv /\ [Next]_vars => IInv'
  BY TypeNext, PicIdsNext, OwnPicNext
<1>3. IInv /\ [Next]_vars => [Step]_vars
  BY PicturesLeave
<1> QED BY <1>1, <1>2, <1>3, PTL DEF Spec, PictureLeaves
=============================================================================
