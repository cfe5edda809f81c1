------------------------- MODULE BitcomOutboxProofs -------------------------
(* The refinement of BitcomOutbox, proved: every table of BitcomResend     *)
(* implements an Outbox, for all values of the constants.                  *)
EXTENDS BitcomOutbox, BitcomResendProofs

(* What is true of every state of a run without faults. *)
RunInv == TypeOK /\ Locked /\ Future /\ Orderly

(* The delivered records, as the mapping has them. *)
Done == {r \in Rec : arrived[Watched][r] > 0}

(* The instance's Cardinality is the one of FiniteSets. *)
LEMMA SameCardinality == \A S : Box!Cardinality(S) = Cardinality(S)
BY Zenon DEF Box!Cardinality, Cardinality

LEMMA DoneGrows ==
  ASSUME TypeOK, NEW r \in Rec, NEW c, Arrive(Watched, r, c)
  PROVE  Done' = Done \cup {r}
<1> USE WatchedAssumption DEF TypeOK
<1>1. ASSUME NEW q \in Rec
      PROVE  arrived'[Watched][q] > 0 <=> arrived[Watched][q] > 0 \/ q = r
  <2>1. CASE q = r
    <3>1. arrived'[Watched][q] = More(arrived[Watched][q])
      BY <2>1 DEF Arrive
    <3>2. arrived[Watched][q] \in Count
      OBVIOUS
    <3> QED BY <2>1, <3>1, <3>2, CountFacts
  <2>2. CASE q # r
    BY <2>2 DEF Arrive
  <2> QED BY <2>1, <2>2
<1> QED BY <1>1 DEF Done

(* Outside put's writing and the thread's sending, a table holds its rows. *)
LEMMA HeldIsTable ==
  ASSUME putPc[Watched] # "write", thrPc[Watched] # "send"
  PROVE  Held = table[Watched]
BY DEF Held

LEMMA HeldWhileSending ==
  ASSUME putPc[Watched] # "write", thrPc[Watched] = "send"
  PROVE  Held = table[Watched] \cup {thrRec[Watched]}
BY DEF Held

LEMMA HeldWhileWriting ==
  ASSUME putPc[Watched] = "write", thrPc[Watched] # "send"
  PROVE  Held = table[Watched] \ {putRec[Watched]}
BY DEF Held

(* A step that changes nothing of the table is no step of the outbox. *)
LEMMA SameBox ==
  ASSUME SameTable(Watched), arrived'[Watched] = arrived[Watched],
         next'[Watched] = next[Watched], nr' = nr
  PROVE  UNCHANGED Box!vars
BY DEF SameTable, Box!vars, Held, Torn, HasPic

LEMMA OutboxInit == Init => Box!Init
<1> SUFFICES ASSUME Init PROVE Box!Init
  OBVIOUS
<1> USE WatchedAssumption DEF Init
<1>1. Held = {} /\ Torn = {}
  BY DEF Held, Torn
<1>2. next[Watched] - 1 = 0 /\ putRec[Watched] = 0
  OBVIOUS
<1>3. {r \in Rec : arrived[Watched][r] > 0} = {}
  OBVIOUS
<1> QED BY <1>1, <1>2, <1>3 DEF Box!Init, Limit

(* Who else is in the table at each step of put and of the thread. *)
LEMMA WatchedFacts ==
  ASSUME RunInv
  PROVE  /\ LockedIn(Watched) /\ FutureIn(Watched) /\ OrderlyIn(Watched)
         /\ table[Watched] \in SUBSET Rec
         /\ next[Watched] \in Nat /\ nr \in Nat
BY WatchedAssumption, NumberFacts, LimitFacts
   DEF RunInv, Locked, Future, Orderly, TypeOK

-----------------------------------------------------------------------------
LEMMA SendNewOffers ==
  ASSUME RunInv, SendNew(Watched)
  PROVE  Box!Next
<1> USE WatchedAssumption DEF RunInv, TypeOK, putVars, thrVars, srvVars
<1>1. LockedIn(Watched) /\ OrderlyIn(Watched) /\ next[Watched] \in Nat
  BY WatchedFacts
<1>2. putRec[Watched] = 0 /\ next[Watched] \in Rec
  BY <1>1, RecFacts DEF SendNew, LockedIn
<1>3. /\ next'[Watched] - 1 = next[Watched] - 1 + 1
      /\ next'[Watched] - 1 = next[Watched]
  <2>1. next'[Watched] = next[Watched] + 1
    BY DEF SendNew
  <2>2. \A n \in Nat : (n + 1) - 1 = n - 1 + 1 /\ (n + 1) - 1 = n
    OBVIOUS
  <2> QED BY <1>1, <2>1, <2>2, Zenon
<1>4. UNCHANGED <<nr, Held, Torn>>
  BY DEF SendNew, Held, Torn, HasPic
<1>5. CASE link[Watched] = "down"
  <2>1. putRec'[Watched] = next[Watched] /\ arrived' = arrived
    BY <1>5 DEF SendNew
  <2>2. Box!Offer
    BY <1>2, <1>3, <1>4, <2>1 DEF Box!Offer
  <2> QED BY <2>2 DEF Box!Next
<1>6. CASE link[Watched] = "up"
  <2>1. arrived' = [arrived EXCEPT ![Watched][next[Watched]] = More(@)]
        /\ UNCHANGED putRec
    BY <1>6 DEF SendNew, Arrive
  <2>2. Done' = Done \cup {next[Watched]}
    BY <1>2, <1>6, DoneGrows DEF SendNew
  <2>3. Box!Offer
    BY <1>2, <1>3, <1>4, <2>1, <2>2 DEF Box!Offer, Done
  <2> QED BY <2>3 DEF Box!Next
<1> QED BY <1>1, <1>5, <1>6 DEF OrderlyIn

(* del_redundant takes nothing, or the oldest rows and leaves nr - 1.      *)
LEMMA PutEvictEvicts ==
  ASSUME DbMayFail = FALSE, RunInv, PutEvict(Watched)
  PROVE  [Box!Next]_(Box!vars)
<1> DEFINE gone == Redundant(Watched)
<1> USE WatchedAssumption DEF RunInv, TypeOK, putVars, thrVars, srvVars
<1>1. /\ thrPc[Watched] = "sleep" /\ putRec[Watched] # 0
      /\ putPc[Watched] = "evict" /\ putPc'[Watched] = "remove"
  BY WatchedFacts DEF LockedIn, PutEvict
<1>2. /\ table'[Watched] = table[Watched] \ gone
      /\ UNCHANGED <<file, nr, putRec, thrPc, thrRec, next, arrived>>
  BY DEF PutEvict
<1>3. Held = table[Watched]
  BY <1>1, HeldIsTable
<1>4. Held' = Held \ gone
  BY <1>1, <1>2, <1>3 DEF Held
<1>5. Torn' = Torn \ gone
  BY <1>2, <1>4 DEF Torn, HasPic
<1>6. /\ gone \subseteq Held
      /\ \A r \in gone, q \in Held \ gone : r < q
      /\ gone = {} \/ Cardinality(Held \ gone) >= nr - 1
  BY <1>3, RedundantRows
<1>7. CASE gone = {}
  <2>1. UNCHANGED Box!vars
    BY <1>2, <1>4, <1>5, <1>7 DEF Box!vars
  <2> QED BY <2>1
<1>8. CASE gone # {}
  <2> HIDE DEF gone, TypeOK, RunInv
  <2>1. \E g \in SUBSET Held :
           /\ \A r \in g, q \in Held \ g : r < q
           /\ Cardinality(Held \ g) >= nr - 1
           /\ Held' = Held \ g
           /\ Torn' = Torn \ g
    <3>1. gone \in SUBSET Held
      BY <1>6
    <3> QED BY <1>4, <1>5, <1>6, <1>8, <3>1, Zenon
  <2>2. Box!Evict
    BY <1>1, <1>2, <2>1, SameCardinality, Zenon DEF Box!Evict
  <2> QED BY <2>2 DEF Box!Next
<1> QED BY <1>7, <1>8

(* The pictures that put removes belong to no row any more. *)
LEMMA PutRemoveStutters ==
  ASSUME RunInv, PutRemove(Watched)
  PROVE  UNCHANGED Box!vars
<1> USE WatchedAssumption DEF RunInv, TypeOK, putVars, thrVars, srvVars
<1>1. /\ thrPc[Watched] = "sleep" /\ putPc[Watched] = "remove"
      /\ putPc'[Watched] = "insert" /\ putNames[Watched] \cap table[Watched] = {}
  BY WatchedFacts DEF LockedIn, OrderlyIn, PutOrderly, PutRemove
<1>2. UNCHANGED <<table, nr, putRec, thrPc, thrRec, next, arrived>>
  BY DEF PutRemove
<1>3. Held = table[Watched] /\ Held' = table[Watched]
  BY <1>1, <1>2 DEF Held
<1>4. \A r \in table[Watched] : file'[Watched][r] = file[Watched][r]
  BY <1>1 DEF PutRemove, FilesLeft
<1>5. Torn' = Torn
  BY <1>3, <1>4 DEF Torn, HasPic
<1> QED BY <1>2, <1>3, <1>5 DEF Box!vars

(* The row of a record with a picture comes before the picture, and the    *)
(* record is in the outbox with the picture; an MQ text with its row.      *)
LEMMA PutInsertStores ==
  ASSUME DbMayFail = FALSE, RunInv, PutInsert(Watched)
  PROVE  [Box!Next]_(Box!vars)
<1> USE WatchedAssumption DEF RunInv, TypeOK, putVars, thrVars, srvVars
<1>1. /\ thrPc[Watched] = "sleep" /\ putRec[Watched] # 0
      /\ putPc[Watched] = "insert" /\ putRec[Watched] \notin table[Watched]
  BY WatchedFacts DEF LockedIn, OrderlyIn, PutOrderly, PutInsert
<1>2. /\ table'[Watched] = table[Watched] \cup {putRec[Watched]}
      /\ UNCHANGED <<file, nr, thrPc, thrRec, next, arrived>>
  BY DEF PutInsert
<1>3. Held = table[Watched]
  BY <1>1, HeldIsTable
<1>4. CASE HasPic(Watched)
  <2>1. putPc'[Watched] = "write" /\ UNCHANGED putRec
    BY <1>4 DEF PutInsert
  <2>2. Held' = Held
    BY <1>1, <1>2, <1>3, <2>1 DEF Held
  <2>3. UNCHANGED Box!vars
    BY <1>2, <2>1, <2>2 DEF Box!vars, Torn, HasPic
  <2> QED BY <2>3
<1>5. CASE ~HasPic(Watched)
  <2>1. putPc'[Watched] = "idle" /\ putRec'[Watched] = 0
    BY <1>5 DEF PutInsert, PutDone
  <2>2. Held' = Held \cup {putRec[Watched]}
    BY <1>1, <1>2, <1>3, <2>1 DEF Held
  <2>3. Torn = {} /\ Torn' = {}
    BY <1>5 DEF Torn, HasPic
  <2>4. Box!Store
    BY <1>1, <1>2, <2>1, <2>2, <2>3 DEF Box!Store
  <2> QED BY <2>4 DEF Box!Next
<1> QED BY <1>4, <1>5

LEMMA PutWriteStores ==
  ASSUME FsMayFail = FALSE, RunInv, PutWrite(Watched)
  PROVE  Box!Next
<1> USE WatchedAssumption DEF RunInv, TypeOK, putVars, thrVars, srvVars
<1>1. /\ thrPc[Watched] = "sleep" /\ putRec[Watched] # 0
      /\ putPc[Watched] = "write" /\ putRec[Watched] \in table[Watched]
  BY WatchedFacts DEF LockedIn, OrderlyIn, PutOrderly, PutWrite
<1>2. /\ UNCHANGED <<table, nr, thrPc, thrRec, next, arrived>>
      /\ putPc'[Watched] = "idle" /\ putRec'[Watched] = 0
      /\ file' = [file EXCEPT ![Watched][putRec[Watched]] = "full"]
  BY DEF PutWrite, PutDone
<1>3. Held = table[Watched] \ {putRec[Watched]}
  BY <1>1, HeldWhileWriting
<1>4. Held' = table[Watched]
  BY <1>1, <1>2 DEF Held
<1>5. Torn' = Torn
  BY <1>1, <1>2, <1>3, <1>4 DEF Torn, HasPic
<1>6. Box!Store
  BY <1>1, <1>2, <1>3, <1>4, <1>5 DEF Box!Store
<1> QED BY <1>6 DEF Box!Next

-----------------------------------------------------------------------------
(* The thread takes a record to send; a row without its picture goes, but  *)
(* the ftp thread may still send something for it.                         *)
LEMMA ThrSelectRetires ==
  ASSUME DbMayFail = FALSE, RunInv, ThrSelect(Watched)
  PROVE  [Box!Next]_(Box!vars)
<1> DEFINE r == Newest(table[Watched])
<1> USE WatchedAssumption DEF RunInv, TypeOK, putVars, thrVars, srvVars
<1>1. /\ thrPc[Watched] = "sleep" /\ putPc[Watched] # "write"
      /\ UNCHANGED <<file, nr, putPc, putRec, next, arrived>>
  BY WatchedFacts DEF LockedIn, ThrSelect
<1>2. r \in table[Watched] \cup {0} /\ 0 \notin table[Watched]
  BY NewestType, RecFacts
<1>3. Held = table[Watched]
  BY <1>1, HeldIsTable
<1>4. CASE UNCHANGED <<table, thrPc, thrRec>>
  <2>1. UNCHANGED Box!vars
    BY <1>1, <1>4 DEF Box!vars, Held, Torn, HasPic
  <2> QED BY <2>1
<1>5. CASE r # 0 /\ ThrSends(Watched, r)
           /\ (UNCHANGED table \/ DelId(Watched, r))
  <2>1. thrPc'[Watched] = "send" /\ thrRec'[Watched] = r
    BY <1>5 DEF ThrSends
  <2>2. table'[Watched] \cup {r} = table[Watched]
    BY <1>2, <1>5 DEF DelId
  <2>3. Held' = Held
    BY <1>1, <1>3, <2>1, <2>2 DEF Held
  <2>4. UNCHANGED Box!vars
    BY <1>1, <2>3 DEF Box!vars, Torn, HasPic
  <2> QED BY <2>4
<1>6. CASE r # 0 /\ HasPic(Watched) /\ file[Watched][r] # "full"
           /\ DelId(Watched, r) /\ UNCHANGED <<thrPc, thrRec>>
  <2>1. r \in Held /\ r \in Torn
    BY <1>2, <1>3, <1>6 DEF Torn
  <2>2. Held' = Held \ {r}
    BY <1>1, <1>3, <1>6 DEF Held, DelId
  <2>3. Torn' = Torn \ {r}
    BY <1>1, <2>2 DEF Torn, HasPic
  <2>4. Box!Retire
    <3> HIDE DEF r, TypeOK, RunInv
    <3> QED BY <1>1, <2>1, <2>2, <2>3 DEF Box!Retire
  <2> QED BY <2>4 DEF Box!Next
<1> QED BY <1>4, <1>5, <1>6 DEF ThrSelect

(* A send that succeeds delivers; a torn record is gone after its send     *)
(* either way.                                                             *)
LEMMA ThrSendDelivers ==
  ASSUME RunInv, ThrSend(Watched)
  PROVE  [Box!Next]_(Box!vars)
<1> DEFINE r == thrRec[Watched]
<1> USE WatchedAssumption DEF RunInv, TypeOK, putVars, thrVars, srvVars
<1>1. /\ thrPc[Watched] = "send" /\ putPc[Watched] # "write" /\ r \in Rec
      /\ r \notin table[Watched] =>
           HasPic(Watched) /\ file[Watched][r] # "full"
      /\ link[Watched] \in {"up", "down"}
      /\ UNCHANGED <<table, file, nr, putPc, putRec, next>>
  BY WatchedFacts DEF LockedIn, OrderlyIn, ThrOrderly, ThrSend
<1>2. Held = table[Watched] \cup {r}
  BY <1>1, HeldWhileSending
<1>3. thrPc'[Watched] \in {"sleep", "delete"}
  BY DEF ThrSend, ThrUnlocked
<1>4. Held' = table[Watched]
  BY <1>1, <1>3 DEF Held
<1>5. Torn' = Torn \cap Held'
  BY <1>1, <1>2, <1>4 DEF Torn, HasPic
<1>6. r \in Held /\ (r \in table[Watched] \/ r \in Torn)
  BY <1>1, <1>2 DEF Torn
<1>7. CASE r \in table[Watched]
  <2>1. Held' = Held /\ Torn' = Torn
    BY <1>2, <1>4, <1>5, <1>7 DEF Torn
  <2>2. CASE link[Watched] = "down"
    <3>1. arrived' = arrived
      BY <2>2 DEF ThrSend
    <3>2. UNCHANGED Box!vars
      BY <1>1, <2>1, <3>1 DEF Box!vars
    <3> QED BY <3>2
  <2>3. CASE link[Watched] = "up"
    <3>1. Done' = Done \cup {r}
      BY <1>1, <2>3, DoneGrows DEF ThrSend
    <3>2. Box!Deliver
      <4>1. \E gone \in SUBSET ({r} \cap Torn) :
               Held' = Held \ gone /\ Torn' = Torn \ gone
        <5>1. {} \in SUBSET ({r} \cap Torn)
          OBVIOUS
        <5>2. Held' = Held \ {} /\ Torn' = Torn \ {}
          BY <2>1
        <5> QED BY <5>1, <5>2, Zenon
      <4> QED BY <1>1, <1>6, <3>1, <4>1 DEF Box!Deliver, Done
    <3> QED BY <3>2 DEF Box!Next
  <2> QED BY <1>1, <2>2, <2>3
<1>8. CASE r \notin table[Watched]
  <2>1. Held' = Held \ {r} /\ Torn' = Torn \ {r} /\ r \in Torn
    BY <1>2, <1>4, <1>5, <1>6, <1>8 DEF Torn
  <2>2. CASE link[Watched] = "down"
    <3>1. arrived' = arrived
      BY <2>2 DEF ThrSend
    <3>2. Box!Retire
      BY <1>1, <1>6, <2>1, <3>1 DEF Box!Retire
    <3> QED BY <3>2 DEF Box!Next
  <2>3. CASE link[Watched] = "up"
    <3>1. Done' = Done \cup {r}
      BY <1>1, <2>3, DoneGrows DEF ThrSend
    <3>2. Box!Deliver
      <4>1. \E gone \in SUBSET ({r} \cap Torn) :
               Held' = Held \ gone /\ Torn' = Torn \ gone
        BY <1>6, <2>1
      <4> QED BY <1>1, <1>6, <3>1, <4>1 DEF Box!Deliver, Done
    <3> QED BY <3>2 DEF Box!Next
  <2> QED BY <1>1, <2>2, <2>3
<1> QED BY <1>7, <1>8

(* The row of a record that arrived goes. *)
LEMMA ThrDeleteRetires ==
  ASSUME DbMayFail = FALSE, RunInv, ThrDelete(Watched)
  PROVE  [Box!Next]_(Box!vars)
<1> DEFINE r == thrRec[Watched]
<1> USE WatchedAssumption DEF RunInv, TypeOK, putVars, thrVars, srvVars
<1>1. /\ thrPc[Watched] = "delete" /\ putPc[Watched] # "write" /\ r \in Rec
      /\ arrived[Watched][r] > 0
      /\ UNCHANGED <<file, nr, putPc, putRec, next, arrived>>
  BY WatchedFacts DEF LockedIn, OrderlyIn, ThrOrderly, ThrDelete
<1>2. thrPc'[Watched] # "send" /\ table'[Watched] = table[Watched] \ {r}
  BY DEF ThrDelete, ThrUnlocked, DelId
<1>3. Held = table[Watched] /\ Held' = Held \ {r}
  BY <1>1, <1>2 DEF Held
<1>4. Torn' = Torn \ {r}
  BY <1>1, <1>3 DEF Torn, HasPic
<1>5. CASE r \in Held
  <2>1. Box!Retire
    BY <1>1, <1>3, <1>4, <1>5 DEF Box!Retire
  <2> QED BY <2>1 DEF Box!Next
<1>6. CASE r \notin Held
  <2>1. Held' = Held /\ Torn' = Torn
    BY <1>3, <1>4, <1>6 DEF Torn
  <2>2. UNCHANGED Box!vars
    BY <1>1, <2>1 DEF Box!vars
  <2> QED BY <2>2
<1> QED BY <1>5, <1>6

(* The picture that the thread removes belongs to no row any more. *)
LEMMA ThrRemoveStutters ==
  ASSUME RunInv, ThrRemove(Watched)
  PROVE  UNCHANGED Box!vars
<1> USE WatchedAssumption DEF RunInv, TypeOK, putVars, thrVars, srvVars
<1>1. /\ thrPc[Watched] = "remove" /\ putPc[Watched] # "write"
      /\ thrPc'[Watched] = "sleep" /\ thrRec[Watched] \notin table[Watched]
      /\ UNCHANGED <<table, nr, putPc, putRec, next, arrived>>
  BY WatchedFacts DEF LockedIn, OrderlyIn, ThrOrderly, ThrRemove, ThrUnlocked
<1>2. Held = table[Watched] /\ Held' = table[Watched]
  BY <1>1 DEF Held
<1>3. \A q \in table[Watched] : file'[Watched][q] = file[Watched][q]
  BY <1>1 DEF ThrRemove, Removed
<1>4. Torn' = Torn
  BY <1>2, <1>3 DEF Torn, HasPic
<1> QED BY <1>1, <1>2, <1>4 DEF Box!vars

(* A restart finds the rows and the pictures as they are: the record whose *)
(* picture was being written is torn, the torn one being sent is gone.     *)
LEMMA RestartCrashes ==
  ASSUME RunInv, Restart
  PROVE  Box!Next
<1> DEFINE new == IF putPc[Watched] = "write" THEN {putRec[Watched]} ELSE {}
           gone == IF thrPc[Watched] = "send"
                     THEN {thrRec[Watched]} \ table[Watched] ELSE {}
<1> USE WatchedAssumption DEF RunInv, TypeOK, putVars, thrVars, srvVars
<1>1. /\ putPc'[Watched] = "idle" /\ putRec'[Watched] = 0
      /\ thrPc'[Watched] = "sleep" /\ nr' \in 0..MaxLimit
      /\ UNCHANGED <<table, file, next, arrived>>
  BY DEF Restart, Limit
<1>2. Held' = table[Watched]
  BY <1>1 DEF Held
<1>3. /\ putPc[Watched] = "write" =>
           /\ thrPc[Watched] = "sleep" /\ HasPic(Watched)
           /\ putRec[Watched] # 0 /\ putRec[Watched] \in table[Watched]
           /\ file[Watched][putRec[Watched]] # "full"
      /\ thrPc[Watched] = "send" /\ thrRec[Watched] \notin table[Watched] =>
           HasPic(Watched) /\ file[Watched][thrRec[Watched]] # "full"
  BY WatchedFacts DEF LockedIn, OrderlyIn, PutOrderly, ThrOrderly
<1>4. gone \in SUBSET Torn
  BY <1>3 DEF Torn, Held
<1>5. new \in SUBSET ({putRec[Watched]} \ {0})
  BY <1>3
<1>6. Held' = (Held \ gone) \cup new
  BY <1>2, <1>3 DEF Held
<1>7. Torn' = (Torn \ gone) \cup new
  <2>1. \A q \in new : HasPic(Watched) /\ file[Watched][q] # "full"
    BY <1>3
  <2>2. Torn' = {q \in Held' : HasPic(Watched) /\ file[Watched][q] # "full"}
    BY <1>1 DEF Torn, HasPic
  <2> HIDE DEF new, gone
  <2> QED BY <1>6, <2>1, <2>2 DEF Torn
<1>8. Box!Crash
  <2> HIDE DEF new, gone, TypeOK, RunInv
  <2> QED BY <1>1, <1>4, <1>5, <1>6, <1>7 DEF Box!Crash
<1> QED BY <1>8 DEF Box!Next

-----------------------------------------------------------------------------
LEMMA OutboxNext ==
  ASSUME DbMayFail = FALSE, FsMayFail = FALSE, HalfOpen = FALSE,
         RunInv, [Next]_vars
  PROVE  [Box!Next]_(Box!vars)
<1>1. CASE UNCHANGED vars \/ \E k \in Kinds : LinkChange(k)
  <2>1. /\ SameTable(Watched) /\ nr' = nr
        /\ arrived'[Watched] = arrived[Watched]
        /\ next'[Watched] = next[Watched]
    BY <1>1 DEF vars, LinkChange, SameTable, putVars, thrVars, srvVars
  <2> QED BY <2>1, SameBox
<1>2. CASE Restart
  BY <1>2, RestartCrashes
<1>3. ASSUME NEW k \in Kinds, SendNew(k) \/ Put(k) \/ Thread(k), k # Watched
      PROVE  UNCHANGED Box!vars
  BY <1>3, OthersKept, SameBox, WatchedAssumption DEF RunInv
<1>4. CASE SendNew(Watched)
  BY <1>4, SendNewOffers
<1>5. CASE Put(Watched)
  BY <1>5, PutEvictEvicts, PutRemoveStutters, PutInsertStores, PutWriteStores
     DEF Put
<1>6. CASE Thread(Watched)
  BY <1>6, ThrSelectRetires, ThrSendDelivers, ThrDeleteRetires,
     ThrRemoveStutters DEF Thread
<1> QED BY <1>1, <1>2, <1>3, <1>4, <1>5, <1>6 DEF Next

(* Put, eviction, the retransmission thread and a restart between any two  *)
(* of their steps do to http_resend, ftp_resend and mq_resend no more than *)
(* the outbox allows, for any number of records and any limit.             *)
THEOREM TableIsOutbox ==
  ASSUME DbMayFail = FALSE, FsMayFail = FALSE, HalfOpen = FALSE
  PROVE  Spec => IsOutbox
<1>1. Init => RunInv /\ Box!Init
  BY TypeInit, LockedInit, FutureInit, OrderlyInit, OutboxInit DEF RunInv
<1>2. RunInv /\ [Next]_vars => RunInv'
  BY TypeNext, LockedNext, FutureNext, OrderlyNext DEF RunInv
<1>3. RunInv /\ [Next]_vars => [Box!Next]_(Box!vars)
  BY OutboxNext
<1> QED BY <1>1, <1>2, <1>3, PTL DEF Spec, IsOutbox, Box!Spec
=============================================================================
