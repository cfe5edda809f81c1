------------------------- MODULE TrafficStoreProofs -------------------------
(* Theorems about TrafficStore, for all values of its constants.           *)
EXTENDS TrafficStore, WellFoundedInduction, TLAPS

LEMMA ConstFacts ==
  /\ MaxRec \in Nat /\ MaxHour \in Nat /\ MaxHour > 0 /\ MaxRestarts \in Nat
  /\ MaxSends \in Nat /\ MaxSends > MaxRestarts + 1
BY BoundsAssumption DEF MaxSends

(* The order of the natural numbers as a relation, for WFMin. *)
NatLess == OpToRel(<, Nat)

LEMMA LeastNumber ==
  ASSUME NEW S \in SUBSET Nat, S # {}
  PROVE  \E x \in S : \A y \in S : x <= y
<1>1. PICK x \in S : \A y \in S : ~(<<y, x>> \in NatLess)
  <2>1. IsWellFoundedOn(NatLess, Nat)
    BY NatLessThanWellFounded, Zenon DEF NatLess
  <2> QED BY <2>1, WFMin, Zenon
<1>2. \A y \in S : ~(y < x)
  BY <1>1 DEF NatLess, OpToRel
<1> QED BY <1>2

(* A set of numbers up to k has a largest one. *)
LEMMA LargestNumber ==
  ASSUME NEW k \in Nat, NEW S \in SUBSET (1..k), S # {}
  PROVE  \E x \in S : \A y \in S : y <= x
<1> DEFINE D == {k - q : q \in S}
<1>1. \A q \in S : q \in Nat /\ k - q \in Nat
  OBVIOUS
<1>2. D \in SUBSET Nat /\ D # {}
  BY <1>1, Zenon
<1>3. PICK d \in D : \A e \in D : d <= e
  <2> HIDE DEF D
  <2> QED BY <1>2, LeastNumber
<1>4. PICK x \in S : d = k - x
  BY <1>3
<1>5. ASSUME NEW y \in S PROVE y <= x
  <2>1. k - x <= k - y
    BY <1>3, <1>4
  <2> QED BY <1>1, <2>1
<1> QED BY <1>5

(* The number of a new row: one above the largest. *)
LEMMA NextIdFacts ==
  ASSUME NEW k \in 0..MaxRec, NEW ids \in SUBSET (1..k)
  PROVE  NextId(ids) \in 1..(k + 1) /\ \A i \in ids : i < NextId(ids)
<1> USE ConstFacts
<1> DEFINE P(n) == (\A i \in ids : i < n) /\ (n = 1 \/ n - 1 \in ids)
<1>1. \E n \in 1..(MaxRec + 1) : P(n)
  <2>1. CASE ids = {}
    <3>1. 1 \in 1..(MaxRec + 1)
      OBVIOUS
    <3> QED BY <2>1, <3>1
  <2>2. CASE ids # {}
    <3>1. PICK x \in ids : \A y \in ids : y <= x
      <4>1. k \in Nat
        OBVIOUS
      <4> QED BY <2>2, <4>1, LargestNumber
    <3>2. x \in 1..k /\ x + 1 \in 1..(MaxRec + 1) /\ (x + 1) - 1 = x
      OBVIOUS
    <3>3. \A y \in ids : y < x + 1
      BY <3>1
    <3>4. P(x + 1)
      BY <3>1, <3>2, <3>3
    <3> QED BY <3>2, <3>4
  <2> QED BY <2>1, <2>2
<1>2. NextId(ids) = CHOOSE n \in 1..(MaxRec + 1) : P(n)
  BY DEF NextId
<1>3. NextId(ids) \in 1..(MaxRec + 1) /\ P(NextId(ids))
  <2> HIDE DEF P
  <2> QED BY <1>1, <1>2
<1>4. NextId(ids) \in 1..(k + 1)
  <2>1. CASE NextId(ids) = 1
    BY <2>1
  <2>2. CASE NextId(ids) - 1 \in ids
    BY <1>3, <2>2
  <2> QED BY <1>3, <2>1, <2>2
<1> QED BY <1>3, <1>4

-----------------------------------------------------------------------------
(* The rows that the upload thread takes. *)
LEMMA FirstRowFacts ==
  ASSUME TypeOK, NEW rs \in SUBSET Recs, rs # {}
  PROVE  FirstRow(rs) \in rs
<1> DEFINE S == {rowId[r] : r \in rs}
<1>1. \A r \in rs : rowId[r] \in Nat
  BY ConstFacts DEF TypeOK, Recs
<1>2. S \in SUBSET Nat /\ S # {}
  BY <1>1
<1>3. PICK x \in S : \A y \in S : x <= y
  <2> HIDE DEF S
  <2> QED BY <1>2, LeastNumber
<1>4. PICK r \in rs : x = rowId[r]
  BY <1>3
<1>5. \A q \in rs : rowId[r] <= rowId[q]
  BY <1>3, <1>4
<1> QED BY <1>4, <1>5 DEF FirstRow

LEMMA FirstIndexFacts ==
  ASSUME NEW is \in SUBSET IndexRow, is # {}
  PROVE  FirstIndex(is) \in is
<1> DEFINE S == {i.id : i \in is}
<1>1. S \in SUBSET Nat /\ S # {}
  BY DEF IndexRow
<1>2. PICK x \in S : \A y \in S : x <= y
  <2> HIDE DEF S
  <2> QED BY <1>1, LeastNumber
<1>3. PICK i \in is : x = i.id
  BY <1>2
<1>4. \A j \in is : i.id <= j.id
  BY <1>2, <1>3
<1> QED BY <1>3, <1>4 DEF FirstIndex

LEMMA SetSendFacts ==
  ASSUME TypeOK, NEW n, NEW flags \in SUBSET Flags, NEW j \in SetSend(n, flags)
  PROVE  j \in IndexRow /\ \E i \in index : j.id = i.id /\ j.store = i.store
<1>1. PICK i \in index : j = IF i.id = n THEN [i EXCEPT !.send = flags] ELSE i
  BY DEF SetSend
<1>2. i \in IndexRow
  BY DEF TypeOK
<1> QED BY <1>1, <1>2 DEF IndexRow

LEMMA SetStoreFacts ==
  ASSUME TypeOK, NEW n, NEW kept \in {0, 1}, NEW j \in SetStore(n, kept)
  PROVE  /\ j \in IndexRow
         /\ \E i \in index : j.id = i.id /\ j.store \in {i.store, kept}
<1>1. PICK i \in index : j = IF i.id = n THEN [i EXCEPT !.store = kept] ELSE i
  BY DEF SetStore
<1>2. i \in IndexRow
  BY DEF TypeOK
<1> QED BY <1>1, <1>2 DEF IndexRow

-----------------------------------------------------------------------------
(* Rows are numbered by SQLite within the number of records, in the hourly *)
(* files and in the index; the record that is being saved has no row yet;  *)
(* the record that is being retransmitted has one.                         *)
Numbered ==
  /\ \A r \in Recs : rowId[r] <= r /\ (r > nrec => rowId[r] = 0)
  /\ wpc # "idle" => nrec \in Recs /\ rowId[nrec] = 0 /\ hourOf[nrec] \in Hours
  /\ \A i \in index : i.id \in 1..nrec
  /\ wpc \in {"info", "access", "insert"} => \A i \in index : i.id < nrec
  /\ upc \in {"picture", "info", "delete"} => urec \in Recs /\ rowId[urec] > 0

TInv == TypeOK /\ Numbered

LEMMA RecFacts ==
  ASSUME TypeOK
  PROVE  /\ nrec \in Nat /\ nrec <= MaxRec /\ Recs \subseteq Nat
         /\ \A r \in Recs : rowId[r] \in Nat /\ r <= MaxRec /\ r > 0
         /\ \A i \in index : i.id \in Nat
BY ConstFacts DEF TypeOK, Recs, IndexRow

(* The rows that the result thread inserts. *)
LEMMA NewRowFacts ==
  ASSUME TInv, wpc # "idle", NEW h
  PROVE  NewRowId(h) \in 1..nrec
<1> DEFINE ids == {rowId[r] : r \in RowsOf(h)}
<1>1. nrec \in Nat /\ nrec > 0 /\ nrec <= MaxRec /\ nrec - 1 \in 0..MaxRec
  BY RecFacts, ConstFacts DEF TInv, Numbered
<1>2. ASSUME NEW r \in RowsOf(h) PROVE rowId[r] \in 1..(nrec - 1)
  <2>1. r \in Recs /\ rowId[r] > 0
    BY DEF RowsOf
  <2>2. rowId[r] \in Nat /\ r \in Nat /\ rowId[r] <= r /\ ~(r > nrec) /\ r # nrec
    BY <2>1, RecFacts DEF TInv, Numbered
  <2> QED BY <1>1, <2>1, <2>2
<1>3. ids \in SUBSET (1..(nrec - 1))
  BY <1>2
<1>4. NextId(ids) \in 1..(nrec - 1 + 1)
  <2> HIDE DEF ids
  <2> QED BY <1>1, <1>3, NextIdFacts
<1>5. nrec - 1 + 1 = nrec
  BY <1>1
<1> QED BY <1>4, <1>5 DEF NewRowId

LEMMA NewIndexFacts ==
  ASSUME TInv, wpc = "insert", NEW new,
         new = NewIndexRow(hourOf[nrec], wsend, wstore)
  PROVE  new \in IndexRow /\ new.id \in 1..nrec /\ new.store = wstore
<1> DEFINE ids == {i.id : i \in index}
<1>1. nrec \in Nat /\ nrec > 0 /\ nrec <= MaxRec /\ nrec - 1 \in 0..MaxRec
  BY RecFacts, ConstFacts DEF TInv, Numbered
<1>2. ASSUME NEW i \in index PROVE i.id \in 1..(nrec - 1)
  <2>1. i.id \in 1..nrec /\ i.id < nrec
    BY DEF TInv, Numbered
  <2> QED BY <1>1, <2>1
<1>3. ids \in SUBSET (1..(nrec - 1))
  BY <1>2
<1>4. NextId(ids) \in 1..(nrec - 1 + 1)
  <2> HIDE DEF ids
  <2> QED BY <1>1, <1>3, NextIdFacts
<1>5. nrec - 1 + 1 = nrec
  BY <1>1
<1>6. new.id \in 1..nrec /\ new.store = wstore
  BY <1>4, <1>5 DEF NewIndexRow
<1>7. new.id \in Nat
  BY <1>1, <1>6
<1> QED BY <1>6, <1>7 DEF NewIndexRow, IndexRow, TInv, Numbered, TypeOK

LEMMA TypeInit == Init => TInv
<1> SUFFICES ASSUME Init PROVE TInv
  OBVIOUS
<1> USE ConstFacts, ConfigsAssumption
<1>1. NoIndex \in IndexRow
  BY DEF NoIndex, IndexRow, Hours
<1>2. \A r \in Recs : r \in Nat
  BY DEF Recs
<1>3. 0 \in 0..MaxRec /\ 0 \in 0..MaxHour /\ 0 \in 0..MaxSends /\ 0 \in 0..MaxRestarts
  OBVIOUS
<1>4. 1 \in Hours
  BY DEF Hours
<1>5. TypeOK
  BY <1>1, <1>3, <1>4 DEF Init, TypeOK
<1>6. Numbered
  BY <1>2 DEF Init, Numbered
<1> QED BY <1>5, <1>6 DEF TInv

(* The result thread. *)
LEMMA TPicture == TInv /\ Picture => TInv'
<1> SUFFICES ASSUME TInv, Picture PROVE TInv'
  OBVIOUS
<1> USE DEF TInv
<1>1. /\ nrec' = nrec + 1 /\ nrec + 1 \in Recs /\ nrec \in Nat
      /\ nrec' \in 0..MaxRec /\ hour \in 0..MaxHour
  BY ConstFacts, RecFacts DEF Picture, NewRecord, Recs, TypeOK, Hours
<1>2. hourOf' = [hourOf EXCEPT ![nrec + 1] = hour]
  BY DEF Picture, NewRecord
<1>3. wdisk' \in BOOLEAN
  BY Zenon DEF Picture
<1>4. /\ ftpGot' \subseteq Recs /\ pics' \subseteq Recs /\ wsend' \subseteq Flags
  BY <1>1, SMT DEF Picture, NewRecord, TypeOK, FileSave, Flags
<1>5. TypeOK'
  BY <1>1, <1>2, <1>3, <1>4 DEF Picture, TypeOK, env, rows, cache, uploader
<1>6. Numbered'
  <2>1. UNCHANGED <<rowId, index, upc, urec>> /\ wpc' = "info" /\ wpc = "idle"
    BY DEF Picture, rows, uploader
  <2>2. \A r \in Recs : rowId'[r] <= r /\ (r > nrec' => rowId'[r] = 0)
    BY <1>1, <2>1, RecFacts DEF Numbered
  <2>3. nrec' \in Recs /\ rowId'[nrec'] = 0 /\ hourOf'[nrec'] \in Hours
    <3>1. ~(nrec + 1 <= nrec) /\ nrec + 1 > nrec
      BY <1>1
    <3> QED BY <1>1, <1>2, <2>1, <3>1 DEF Numbered, TypeOK
  <2>4. \A i \in index' : i.id \in 1..nrec' /\ i.id < nrec'
    BY <1>1, <2>1, RecFacts DEF Numbered
  <2> QED BY <2>1, <2>2, <2>3, <2>4 DEF Numbered
<1> QED BY <1>5, <1>6

LEMMA TInfo == TInv /\ Info => TInv'
<1> SUFFICES ASSUME TInv, Info PROVE TInv'
  OBVIOUS
<1> USE DEF TInv
<1>1. wpc = "info" /\ wpc' \in {"access", "idle"}
  BY DEF Info
<1>2. wsend' \subseteq Flags
  BY DEF Info, SentFlags, Flags, TypeOK
<1>3. wstore' \in {0, 1}
  BY ConfigsAssumption DEF Info, AllConfigs, TypeOK
<1>4. infoSends' \in [Recs -> 0..MaxSends]
  <2>1. nrec \in Recs
    BY <1>1 DEF Numbered
  <2>2. Told(nrec) \in [Recs -> 0..MaxSends]
    <3>1. infoSends[nrec] \in 0..MaxSends
      BY <2>1 DEF TypeOK
    <3>2. (IF infoSends[nrec] < MaxSends THEN infoSends[nrec] + 1 ELSE infoSends[nrec])
             \in 0..MaxSends
      BY <3>1, ConstFacts
    <3> QED BY <3>2 DEF Told, TypeOK
  <2> QED BY <2>2 DEF Info, TypeOK
<1>5. TypeOK'
  BY <1>1, <1>2, <1>3, <1>4 DEF Info, TypeOK, env, made, disk, cache, uploader
<1>6. Numbered'
  BY <1>1 DEF Info, Numbered, env, made, disk, cache, uploader
<1> QED BY <1>5, <1>6

LEMMA TAccess == TInv /\ Access => TInv'
BY DEF TInv, Access, TypeOK, Numbered, env, made, disk, cache, uploader, platform

LEMMA TInsertIndex == TInv /\ InsertIndex => TInv'
<1> SUFFICES ASSUME TInv, InsertIndex PROVE TInv'
  OBVIOUS
<1> USE DEF TInv
<1> DEFINE new == NewIndexRow(hourOf[nrec], wsend, wstore)
<1>1. new \in IndexRow /\ new.id \in 1..nrec
  BY NewIndexFacts DEF InsertIndex
<1>2. index' \subseteq index \union {new}
  BY DEF InsertIndex
<1> HIDE DEF new
<1>3. TypeOK'
  BY <1>1, <1>2 DEF InsertIndex, TypeOK, env, made, rows, uploader, platform
<1>4. Numbered'
  BY <1>1, <1>2 DEF InsertIndex, Numbered, env, made, rows, uploader, platform
<1> QED BY <1>3, <1>4

LEMMA TFirstRead == TInv /\ FirstRead => TInv'
<1> SUFFICES ASSUME TInv, FirstRead PROVE TInv'
  OBVIOUS
<1> USE DEF TInv
<1> DEFINE since == {i \in index : i.hour >= hourOf[nrec]}
<1>1. cId' \in 0..MaxRec /\ cSend' \subseteq Flags /\ cStore' \in {0, 1}
  <2>1. CASE /\ since # {}
             /\ cId' = FirstIndex(since).id
             /\ cSend' = FirstIndex(since).send
             /\ cStore' = FirstIndex(since).store
    <3>1. since \in SUBSET IndexRow
      BY DEF TypeOK
    <3>2. FirstIndex(since) \in since
      <4> HIDE DEF since
      <4> QED BY <2>1, <3>1, FirstIndexFacts
    <3>3. FirstIndex(since) \in index
      BY <3>2
    <3>4. FirstIndex(since) \in IndexRow /\ FirstIndex(since).id \in 1..nrec
      BY <3>3 DEF TypeOK, Numbered
    <3>5. 1..nrec \subseteq 0..MaxRec
      BY RecFacts, ConstFacts
    <3>6. FirstIndex(since).id \in 0..MaxRec
      BY <3>4, <3>5
    <3> QED BY <2>1, <3>4, <3>6 DEF IndexRow
  <2>2. CASE UNCHANGED <<cId, cSend, cStore>>
    BY <2>2 DEF TypeOK
  <2> QED BY <2>1, <2>2 DEF FirstRead
<1>2. TypeOK'
  BY <1>1 DEF FirstRead, TypeOK, env, made, disk, uploader, platform
<1>3. Numbered'
  BY DEF FirstRead, Numbered, env, made, disk, uploader, platform
<1> QED BY <1>2, <1>3

LEMMA TUpdateSend == TInv /\ UpdateSend => TInv'
<1> SUFFICES ASSUME TInv, UpdateSend PROVE TInv'
  OBVIOUS
<1> USE DEF TInv
<1>1. cSend' \subseteq Flags
  BY DEF UpdateSend, TypeOK
<1>2. ASSUME NEW j \in index' PROVE j \in IndexRow /\ j.id \in 1..nrec
  <2>1. CASE j \in index
    BY <2>1 DEF TypeOK, Numbered
  <2>2. CASE j \in SetSend(cId, cSend \union wsend)
    <3>1. cSend \union wsend \in SUBSET Flags
      BY DEF TypeOK
    <3>2. j \in IndexRow /\ \E i \in index : j.id = i.id /\ j.store = i.store
      BY <2>2, <3>1, SetSendFacts
    <3> QED BY <3>2 DEF Numbered
  <2> QED BY <2>1, <2>2 DEF UpdateSend
<1>3. TypeOK'
  BY <1>1, <1>2 DEF UpdateSend, TypeOK, env, made, rows, uploader, platform
<1>4. Numbered'
  BY <1>2 DEF UpdateSend, Numbered, env, made, rows, uploader, platform
<1> QED BY <1>3, <1>4

LEMMA TUpdateStore == TInv /\ UpdateStore => TInv'
<1> SUFFICES ASSUME TInv, UpdateStore PROVE TInv'
  OBVIOUS
<1> USE DEF TInv
<1>1. cStore' \in {0, 1}
  BY DEF UpdateStore, TypeOK
<1>2. ASSUME NEW j \in index' PROVE j \in IndexRow /\ j.id \in 1..nrec
  <2>1. CASE j \in index
    BY <2>1 DEF TypeOK, Numbered
  <2>2. CASE j \in SetStore(cId, wstore)
    <3>1. wstore \in {0, 1}
      BY DEF TypeOK
    <3>2. j \in IndexRow /\ \E i \in index : j.id = i.id
      BY <2>2, <3>1, SetStoreFacts
    <3> QED BY <3>2 DEF Numbered
  <2> QED BY <2>1, <2>2 DEF UpdateStore
<1>3. TypeOK'
  BY <1>1, <1>2 DEF UpdateStore, TypeOK, env, made, rows, uploader, platform
<1>4. Numbered'
  BY <1>2 DEF UpdateStore, Numbered, env, made, rows, uploader, platform
<1> QED BY <1>3, <1>4

LEMMA TWriteRow == TInv /\ WriteRow => TInv'
<1> SUFFICES ASSUME TInv, WriteRow PROVE TInv'
  OBVIOUS
<1> USE DEF TInv
<1> DEFINE n == NewRowId(hourOf[nrec])
<1>1. /\ n \in 1..nrec /\ nrec \in Recs /\ nrec \in Nat /\ nrec <= MaxRec
      /\ hourOf[nrec] \in Hours
  BY NewRowFacts, RecFacts DEF WriteRow, Numbered
<1>2. /\ n \in 0..MaxRec /\ n > 0 /\ n <= nrec /\ ~(nrec > nrec)
  BY <1>1, ConstFacts
<1>3. CASE /\ dbFiles' = dbFiles \union {hourOf[nrec]}
           /\ rowId' = [rowId EXCEPT ![nrec] = n]
           /\ rowSend' = [rowSend EXCEPT ![nrec] = wsend]
           /\ rowStore' = [rowStore EXCEPT ![nrec] = wstore]
  <2> HIDE DEF n
  <2>1. TypeOK'
    BY <1>1, <1>2, <1>3 DEF WriteRow, TypeOK, env, made, cache, uploader, platform
  <2>2. ASSUME NEW r \in Recs
        PROVE  rowId'[r] <= r /\ (r > nrec => rowId'[r] = 0) /\ (rowId[r] > 0 => rowId'[r] > 0)
    BY <1>1, <1>2, <1>3 DEF TypeOK, Numbered
  <2>3. Numbered'
    BY <2>2 DEF WriteRow, Numbered, made, uploader
  <2> QED BY <2>1, <2>3
<1>4. CASE /\ dbFiles' \in {dbFiles, dbFiles \union {hourOf[nrec]}}
           /\ UNCHANGED <<rowId, rowSend, rowStore>>
  <2>1. dbFiles' \subseteq Hours
    BY <1>1, <1>4 DEF TypeOK
  <2> QED BY <1>4, <2>1 DEF WriteRow, TypeOK, Numbered, env, made, cache, uploader, platform
<1> QED BY <1>3, <1>4 DEF WriteRow

(* The upload thread. *)
LEMMA TPoll == TInv /\ Poll => TInv'
<1> SUFFICES ASSUME TInv, Poll PROVE TInv'
  OBVIOUS
<1> USE DEF TInv
<1> DEFINE flagged == {i \in index : i.send # {}}
<1>1. uidx' \in IndexRow
  <2>1. CASE flagged # {} /\ uidx' = FirstIndex(flagged)
    <3>1. flagged \in SUBSET IndexRow
      BY DEF TypeOK
    <3>2. FirstIndex(flagged) \in flagged
      <4> HIDE DEF flagged
      <4> QED BY <2>1, <3>1, FirstIndexFacts
    <3> QED BY <2>1, <3>1, <3>2
  <2>2. CASE uidx' = uidx
    BY <2>2 DEF TypeOK
  <2> QED BY <2>1, <2>2 DEF Poll
<1>2. upc' \in {"select", "clr"}
  BY DEF Poll
<1>3. {uftp', umq'} \subseteq BOOLEAN
  BY Zenon DEF Poll, TypeOK
<1>4. TypeOK'
  BY <1>1, <1>2, <1>3 DEF Poll, TypeOK, env, made, disk, cache, writer, platform
<1>5. Numbered'
  BY <1>2 DEF Poll, Numbered, env, made, disk, cache, writer, platform
<1> QED BY <1>4, <1>5

LEMMA TSelect == TInv /\ Select => TInv'
<1> SUFFICES ASSUME TInv, Select PROVE TInv'
  OBVIOUS
<1> USE DEF TInv
<1> DEFINE todo == {r \in RowsOf(uidx.hour) : rowId[r] > ulast /\ rowSend[r] # {}}
<1>1. dbFiles' \subseteq Hours
  BY DEF Select, TypeOK, IndexRow
<1>2. CASE /\ todo # {}
           /\ urec' = FirstRow(todo)
           /\ usend' = rowSend[FirstRow(todo)] /\ ustore' = rowStore[FirstRow(todo)]
           /\ upc' = "picture"
           /\ ulast' = ulast
  <2>1. todo \in SUBSET Recs
    BY DEF RowsOf
  <2>2. FirstRow(todo) \in todo
    <3> HIDE DEF todo
    <3> QED BY <1>2, <2>1, FirstRowFacts
  <2>3. FirstRow(todo) \in Recs /\ rowId[FirstRow(todo)] > 0
    BY <2>2 DEF RowsOf
  <2> HIDE DEF todo
  <2>4. urec' \in 0..MaxRec /\ usend' \subseteq Flags /\ ustore' \in {0, 1}
    <3>1. Recs \subseteq 0..MaxRec
      BY ConstFacts DEF Recs
    <3>2. urec' \in 0..MaxRec
      BY <1>2, <2>3, <3>1, Zenon
    <3> QED BY <1>2, <2>3, <3>2 DEF TypeOK
  <2>5. TypeOK'
    BY <1>1, <1>2, <2>4 DEF Select, TypeOK, env, made, cache, writer, platform
  <2>6. Numbered'
    BY <1>2, <2>3 DEF Select, Numbered, env, made, cache, writer, platform
  <2> QED BY <2>5, <2>6
<1>3. CASE upc' = "drop" /\ ulast' = 0 /\ UNCHANGED <<urec, usend, ustore>>
  <2>1. TypeOK'
    BY <1>1, <1>3, ConstFacts DEF Select, TypeOK, env, made, cache, writer, platform
  <2>2. Numbered'
    BY <1>3 DEF Select, Numbered, env, made, cache, writer, platform
  <2> QED BY <2>1, <2>2
<1> QED BY <1>2, <1>3 DEF Select

LEMMA TSendPicture == TInv /\ SendPicture => TInv'
<1> SUFFICES ASSUME TInv, SendPicture PROVE TInv'
  OBVIOUS
<1> USE DEF TInv
<1>1. upc = "picture" /\ upc' \in {"info", "clr", "delete"} /\ urec \in Recs
  BY DEF SendPicture, NoPicture, Numbered
<1>2. usend' \subseteq Flags /\ pics' \subseteq Recs /\ ftpGot' \subseteq Recs
  BY <1>1 DEF SendPicture, TypeOK, PicsAfterSend, MoveToTrash
<1>3. TypeOK'
  BY <1>1, <1>2 DEF SendPicture, TypeOK, env, made, rows, cache, writer
<1>4. Numbered'
  BY <1>1 DEF SendPicture, Numbered, env, made, rows, cache, writer
<1> QED BY <1>3, <1>4

LEMMA ToldType ==
  ASSUME TypeOK, NEW r \in Recs
  PROVE  /\ Told(r) \in [Recs -> 0..MaxSends]
         /\ \A q \in Recs : q # r => Told(r)[q] = infoSends[q]
         /\ Told(r)[r] \in Nat /\ Told(r)[r] <= infoSends[r] + 1
<1>1. infoSends[r] \in 0..MaxSends
  BY DEF TypeOK
<1> DEFINE n == IF infoSends[r] < MaxSends THEN infoSends[r] + 1 ELSE infoSends[r]
<1>2. n \in 0..MaxSends /\ n \in Nat /\ n <= infoSends[r] + 1
  BY <1>1, ConstFacts
<1>3. Told(r) = [infoSends EXCEPT ![r] = n]
  BY DEF Told
<1> HIDE DEF n
<1> QED BY <1>2, <1>3 DEF TypeOK

LEMMA TSendInfo == TInv /\ SendInfo => TInv'
<1> SUFFICES ASSUME TInv, SendInfo PROVE TInv'
  OBVIOUS
<1> USE DEF TInv
<1>1. upc = "info" /\ upc' \in {"clr", "delete"} /\ urec \in Recs
  BY DEF SendInfo, Numbered
<1>2. infoSends' \in [Recs -> 0..MaxSends]
  BY <1>1, ToldType DEF SendInfo, TypeOK
<1>3. TypeOK'
  BY <1>1, <1>2 DEF SendInfo, TypeOK, env, made, disk, cache, writer
<1>4. Numbered'
  BY <1>1 DEF SendInfo, Numbered, env, made, disk, cache, writer
<1> QED BY <1>3, <1>4

(* A row that goes, or loses its flag. *)
LEMMA RowGoneFacts ==
  ASSUME TypeOK, NEW r \in Recs, NEW store \in {0, 1}, RowGone(r, store)
  PROVE  /\ rowId' \in [Recs -> 0..MaxRec] /\ rowSend' \in [Recs -> SUBSET Flags]
         /\ rowStore' = rowStore
         /\ \A q \in Recs : rowId'[q] \in {rowId[q], 0} /\ rowSend'[q] \in {rowSend[q], {}}
BY ConstFacts DEF RowGone, TypeOK

LEMMA TDelete == TInv /\ Delete => TInv'
<1> SUFFICES ASSUME TInv, Delete PROVE TInv'
  OBVIOUS
<1> USE DEF TInv
<1>1. upc = "delete" /\ upc' = "clr" /\ urec \in Recs /\ ustore \in {0, 1}
  BY DEF Delete, Numbered, TypeOK
<1>2. /\ rowId' \in [Recs -> 0..MaxRec] /\ rowSend' \in [Recs -> SUBSET Flags]
      /\ rowStore' = rowStore
      /\ \A q \in Recs : rowId'[q] \in {rowId[q], 0}
  BY <1>1, RowGoneFacts DEF Delete
<1>3. ulast' \in 0..MaxRec
  BY <1>1 DEF Delete, ReadOn, TypeOK
<1>4. TypeOK'
  BY <1>1, <1>2, <1>3 DEF Delete, TypeOK, env, made, cache, writer, platform
<1>5. \A r \in Recs : rowId'[r] <= r /\ (r > nrec => rowId'[r] = 0)
  BY <1>2, RecFacts DEF Numbered
<1>6. Numbered'
  BY <1>1, <1>2, <1>5 DEF Delete, Numbered, env, made, cache, writer, platform
<1> QED BY <1>4, <1>6

(* db_delete_DB_file. *)
LEMMA DropFacts ==
  ASSUME TInv, DropIndex
  PROVE  /\ rowId' \in [Recs -> 0..MaxRec] /\ dbFiles' \subseteq Hours
         /\ \A q \in Recs : rowId'[q] \in {rowId[q], 0}
         /\ \A j \in index' : /\ j \in IndexRow
                              /\ \E i \in index : j.id = i.id /\ j.store = i.store
<1> USE DEF TInv
<1>1. /\ rowId' \in [Recs -> 0..MaxRec] /\ dbFiles' \subseteq Hours
      /\ \A q \in Recs : rowId'[q] \in {rowId[q], 0}
  BY ConstFacts DEF DropIndex, TypeOK
<1>2. ASSUME NEW j \in index'
      PROVE  j \in IndexRow /\ \E i \in index : j.id = i.id /\ j.store = i.store
  <2>1. CASE j \in index
    BY <2>1 DEF TypeOK
  <2>2. CASE j \in SetSend(uidx.id, {})
    <3>1. {} \in SUBSET Flags
      OBVIOUS
    <3> QED BY <2>2, <3>1, SetSendFacts
  <2> QED BY <2>1, <2>2 DEF DropIndex
<1> QED BY <1>1, <1>2

LEMMA TDrop == TInv /\ (Drop \/ ClrDrop) => TInv'
<1> SUFFICES ASSUME TInv, Drop \/ ClrDrop PROVE TInv'
  OBVIOUS
<1> USE DEF TInv
<1>1. upc' \in {"clr", "idle"} /\ DropIndex
  BY DEF Drop, ClrDrop
<1>2. /\ rowId' \in [Recs -> 0..MaxRec] /\ dbFiles' \subseteq Hours
      /\ \A q \in Recs : rowId'[q] \in {rowId[q], 0}
      /\ \A j \in index' : /\ j \in IndexRow
                           /\ \E i \in index : j.id = i.id /\ j.store = i.store
  BY <1>1, DropFacts
<1>3. TypeOK'
  BY <1>1, <1>2 DEF Drop, ClrDrop, TypeOK, env, made, cache, writer, platform
<1>4. \A r \in Recs : rowId'[r] <= r /\ (r > nrec => rowId'[r] = 0)
  BY <1>2, RecFacts DEF Numbered
<1>5. nrec' = nrec /\ wpc' = wpc /\ hourOf' = hourOf
  BY DEF Drop, ClrDrop, made, writer
<1>6. Numbered'
  BY <1>1, <1>2, <1>4, <1>5 DEF Numbered
<1> QED BY <1>3, <1>6

LEMMA TClr == TInv /\ Clr => TInv'
<1> SUFFICES ASSUME TInv, Clr PROVE TInv'
  OBVIOUS
<1> USE DEF TInv
<1>1. uidx' \in IndexRow
  <2>1. CASE index # {} /\ uidx' = OldestFile
    <3>1. index \in SUBSET IndexRow
      BY DEF TypeOK
    <3> QED BY <2>1, <3>1, FirstIndexFacts DEF OldestFile
  <2>2. CASE uidx' = uidx
    BY <2>2 DEF TypeOK
  <2> QED BY <2>1, <2>2 DEF Clr
<1>2. upc' \in {"idle", "clrRow"}
  BY DEF Clr
<1>3. TypeOK'
  BY <1>1, <1>2 DEF Clr, TypeOK, env, made, disk, cache, writer, platform
<1>4. Numbered'
  BY <1>2 DEF Clr, Numbered, env, made, disk, cache, writer, platform
<1> QED BY <1>3, <1>4

LEMMA TClrRow == TInv /\ ClrRow => TInv'
<1> SUFFICES ASSUME TInv, ClrRow PROVE TInv'
  OBVIOUS
<1> USE DEF TInv
<1> DEFINE all == RowsOf(uidx.hour)
<1>1. upc' \in {"clrRow", "clrDrop"} /\ dbFiles' \subseteq Hours /\ pics' \subseteq Recs
  BY DEF ClrRow, TypeOK, IndexRow
<1>2. /\ rowId' \in [Recs -> 0..MaxRec] /\ rowSend' \in [Recs -> SUBSET Flags]
      /\ rowStore' = rowStore
      /\ \A q \in Recs : rowId'[q] \in {rowId[q], 0}
  <2>1. CASE all # {} /\ RowGone(FirstRow(all), rowStore[FirstRow(all)])
    <3>1. all \in SUBSET Recs
      BY DEF RowsOf
    <3>2. FirstRow(all) \in Recs
      <4> HIDE DEF all
      <4> QED BY <2>1, <3>1, FirstRowFacts
    <3>3. rowStore[FirstRow(all)] \in {0, 1}
      BY <3>2 DEF TypeOK
    <3> HIDE DEF all
    <3> QED BY <2>1, <3>2, <3>3, RowGoneFacts
  <2>2. CASE UNCHANGED <<pics, rowId, rowSend, rowStore>>
    BY <2>2 DEF TypeOK
  <2> QED BY <2>1, <2>2 DEF ClrRow
<1>3. TypeOK'
  BY <1>1, <1>2 DEF ClrRow, TypeOK, env, made, cache, writer, platform
<1>4. \A r \in Recs : rowId'[r] <= r /\ (r > nrec => rowId'[r] = 0)
  BY <1>2, RecFacts DEF Numbered
<1>5. Numbered'
  BY <1>1, <1>2, <1>4 DEF ClrRow, Numbered, env, made, cache, writer, platform
<1> QED BY <1>3, <1>5

LEMMA TEnvironment == TInv /\ (Environment \/ Restart) => TInv'
<1> SUFFICES ASSUME TInv, Environment \/ Restart PROVE TInv'
  OBVIOUS
<1> USE DEF TInv
<1>1. CASE Environment
  <2>1. /\ cfg' \in Configs /\ hour' \in Hours /\ restarts' = restarts
    BY <1>1, ConstFacts
       DEF Environment, FtpFlip, MqFlip, SetConfig, NextHour, TypeOK, Hours
  <2>2. {ftpUp', mqUp'} \subseteq BOOLEAN
    BY <1>1, Zenon DEF Environment, FtpFlip, MqFlip, SetConfig, NextHour, TypeOK
  <2>3. UNCHANGED <<made, disk, cache, writer, uploader, platform>>
    BY <1>1 DEF Environment
  <2>4. TypeOK'
    BY <2>1, <2>2, <2>3 DEF TypeOK, made, disk, cache, writer, uploader, platform
  <2>5. Numbered'
    BY <2>3 DEF Numbered, made, disk, cache, writer, uploader, platform
  <2> QED BY <2>4, <2>5
<1>2. CASE Restart
  <2>1. NoIndex \in IndexRow
    BY ConstFacts DEF NoIndex, IndexRow, Hours
  <2>2. 0 \in 0..MaxRec /\ restarts' \in 0..MaxRestarts
    BY <1>2, ConstFacts DEF Restart, TypeOK
  <2>3. TypeOK'
    BY <1>2, <2>1, <2>2 DEF Restart, TypeOK, made, disk, platform
  <2>4. Numbered'
    BY <1>2 DEF Restart, Numbered, made, disk, platform
  <2> QED BY <2>3, <2>4
<1> QED BY <1>1, <1>2

LEMMA TypeStep == TInv /\ [Next]_vars => TInv'
<1> SUFFICES ASSUME TInv, [Next]_vars PROVE TInv'
  OBVIOUS
<1>1. CASE UNCHANGED vars
  BY <1>1 DEF TInv, TypeOK, Numbered, vars, env, made, disk, cache, writer, uploader, platform
<1>2. CASE Picture \/ Saving
  BY <1>2, TPicture, TInfo, TAccess, TInsertIndex, TFirstRead, TUpdateSend,
     TUpdateStore, TWriteRow, Zenon DEF Saving
<1>3. CASE Uploader
  BY <1>3, TPoll, TSelect, TSendPicture, TSendInfo, TDelete, TDrop, TClr, TClrRow, Zenon
     DEF Uploader
<1>4. CASE Environment \/ Restart
  BY <1>4, TEnvironment
<1> QED BY <1>1, <1>2, <1>3, <1>4 DEF Next

LEMMA AlwaysTInv == Spec => []TInv
BY TypeInit, TypeStep, PTL DEF Spec

(* Type correctness: row numbers stay within the number of records in      *)
(* every hourly file and in the index, the cached copy of an index row and *)
(* the upload thread's record included.                                    *)
THEOREM TypeCorrect == Spec => []TypeOK
BY AlwaysTInv, PTL DEF TInv

(* Rows that are removed or read by db_record_clr lose flags, nothing else. *)
LEMMA RowsLoseFlags ==
  ASSUME TInv, Delete \/ ClrRow
  PROVE  \A q \in Recs : rowSend'[q] \in {rowSend[q], {}} /\ rowId'[q] \in {rowId[q], 0}
<1> USE DEF TInv
<1>1. CASE Delete
  BY <1>1, RowGoneFacts DEF Delete, Numbered, TypeOK
<1>2. CASE ClrRow
  <2> DEFINE all == RowsOf(uidx.hour)
  <2>1. CASE all # {} /\ RowGone(FirstRow(all), rowStore[FirstRow(all)])
    <3>1. all \in SUBSET Recs
      BY DEF RowsOf
    <3>2. FirstRow(all) \in Recs
      <4> HIDE DEF all
      <4> QED BY <2>1, <3>1, FirstRowFacts
    <3>3. rowStore[FirstRow(all)] \in {0, 1}
      BY <3>2 DEF TypeOK
    <3> HIDE DEF all
    <3> QED BY <2>1, <3>2, <3>3, RowGoneFacts
  <2>2. CASE UNCHANGED <<pics, rowId, rowSend, rowStore>>
    BY <2>2
  <2> QED BY <1>2, <2>1, <2>2 DEF ClrRow
<1> QED BY <1>1, <1>2

-----------------------------------------------------------------------------
(* Who says that a record's picture was sent already, the platform has it:  *)
(* the result thread, the rows on disk and the upload thread, for as long   *)
(* as the operator does not switch uploading.                               *)
Uploaded ==
  /\ wpc = "info" => "info" \notin wsend
  /\ wpc = "info" /\ cfg.upload = 1 /\ "pic" \notin wsend => nrec \in ftpGot
  /\ wpc \notin {"idle", "info"} /\ wsend = {"info"} => nrec \in ftpGot
  /\ \A r \in Recs : rowSend[r] = {"info"} => r \in ftpGot
  /\ upc \in {"picture", "info"} /\ usend = {"info"} => urec \in ftpGot
  /\ InfoAfterPicture

LEMMA UploadedInit == Init => Uploaded
<1> SUFFICES ASSUME Init PROVE Uploaded
  OBVIOUS
<1>1. {} # {"info"}
  OBVIOUS
<1> QED BY <1>1 DEF Init, Uploaded, InfoAfterPicture

LEMMA UploadedWriter == TInv /\ Uploaded /\ (Picture \/ Saving) => Uploaded'
<1> SUFFICES ASSUME TInv, Uploaded, Picture \/ Saving PROVE Uploaded'
  OBVIOUS
<1> USE DEF TInv
<1>1. CASE Picture
  <2>1. wpc' = "info" /\ cfg' = cfg /\ nrec' = nrec + 1 /\ ftpGot \subseteq ftpGot'
    BY <1>1 DEF Picture, NewRecord, env
  <2>2. /\ cfg.upload = 1 /\ "pic" \notin wsend' => nrec' \in ftpGot'
        /\ "info" \notin wsend'
    BY <1>1 DEF Picture, NewRecord, SendResult
  <2>3. UNCHANGED <<rowSend, upc, usend, urec, infoSends>>
    BY <1>1 DEF Picture, rows, uploader
  <2> QED BY <2>1, <2>2, <2>3 DEF Uploaded, InfoAfterPicture
<1>2. CASE Info
  <2>1. wpc = "info" /\ nrec \in Recs
    BY <1>2 DEF Info, Numbered
  <2>2. UNCHANGED <<cfg, nrec, rowSend, upc, usend, urec, ftpGot>>
    BY <1>2 DEF Info, env, made, disk, uploader
  <2>3. infoSends' = infoSends \/ (infoSends' = Told(nrec) /\ nrec \in ftpGot)
    BY <1>2, <2>1 DEF Info, MaySendInfo, Uploaded
  <2>4. InfoAfterPicture'
    BY <2>1, <2>2, <2>3, ToldType DEF Uploaded, InfoAfterPicture
  <2>5. wpc' \in {"idle", "access"}
    BY <1>2 DEF Info
  <2>6. wpc' = "access" /\ wsend' = {"info"} => nrec \in ftpGot
    <3> SUFFICES ASSUME wpc' = "access", wsend' = {"info"} PROVE nrec \in ftpGot
      OBVIOUS
    <3>1. cfg.upload = 1 /\ wsend' = wsend \union {"info"}
      <4>1. "info" \notin wsend /\ "info" \in wsend'
        BY <2>1 DEF Uploaded
      <4>2. cfg.upload = 0 \/ cfg.upload = 1
        BY ConfigsAssumption DEF TypeOK, AllConfigs
      <4> QED BY <1>2, <4>1, <4>2 DEF Info, SentFlags
    <3>2. "pic" \notin wsend
      BY <3>1
    <3> QED BY <2>1, <3>1, <3>2 DEF Uploaded
  <2> QED BY <2>2, <2>4, <2>5, <2>6 DEF Uploaded
<1>3. CASE Access \/ InsertIndex \/ FirstRead \/ UpdateSend \/ UpdateStore
  <2>1. UNCHANGED <<cfg, nrec, rowSend, upc, usend, urec, ftpGot, infoSends, wsend>>
    BY <1>3 DEF Access, InsertIndex, FirstRead, UpdateSend, UpdateStore, env, made, disk,
       rows, uploader, platform
  <2>2. wpc \notin {"idle", "info"} /\ wpc' # "info"
    BY <1>3 DEF Access, InsertIndex, FirstRead, UpdateSend, UpdateStore
  <2> QED BY <2>1, <2>2 DEF Uploaded, InfoAfterPicture
<1>4. CASE WriteRow
  <2>1. UNCHANGED <<cfg, nrec, upc, usend, urec, ftpGot, infoSends, wsend>>
    BY <1>4 DEF WriteRow, env, made, uploader, platform
  <2>2. wpc = "row" /\ wpc' = "idle" /\ nrec \in Recs
    BY <1>4 DEF WriteRow, Numbered
  <2>3. rowSend' = rowSend \/ rowSend' = [rowSend EXCEPT ![nrec] = wsend]
    BY <1>4 DEF WriteRow, rows
  <2>4. \A r \in Recs : rowSend'[r] = rowSend[r] \/ (r = nrec /\ rowSend'[r] = wsend)
    BY <2>2, <2>3 DEF TypeOK
  <2> QED BY <2>1, <2>2, <2>4 DEF Uploaded, InfoAfterPicture
<1> QED BY <1>1, <1>2, <1>3, <1>4 DEF Saving

LEMMA UploadedUploader == TInv /\ Uploaded /\ Uploader => Uploaded'
<1> SUFFICES ASSUME TInv, Uploaded, Uploader PROVE Uploaded'
  OBVIOUS
<1> USE DEF TInv
<1>0. UNCHANGED <<cfg, wpc, wsend, nrec>> /\ ftpGot \subseteq ftpGot'
  BY DEF Uploader, Poll, Select, SendPicture, SendInfo, Delete, Drop, Clr, ClrRow, ClrDrop,
     env, made, writer, platform
<1>1. CASE Poll \/ Drop \/ Clr \/ ClrDrop
  <2>1. UNCHANGED <<rowSend, infoSends>> /\ upc' \notin {"picture", "info"}
    BY <1>1 DEF Poll, Drop, Clr, ClrDrop, disk, platform
  <2> QED BY <1>0, <2>1 DEF Uploaded, InfoAfterPicture
<1>2. CASE Select
  <2>1. UNCHANGED <<rowSend, infoSends>>
    BY <1>2 DEF Select, platform
  <2>2. upc' \in {"picture", "info"} /\ usend' = {"info"} => urec' \in ftpGot
    <3> DEFINE todo == {r \in RowsOf(uidx.hour) : rowId[r] > ulast /\ rowSend[r] # {}}
    <3> SUFFICES ASSUME upc' \in {"picture", "info"}, usend' = {"info"}
                 PROVE  urec' \in ftpGot
      OBVIOUS
    <3>1. todo # {} /\ urec' = FirstRow(todo) /\ rowSend[FirstRow(todo)] = {"info"}
      BY <1>2 DEF Select
    <3>2. todo \in SUBSET Recs
      BY DEF RowsOf
    <3>3. FirstRow(todo) \in Recs
      <4> HIDE DEF todo
      <4> QED BY <3>1, <3>2, FirstRowFacts
    <3> HIDE DEF todo
    <3> QED BY <3>1, <3>3 DEF Uploaded
  <2> QED BY <1>0, <2>1, <2>2 DEF Uploaded, InfoAfterPicture
<1>3. CASE SendPicture
  <2>1. UNCHANGED <<rowSend, infoSends, urec>> /\ upc = "picture"
    BY <1>3 DEF SendPicture, rows
  <2>2. usend' = usend \/ urec \in ftpGot'
    BY <1>3 DEF SendPicture
  <2> QED BY <1>0, <2>1, <2>2 DEF Uploaded, InfoAfterPicture
<1>4. CASE SendInfo
  <2>1. UNCHANGED <<rowSend, ftpGot>> /\ upc' \notin {"picture", "info"} /\ urec \in Recs
    BY <1>4 DEF SendInfo, disk, Numbered
  <2>2. infoSends' = infoSends \/ (infoSends' = Told(urec) /\ urec \in ftpGot)
    BY <1>4 DEF SendInfo, Uploaded
  <2>3. InfoAfterPicture'
    BY <2>1, <2>2, ToldType DEF Uploaded, InfoAfterPicture
  <2> QED BY <1>0, <2>1, <2>3 DEF Uploaded
<1>5. CASE Delete \/ ClrRow
  <2>1. UNCHANGED <<infoSends>> /\ upc' \notin {"picture", "info"}
    BY <1>5 DEF Delete, ClrRow, platform
  <2>2. \A q \in Recs : rowSend'[q] \in {rowSend[q], {}}
    BY <1>5, RowsLoseFlags
  <2>3. {} # {"info"}
    OBVIOUS
  <2> QED BY <1>0, <2>1, <2>2, <2>3 DEF Uploaded, InfoAfterPicture
<1> QED BY <1>1, <1>2, <1>3, <1>4, <1>5 DEF Uploader

LEMMA UploadedStep ==
  ASSUME \A c, d \in Configs : c.upload = d.upload, TInv, Uploaded, [Next]_vars
  PROVE  Uploaded'
<1>1. CASE UNCHANGED vars
  BY <1>1 DEF Uploaded, InfoAfterPicture, vars, env, made, disk, writer, uploader, platform
<1>2. CASE Environment
  <2>1. cfg' \in Configs /\ cfg \in Configs
    BY <1>2 DEF Environment, FtpFlip, MqFlip, SetConfig, NextHour, TInv, TypeOK
  <2>2. cfg'.upload = cfg.upload
    BY <2>1
  <2>3. UNCHANGED <<made, disk, cache, writer, uploader, platform>>
    BY <1>2 DEF Environment
  <2> QED BY <2>2, <2>3 DEF Uploaded, InfoAfterPicture, made, disk, writer, uploader, platform
<1>3. CASE Restart
  BY <1>3 DEF Restart, Uploaded, InfoAfterPicture, made, disk, platform
<1> QED BY <1>1, <1>2, <1>3, UploadedWriter, UploadedUploader DEF Next

(* The platform is told of a record only after its picture: immediate       *)
(* upload, retransmission and restarts at any moment send the picture first *)
(* and send nothing when that failed, whatever fails on disk or on the way. *)
(* Uploading itself must not be switched: a record that arrives while it is *)
(* off and is written while it is on has no picture on the platform.        *)
THEOREM InfoFollowsPicture ==
  ASSUME \A c, d \in Configs : c.upload = d.upload
  PROVE  Spec => []InfoAfterPicture
<1>1. TInv /\ Uploaded /\ [Next]_vars => Uploaded'
  BY UploadedStep
<1> QED BY <1>1, AlwaysTInv, UploadedInit, PTL DEF Spec, Uploaded

-----------------------------------------------------------------------------
(* A record with a flag left has not been told of in this run of the       *)
(* process, except between the message and the removal of its row.         *)
Untold ==
  /\ \A r \in Recs : r > nrec => infoSends[r] = 0
  /\ wpc = "info" => infoSends[nrec] = 0
  /\ wpc # "idle" /\ wsend # {} => infoSends[nrec] = 0
  /\ \A r \in Recs : rowId[r] > 0 /\ rowSend[r] # {} =>
       infoSends[r] <= restarts \/ (upc = "delete" /\ urec = r)
  /\ upc \in {"picture", "info"} => infoSends[urec] <= restarts
  /\ InfoOncePerRun

LEMMA CountFacts ==
  ASSUME TypeOK
  PROVE  restarts \in Nat /\ \A r \in Recs : infoSends[r] \in Nat
BY ConstFacts DEF TypeOK

LEMMA UntoldInit == Init => Untold
<1> SUFFICES ASSUME Init PROVE Untold
  OBVIOUS
<1> QED BY DEF Init, Untold, InfoOncePerRun

LEMMA UntoldWriter == TInv /\ Untold /\ (Picture \/ Saving) => Untold'
<1> SUFFICES ASSUME TInv, Untold, Picture \/ Saving PROVE Untold'
  OBVIOUS
<1> USE DEF TInv
<1>0. UNCHANGED <<restarts, upc, urec>> /\ restarts \in Nat
  BY CountFacts DEF Picture, Saving, Info, Access, InsertIndex, FirstRead, UpdateSend,
     UpdateStore, WriteRow, env, uploader
<1>1. CASE Picture
  <2>1. /\ UNCHANGED <<infoSends, rowId, rowSend>> /\ nrec' = nrec + 1
        /\ nrec + 1 \in Recs /\ nrec \in Nat
    BY <1>1, ConstFacts, RecFacts DEF Picture, NewRecord, rows, Recs
  <2>2. \A r \in Recs : r > nrec' => r > nrec
    BY <2>1, RecFacts
  <2>3. infoSends[nrec + 1] = 0
    BY <2>1 DEF Untold
  <2> QED BY <1>0, <2>1, <2>2, <2>3 DEF Untold, InfoOncePerRun
<1>2. CASE Info
  <2>1. /\ wpc = "info" /\ nrec \in Recs /\ nrec \in Nat /\ infoSends[nrec] = 0
        /\ rowId[nrec] = 0
    BY <1>2, RecFacts DEF Info, Numbered, Untold
  <2>2. UNCHANGED <<nrec, rowId, rowSend>>
    BY <1>2 DEF Info, made, disk
  <2>3. infoSends' = infoSends \/ (infoSends' = Told(nrec) /\ wsend' = {})
    BY <1>2 DEF Info, SentFlags
  <2>4. wpc' \in {"idle", "access"}
    BY <1>2 DEF Info
  <2>5. upc \in {"picture", "info", "delete"} => urec \in Recs /\ urec # nrec
    BY <2>1 DEF Numbered
  <2>6. CASE infoSends' = infoSends
    BY <1>0, <2>1, <2>2, <2>4, <2>6 DEF Untold, InfoOncePerRun
  <2>7. CASE infoSends' = Told(nrec) /\ wsend' = {}
    <3>1. /\ \A q \in Recs : q # nrec => infoSends'[q] = infoSends[q]
          /\ infoSends'[nrec] \in Nat /\ infoSends'[nrec] <= 1
      BY <2>1, <2>7, ToldType
    <3>2. infoSends'[nrec] <= 1 + restarts
      BY <1>0, <3>1
    <3>3. \A r \in Recs : infoSends'[r] <= 1 + restarts
      BY <3>1, <3>2 DEF Untold, InfoOncePerRun
    <3>4. \A r \in Recs : r > nrec => infoSends'[r] = 0
      <4>1. ~(nrec > nrec)
        BY <2>1
      <4> QED BY <3>1, <4>1 DEF Untold
    <3>5. \A r \in Recs : rowId[r] > 0 => infoSends'[r] = infoSends[r]
      <4>1. ~(rowId[nrec] > 0)
        BY <2>1
      <4> QED BY <3>1, <4>1
    <3> QED BY <1>0, <2>2, <2>4, <2>5, <2>7, <3>1, <3>3, <3>4, <3>5
            DEF Untold, InfoOncePerRun
  <2> QED BY <2>3, <2>6, <2>7
<1>3. CASE Access \/ InsertIndex \/ FirstRead \/ UpdateSend \/ UpdateStore
  <2>1. UNCHANGED <<nrec, rowId, rowSend, infoSends, wsend>>
    BY <1>3 DEF Access, InsertIndex, FirstRead, UpdateSend, UpdateStore, made, disk,
       rows, platform
  <2>2. wpc # "idle" /\ wpc' # "info"
    BY <1>3 DEF Access, InsertIndex, FirstRead, UpdateSend, UpdateStore
  <2> QED BY <1>0, <2>1, <2>2 DEF Untold, InfoOncePerRun
<1>4. CASE WriteRow
  <2>1. UNCHANGED <<nrec, infoSends, wsend>>
    BY <1>4 DEF WriteRow, made, platform
  <2>2. wpc = "row" /\ wpc' = "idle" /\ nrec \in Recs
    BY <1>4 DEF WriteRow, Numbered
  <2>3. \A r \in Recs : r # nrec => rowId'[r] = rowId[r] /\ rowSend'[r] = rowSend[r]
    BY <1>4 DEF WriteRow, TypeOK, rows
  <2>4. rowSend'[nrec] = wsend \/ rowId'[nrec] = 0
    BY <1>4, <2>2 DEF WriteRow, TypeOK, rows, Numbered
  <2>5. \A r \in Recs : rowId'[r] > 0 /\ rowSend'[r] # {} =>
          infoSends[r] <= restarts \/ (upc = "delete" /\ urec = r)
    <3> SUFFICES ASSUME NEW r \in Recs, rowId'[r] > 0, rowSend'[r] # {}
                 PROVE  infoSends[r] <= restarts \/ (upc = "delete" /\ urec = r)
      OBVIOUS
    <3>1. CASE r # nrec
      BY <2>3, <3>1 DEF Untold
    <3>2. CASE r = nrec
      <4>1. wsend # {}
        BY <2>4, <3>2
      <4>2. infoSends[r] = 0
        BY <2>2, <3>2, <4>1 DEF Untold
      <4> QED BY <1>0, <4>2
    <3> QED BY <3>1, <3>2
  <2> QED BY <1>0, <2>1, <2>2, <2>5 DEF Untold, InfoOncePerRun
<1> QED BY <1>1, <1>2, <1>3, <1>4 DEF Saving

LEMMA UntoldUploader ==
  ASSUME StorageMayFail = FALSE, TInv, Untold, Uploader
  PROVE  Untold'
<1> USE DEF TInv
<1>0. UNCHANGED <<restarts, wpc, wsend, nrec>> /\ restarts \in Nat
  BY CountFacts DEF Uploader, Poll, Select, SendPicture, SendInfo, Delete, Drop, Clr,
     ClrRow, ClrDrop, env, made, writer
<1>1. CASE Poll \/ Drop \/ Clr \/ ClrDrop
  <2>1. UNCHANGED <<rowSend, infoSends, urec>> /\ upc' \notin {"picture", "info"}
    BY <1>1 DEF Poll, Drop, Clr, ClrDrop, disk, platform
  <2>2. upc # "delete"
    BY <1>1 DEF Poll, Drop, Clr, ClrDrop
  <2>3. \A q \in Recs : rowId'[q] \in {rowId[q], 0}
    BY <1>1, DropFacts DEF Poll, Drop, Clr, ClrDrop, disk
  <2> QED BY <1>0, <2>1, <2>2, <2>3 DEF Untold, InfoOncePerRun
<1>2. CASE Select
  <2>1. UNCHANGED <<rowId, rowSend, infoSends>> /\ upc = "select"
        /\ upc' \in {"picture", "drop"}
    BY <1>2 DEF Select, platform
  <2>2. upc' = "picture" => infoSends[urec'] <= restarts
    <3> DEFINE todo == {r \in RowsOf(uidx.hour) : rowId[r] > ulast /\ rowSend[r] # {}}
    <3> SUFFICES ASSUME upc' = "picture" PROVE infoSends[urec'] <= restarts
      OBVIOUS
    <3>1. todo # {} /\ urec' = FirstRow(todo)
      BY <1>2 DEF Select
    <3>2. todo \in SUBSET Recs
      BY DEF RowsOf
    <3>3. FirstRow(todo) \in todo
      <4> HIDE DEF todo
      <4> QED BY <3>1, <3>2, FirstRowFacts
    <3>4. urec' \in Recs /\ rowId[urec'] > 0 /\ rowSend[urec'] # {}
      BY <3>1, <3>3 DEF RowsOf
    <3> QED BY <2>1, <3>4 DEF Untold
  <2> QED BY <1>0, <2>1, <2>2 DEF Untold, InfoOncePerRun
<1>3. CASE SendPicture
  <2>1. UNCHANGED <<rowId, rowSend, infoSends, urec>> /\ upc = "picture"
    BY <1>3 DEF SendPicture, rows
  <2> QED BY <1>0, <2>1 DEF Untold, InfoOncePerRun
<1>4. CASE SendInfo
  <2>1. UNCHANGED <<rowId, rowSend, urec>> /\ urec \in Recs /\ upc = "info"
    BY <1>4 DEF SendInfo, disk, Numbered
  <2>2. CASE upc' = "delete" /\ infoSends' = Told(urec)
    <3>1. infoSends[urec] <= restarts /\ infoSends[urec] \in Nat
      BY <2>1, CountFacts DEF Untold
    <3>2. /\ \A q \in Recs : q # urec => infoSends'[q] = infoSends[q]
          /\ infoSends'[urec] \in Nat /\ infoSends'[urec] <= infoSends[urec] + 1
      BY <2>1, <2>2, ToldType
    <3>3. infoSends'[urec] <= 1 + restarts
      BY <1>0, <3>1, <3>2
    <3>4. \A r \in Recs : infoSends'[r] <= 1 + restarts
      BY <3>2, <3>3 DEF Untold, InfoOncePerRun
    <3>5. urec # nrec \/ wpc = "idle"
      BY <2>1 DEF Numbered
    <3>6. ~(urec > nrec)
      BY <2>1 DEF Numbered
    <3>7. wpc # "idle" => nrec \in Recs
      BY DEF Numbered
    <3>8. \A r \in Recs : r > nrec => infoSends'[r] = 0
      BY <3>2, <3>6 DEF Untold
    <3>9. wpc # "idle" => infoSends'[nrec] = infoSends[nrec]
      BY <3>2, <3>5, <3>7
    <3> QED BY <1>0, <2>1, <2>2, <3>2, <3>4, <3>8, <3>9 DEF Untold, InfoOncePerRun
  <2>3. CASE upc' \in {"delete", "clr"} /\ infoSends' = infoSends
    BY <1>0, <2>1, <2>3 DEF Untold, InfoOncePerRun
  <2> QED BY <1>4, <2>2, <2>3 DEF SendInfo
<1>5. CASE Delete
  <2>1. UNCHANGED <<infoSends, urec>> /\ upc = "delete" /\ upc' = "clr" /\ urec \in Recs
    BY <1>5 DEF Delete, platform, Numbered
  <2>2. rowId'[urec] = 0 \/ rowSend'[urec] = {}
    BY <1>5, <2>1 DEF Delete, RowGone, TypeOK
  <2>3. \A q \in Recs : rowSend'[q] \in {rowSend[q], {}} /\ rowId'[q] \in {rowId[q], 0}
    BY <1>5, RowsLoseFlags
  <2>4. \A r \in Recs : rowId'[r] > 0 /\ rowSend'[r] # {} => infoSends[r] <= restarts
    <3> SUFFICES ASSUME NEW r \in Recs, rowId'[r] > 0, rowSend'[r] # {}
                 PROVE  infoSends[r] <= restarts
      OBVIOUS
    <3>1. r # urec
      BY <2>2
    <3>2. rowId[r] > 0 /\ rowSend[r] # {}
      BY <2>3
    <3> QED BY <3>1, <3>2 DEF Untold
  <2> QED BY <1>0, <2>1, <2>4 DEF Untold, InfoOncePerRun
<1>6. CASE ClrRow
  <2>1. UNCHANGED <<infoSends, urec>> /\ upc = "clrRow" /\ upc' \in {"clrRow", "clrDrop"}
    BY <1>6 DEF ClrRow, platform
  <2>2. \A q \in Recs : rowSend'[q] \in {rowSend[q], {}} /\ rowId'[q] \in {rowId[q], 0}
    BY <1>6, RowsLoseFlags
  <2> QED BY <1>0, <2>1, <2>2 DEF Untold, InfoOncePerRun
<1> QED BY <1>1, <1>2, <1>3, <1>4, <1>5, <1>6 DEF Uploader

LEMMA UntoldStep ==
  ASSUME StorageMayFail = FALSE, TInv, Untold, [Next]_vars
  PROVE  Untold'
<1>1. CASE UNCHANGED vars
  BY <1>1 DEF Untold, InfoOncePerRun, vars, env, made, disk, writer, uploader, platform
<1>2. CASE Environment
  <2>1. UNCHANGED <<made, disk, cache, writer, uploader, platform, restarts>>
    BY <1>2 DEF Environment, FtpFlip, MqFlip, SetConfig, NextHour
  <2> QED BY <2>1 DEF Untold, InfoOncePerRun, made, disk, writer, uploader, platform
<1>3. CASE Restart
  <2>1. /\ restarts' = restarts + 1 /\ wpc' = "idle" /\ upc' = "idle"
        /\ UNCHANGED <<nrec, infoSends, rowId, rowSend>>
    BY <1>3 DEF Restart, made, disk, platform
  <2>2. \A r \in Recs : infoSends[r] <= restarts' /\ infoSends[r] <= 1 + restarts'
    BY <2>1, CountFacts DEF TInv, Untold, InfoOncePerRun
  <2> QED BY <2>1, <2>2 DEF Untold, InfoOncePerRun
<1> QED BY <1>1, <1>2, <1>3, UntoldWriter, UntoldUploader DEF Next

(* The platform is told of a record once, and once more for each restart:  *)
(* the result thread and the upload thread never both send the same record *)
(* and the row of a record that was told goes before the next round looks  *)
(* for work.  SQLite statements must succeed.                              *)
THEOREM ToldOncePerRun ==
  ASSUME StorageMayFail = FALSE
  PROVE  Spec => []InfoOncePerRun
<1>1. TInv /\ Untold /\ [Next]_vars => Untold'
  BY UntoldStep
<1> QED BY <1>1, AlwaysTInv, UntoldInit, PTL DEF Spec, Untold

-----------------------------------------------------------------------------
(* With records kept as history, everything on disk and in either thread's *)
(* hands is marked kept.                                                   *)
Archived ==
  /\ \A i \in index : i.store = 1
  /\ \A r \in Recs : rowId[r] > 0 => rowStore[r] = 1
  /\ wpc \notin {"idle", "info"} => wstore = 1
  /\ upc \in {"select", "picture", "info", "delete", "drop"} => uidx.store = 1
  /\ upc \in {"picture", "info", "delete"} => ustore = 1
  /\ upc \notin {"clrRow", "clrDrop"}

(* One step that leaves history alone. *)
KeepsHistory ==
  \A r \in Recs : rowId[r] > 0 /\ rowStore[r] = 1 =>
    /\ rowId'[r] = rowId[r]
    /\ r \in pics => r \in pics'

LEMMA ArchivedInit == Init => Archived
<1> SUFFICES ASSUME Init PROVE Archived
  OBVIOUS
<1> QED BY DEF Init, Archived

LEMMA ArchivedWriter ==
  ASSUME \A c \in Configs : c.save = 1, TInv, Archived, Picture \/ Saving
  PROVE  Archived' /\ KeepsHistory
<1> USE DEF TInv
<1>0. UNCHANGED <<upc, uidx, ustore>>
  BY DEF Picture, Saving, Info, Access, InsertIndex, FirstRead, UpdateSend, UpdateStore,
     WriteRow, uploader
<1>1. CASE Picture
  BY <1>0, <1>1 DEF Picture, FileSave, Archived, KeepsHistory, rows
<1>2. CASE Info
  <2>1. wstore' = 1
    BY <1>2 DEF Info, TypeOK
  <2> QED BY <1>0, <1>2, <2>1 DEF Info, Archived, KeepsHistory, disk
<1>3. CASE Access \/ FirstRead
  BY <1>0, <1>3 DEF Access, FirstRead, Archived, KeepsHistory, disk
<1>4. CASE InsertIndex \/ UpdateSend \/ UpdateStore
  <2>1. UNCHANGED <<pics, rowId, rowStore, wstore>> /\ wpc \notin {"idle", "info"}
    BY <1>4 DEF InsertIndex, UpdateSend, UpdateStore, rows
  <2>2. ASSUME NEW j \in index' PROVE j.store = 1
    <3>1. CASE j \in index
      BY <3>1 DEF Archived
    <3>2. CASE InsertIndex /\ j = NewIndexRow(hourOf[nrec], wsend, wstore)
      BY <2>1, <3>2 DEF NewIndexRow, Archived
    <3>3. CASE j \in SetSend(cId, cSend \union wsend)
      <4>1. cSend \union wsend \in SUBSET Flags
        BY DEF TypeOK
      <4>2. \E i \in index : j.store = i.store
        BY <3>3, <4>1, SetSendFacts
      <4> QED BY <4>2 DEF Archived
    <3>4. CASE j \in SetStore(cId, wstore)
      <4>1. wstore \in {0, 1} /\ wstore = 1
        BY <2>1 DEF TypeOK, Archived
      <4>2. \E i \in index : j.store \in {i.store, wstore}
        BY <3>4, <4>1, SetStoreFacts
      <4> QED BY <4>1, <4>2 DEF Archived
    <3> QED BY <1>4, <3>1, <3>2, <3>3, <3>4 DEF InsertIndex, UpdateSend, UpdateStore
  <2>3. wpc' \in {"row", "store"}
    BY <1>4 DEF InsertIndex, UpdateSend, UpdateStore
  <2> QED BY <1>0, <2>1, <2>2, <2>3 DEF Archived, KeepsHistory
<1>5. CASE WriteRow
  <2>1. UNCHANGED <<pics, index>> /\ wpc' = "idle" /\ wpc = "row" /\ wstore = 1
    BY <1>5 DEF WriteRow, Archived
  <2>2. nrec \in Recs /\ rowId[nrec] = 0 /\ ~(rowId[nrec] > 0)
    BY <2>1 DEF Numbered
  <2>3. \A r \in Recs : r # nrec => rowId'[r] = rowId[r] /\ rowStore'[r] = rowStore[r]
    BY <1>5 DEF WriteRow, TypeOK, rows
  <2>4. rowStore'[nrec] = wstore \/ rowId'[nrec] = 0
    BY <1>5, <2>2 DEF WriteRow, TypeOK, rows
  <2>5. \A r \in Recs : rowId'[r] > 0 => rowStore'[r] = 1
    <3> SUFFICES ASSUME NEW r \in Recs, rowId'[r] > 0 PROVE rowStore'[r] = 1
      OBVIOUS
    <3>1. CASE r # nrec
      BY <2>3, <3>1 DEF Archived
    <3>2. CASE r = nrec
      BY <2>1, <2>4, <3>2
    <3> QED BY <3>1, <3>2
  <2>6. KeepsHistory
    BY <2>1, <2>2, <2>3 DEF KeepsHistory
  <2> QED BY <1>0, <2>1, <2>5, <2>6 DEF Archived
<1> QED BY <1>1, <1>2, <1>3, <1>4, <1>5 DEF Saving

LEMMA ArchivedUploader ==
  ASSUME DiskMayFill = FALSE, TInv, Archived, Uploader
  PROVE  Archived' /\ KeepsHistory
<1> USE DEF TInv
<1>0. UNCHANGED <<wpc, wstore>> /\ upc \notin {"clrRow", "clrDrop"}
  BY DEF Uploader, Poll, Select, SendPicture, SendInfo, Delete, Drop, Clr, ClrRow, ClrDrop,
     writer, Archived
<1>1. CASE Poll
  <2> DEFINE flagged == {i \in index : i.send # {}}
  <2>1. UNCHANGED <<pics, rowId, rowStore, index>> /\ upc' \in {"select", "clr"}
    BY <1>1 DEF Poll, disk
  <2>2. upc' = "select" => uidx'.store = 1
    <3> SUFFICES ASSUME upc' = "select" PROVE uidx'.store = 1
      OBVIOUS
    <3>1. flagged # {} /\ uidx' = FirstIndex(flagged)
      BY <1>1 DEF Poll
    <3>2. flagged \in SUBSET IndexRow
      BY DEF TypeOK
    <3>3. FirstIndex(flagged) \in flagged
      <4> HIDE DEF flagged
      <4> QED BY <3>1, <3>2, FirstIndexFacts
    <3> QED BY <3>1, <3>3 DEF Archived
  <2> QED BY <1>0, <2>1, <2>2 DEF Archived, KeepsHistory
<1>2. CASE Select
  <2> DEFINE todo == {r \in RowsOf(uidx.hour) : rowId[r] > ulast /\ rowSend[r] # {}}
  <2>1. /\ UNCHANGED <<pics, rowId, rowStore, index, uidx>> /\ upc = "select"
        /\ upc' \in {"picture", "drop"}
    BY <1>2 DEF Select
  <2>2. upc' = "picture" => ustore' = 1
    <3> SUFFICES ASSUME upc' = "picture" PROVE ustore' = 1
      OBVIOUS
    <3>1. todo # {} /\ ustore' = rowStore[FirstRow(todo)]
      BY <1>2 DEF Select
    <3>2. todo \in SUBSET Recs
      BY DEF RowsOf
    <3>3. FirstRow(todo) \in todo
      <4> HIDE DEF todo
      <4> QED BY <3>1, <3>2, FirstRowFacts
    <3>4. FirstRow(todo) \in Recs /\ rowId[FirstRow(todo)] > 0
      BY <3>3 DEF RowsOf
    <3> QED BY <3>1, <3>4 DEF Archived
  <2> QED BY <1>0, <2>1, <2>2 DEF Archived, KeepsHistory
<1>3. CASE SendPicture
  <2>1. /\ UNCHANGED <<rowId, rowStore, index, uidx, ustore>> /\ upc = "picture"
        /\ upc' \in {"info", "clr", "delete"}
    BY <1>3 DEF SendPicture, NoPicture, rows
  <2>2. pics' = pics
    BY <1>3, <2>1 DEF SendPicture, PicsAfterSend, Archived
  <2> QED BY <1>0, <2>1, <2>2 DEF Archived, KeepsHistory
<1>4. CASE SendInfo
  BY <1>0, <1>4 DEF SendInfo, Archived, KeepsHistory, disk
<1>5. CASE Delete
  <2>1. /\ UNCHANGED <<pics, index>> /\ upc' = "clr" /\ ustore = 1
    BY <1>5 DEF Delete, Archived
  <2>2. UNCHANGED <<rowId, rowStore>>
    BY <1>5, <2>1 DEF Delete, RowGone
  <2> QED BY <1>0, <2>1, <2>2 DEF Archived, KeepsHistory
<1>6. CASE Drop
  <2>1. UNCHANGED <<pics, rowStore>> /\ upc' = "clr" /\ DropIndex /\ uidx.store = 1
    BY <1>6 DEF Drop, Archived
  <2>2. rowId' = rowId
    BY <2>1 DEF DropIndex, KeepsFile
  <2>3. \A j \in index' : \E i \in index : j.store = i.store
    BY <2>1, DropFacts
  <2> QED BY <1>0, <2>1, <2>2, <2>3 DEF Archived, KeepsHistory
<1>7. CASE Clr
  <2>1. UNCHANGED <<pics, rowId, rowStore, index>> /\ upc' = "idle"
    BY <1>7 DEF Clr, disk
  <2> QED BY <1>0, <2>1 DEF Archived, KeepsHistory
<1>8. ~ClrRow /\ ~ClrDrop
  BY <1>0 DEF ClrRow, ClrDrop
<1> QED BY <1>1, <1>2, <1>3, <1>4, <1>5, <1>6, <1>7, <1>8 DEF Uploader

LEMMA ArchivedStep ==
  ASSUME DiskMayFill = FALSE, \A c \in Configs : c.save = 1,
         TInv, Archived, [Next]_vars
  PROVE  Archived' /\ KeepsHistory
<1>1. CASE UNCHANGED vars
  BY <1>1 DEF Archived, KeepsHistory, vars, disk, writer, uploader
<1>2. CASE Environment
  <2>1. UNCHANGED <<disk, writer, uploader>>
    BY <1>2 DEF Environment
  <2> QED BY <2>1 DEF Archived, KeepsHistory, disk, writer, uploader
<1>3. CASE Restart
  BY <1>3 DEF Restart, Archived, KeepsHistory, disk
<1> QED BY <1>1, <1>2, <1>3, ArchivedWriter, ArchivedUploader DEF Next

(* Retransmission, restarts and failing calls never take the row or the    *)
(* picture of a record that was saved as history: neither the row's        *)
(* removal after a send nor the removal of its file from the index.  The   *)
(* operator keeps history on, and the disk does not fill: then db_record_clr *)
(* frees space at the expense of history.                                  *)
THEOREM HistoryIsKept ==
  ASSUME DiskMayFill = FALSE, \A c \in Configs : c.save = 1
  PROVE  Spec => HistoryKept
<1>1. TInv /\ Archived /\ [Next]_vars => Archived' /\ KeepsHistory
  BY ArchivedStep
<1>2. TInv /\ Archived /\ [Next]_vars =>
        [\A r \in Recs : rowId[r] > 0 /\ rowStore[r] = 1 =>
           /\ rowId'[r] = rowId[r]
           /\ r \in pics => r \in pics']_vars
  BY <1>1 DEF KeepsHistory
<1> QED BY <1>1, <1>2, AlwaysTInv, ArchivedInit, PTL DEF Spec, HistoryKept
=============================================================================
