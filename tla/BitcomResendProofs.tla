------------------------- MODULE BitcomResendProofs -------------------------
(* Theorems about BitcomResend, for all values of its constants.           *)
EXTENDS BitcomResend, FiniteSetTheorems, WellFoundedInduction, TLAPS

(* The facts about the constants that the proofs use. *)
LEMMA RecFacts ==
  /\ Rec \subseteq Nat
  /\ IsFiniteSet(Rec)
  /\ 0 \notin Rec
  /\ \A r \in Rec : MaxRec - r \in Nat
  /\ \A r \in Rec : r + 1 \in Rec \cup {Garbage}
  /\ \A r \in Rec \cup {Garbage} : r <= MaxRec => r \in Rec
  /\ 1 \in Rec
<1>1. MaxRec \in Nat /\ MaxRec > 0
  BY BoundsAssumption
<1>2. IsFiniteSet(Rec)
  BY <1>1, FS_Interval DEF Rec
<1> QED BY <1>1, <1>2 DEF Rec, Garbage

LEMMA BackoffFacts ==
  /\ 0 \in BackoffPtr
  /\ \A b \in BackoffPtr : NextBackoff(b) \in BackoffPtr
BY BoundsAssumption DEF BackoffPtr, NextBackoff

LEMMA CountFacts ==
  0 \in Count /\ Count \subseteq Nat
  /\ \A n \in Count : More(n) \in Count /\ More(n) > 0
BY DEF Count, More

LEMMA LimitFacts == MaxLimit \in Nat /\ MaxLimit > 0 /\ Limit \subseteq Nat
                    /\ (\A n \in Limit : n <= MaxLimit)
                    /\ NameCap \in Nat /\ NameCap > 0
BY BoundsAssumption DEF Limit

-----------------------------------------------------------------------------
(* The order of the natural numbers as a relation, for WFMin. *)
NatLess == OpToRel(<, Nat)

(* Every nonempty set of naturals has a least element. *)
LEMMA LeastElement ==
  ASSUME NEW S \in SUBSET Nat, S # {}
  PROVE  \E x \in S : \A y \in S : x <= y
<1>1. IsWellFoundedOn(NatLess, Nat)
  BY NatLessThanWellFounded, Zenon DEF NatLess
<1>2. \A x, y \in Nat : x < y => <<x, y>> \in NatLess
  BY DEF NatLess, OpToRel
<1>3. PICK x \in S : \A y \in S : ~(<<y, x>> \in NatLess)
  BY <1>1, WFMin, Zenon
<1>4. \A y \in S : ~(y < x)
  BY <1>2, <1>3
<1> QED BY <1>4

(* A nonempty set of records has a largest one. *)
LEMMA LargestElement ==
  ASSUME NEW S \in SUBSET Rec, S # {}
  PROVE  \E m \in S : \A q \in S : q <= m
<1> DEFINE D == {MaxRec - q : q \in S}
<1>1. D \subseteq Nat /\ D # {}
  BY RecFacts, Zenon
<1>2. PICK d \in D : \A e \in D : d <= e
  <2> HIDE DEF D
  <2> QED BY <1>1, LeastElement
<1>3. PICK m \in S : d = MaxRec - m
  BY <1>2
<1>4. ASSUME NEW q \in S PROVE q <= m
  <2>1. MaxRec - m <= MaxRec - q
    BY <1>2, <1>3
  <2>2. MaxRec \in Nat /\ m \in Nat /\ q \in Nat
    BY RecFacts, BoundsAssumption
  <2> QED BY <2>1, <2>2
<1> QED BY <1>4

(* The newest row of a table is one of its rows. *)
LEMMA NewestType ==
  ASSUME NEW S \in SUBSET Rec
  PROVE  Newest(S) \in S \cup {0}
<1>1. CASE S = {}
  BY <1>1 DEF Newest
<1>2. CASE S # {}
  <2>1. \E r \in S : \A q \in S : q <= r
    BY <1>2, LargestElement
  <2>2. Newest(S) = CHOOSE x \in S : \A q \in S : q <= x
    BY <1>2 DEF Newest
  <2> QED BY <2>1, <2>2
<1> QED BY <1>1, <1>2

(* del_redundant deletes at least one row of a table that is not empty. *)
LEMMA OldestDeletes ==
  ASSUME NEW S \in SUBSET Rec, S # {}, NEW n \in Nat, n > 0
  PROVE  Oldest(S, n) # {}
<1>0. S \subseteq Nat
  BY RecFacts
<1>1. PICK x \in S : \A y \in S : x <= y
  BY <1>0, LeastElement
<1>2. \A y \in S : ~(y < x)
  BY <1>0, <1>1
<1>3. {q \in S : q < x} = {}
  BY <1>2
<1>4. Cardinality({q \in S : q < x}) = 0
  BY <1>3, FS_EmptySet
<1> QED BY <1>1, <1>4 DEF Oldest

LEMMA TableFinite ==
  ASSUME NEW S \in SUBSET Rec
  PROVE  IsFiniteSet(S) /\ Cardinality(S) \in Nat
<1>1. IsFiniteSet(S)
  BY RecFacts, FS_Subset
<1> QED BY <1>1, FS_CardinalityType

-----------------------------------------------------------------------------
(* Every variable keeps its type through every operation: in particular    *)
(* backoff_ptr stays inside backoff_time (http_resend_pthread line 162).   *)
LEMMA TypeInit == Init => TypeOK
<1> SUFFICES ASSUME Init PROVE TypeOK
  OBVIOUS
<1>1. 1 \in Rec /\ 0 \in BackoffPtr /\ 0 \in Count
  BY RecFacts, BackoffFacts, CountFacts
<1>2. restarts \in 0..MaxRestarts
  BY BoundsAssumption DEF Init
<1> QED BY <1>1, <1>2 DEF Init, TypeOK

(* Arrivals, row deletions and the end of a round, each used by several    *)
(* actions.                                                                *)
LEMMA ArriveType ==
  ASSUME TypeOK, NEW k \in Kinds, NEW r \in Rec \cup {0}, NEW c, Arrive(k, r, c)
  PROVE  arrived' \in [Kinds -> [Rec -> Count]] /\ (r \in Rec => wrong' \in [Kinds -> SUBSET Rec])
<1>1. arrived' \in [Kinds -> [Rec -> Count]]
  <2> DEFINE f == [arrived[k] EXCEPT ![r] = More(@)]
  <2>1. f \in [Rec -> Count]
    <3>1. arrived[k] \in [Rec -> Count]
      BY DEF TypeOK
    <3> QED BY <3>1, CountFacts
  <2>2. arrived' = [arrived EXCEPT ![k] = f]
    BY DEF Arrive
  <2> QED BY <2>1, <2>2 DEF TypeOK
<1>2. ASSUME r \in Rec PROVE wrong' \in [Kinds -> SUBSET Rec]
  BY <1>2 DEF Arrive, TypeOK
<1> QED BY <1>1, <1>2

LEMMA DelIdType ==
  ASSUME TypeOK, NEW k \in Kinds, NEW r, DelId(k, r)
  PROVE  table' \in [Kinds -> SUBSET Rec]
<1>1. table \in [Kinds -> SUBSET Rec]
  BY DEF TypeOK
<1>2. table' = [table EXCEPT ![k] = @ \ {r}] \/ table' = table
  BY Zenon DEF DelId
<1> QED BY <1>1, <1>2

LEMMA UnlockedType ==
  ASSUME TypeOK, NEW k \in Kinds, ThrUnlocked(k)
  PROVE  /\ thrPc' \in [Kinds -> {"sleep", "send", "delete", "remove"}]
         /\ thrRec' \in [Kinds -> Rec \cup {0}]
         /\ mutex' \in [Kinds -> {"none", "put", "thread"}]
         /\ \A j \in Kinds : thrPc'[j] # "sleep" => thrRec'[j] \in Rec
BY DEF ThrUnlocked, TypeOK

LEMMA PutDoneType ==
  ASSUME TypeOK, NEW k \in Kinds, PutDone(k)
  PROVE  /\ putPc' \in [Kinds -> {"idle", "evict", "remove", "insert", "write"}]
         /\ putRec' \in [Kinds -> Rec \cup {0}]
         /\ \A j \in Kinds : putPc'[j] # "idle" => putRec'[j] \in Rec
         /\ mutex' \in [Kinds -> {"none", "put", "thread"}]
BY DEF PutDone, TypeOK

LEMMA TypeNext == TypeOK /\ [Next]_vars => TypeOK'
<1> SUFFICES ASSUME TypeOK, [Next]_vars PROVE TypeOK'
  OBVIOUS
<1> USE DEF TypeOK, putVars, thrVars, srvVars
<1>1. CASE UNCHANGED vars
  BY <1>1 DEF vars
<1>2. CASE Restart
  <2>1. restarts' \in 0..MaxRestarts
    BY <1>2, BoundsAssumption DEF Restart
  <2> QED BY <1>2, <2>1, BackoffFacts DEF Restart
<1>3. ASSUME NEW k \in Kinds, LinkChange(k) PROVE TypeOK'
  BY <1>3 DEF LinkChange
<1>4. ASSUME NEW k \in Kinds, SendNew(k) PROVE TypeOK'
  <2>1. next[k] \in Rec
    BY <1>4, RecFacts DEF SendNew
  <2>2. next[k] + 1 \in Rec \cup {Garbage}
    BY <2>1, RecFacts
  <2>3. next' \in [Kinds -> Rec \cup {Garbage}]
    BY <1>4, <2>2 DEF SendNew
  <2>4. CASE link[k] = "down"
    BY <1>4, <2>1, <2>3, <2>4 DEF SendNew
  <2>5. CASE link[k] = "up"
    <3>1. Arrive(k, next[k], next[k])
      BY <1>4, <2>5 DEF SendNew
    <3>2. arrived' \in [Kinds -> [Rec -> Count]] /\ wrong' \in [Kinds -> SUBSET Rec]
      BY <2>1, <3>1, ArriveType
    <3> QED BY <1>4, <2>3, <2>5, <3>2 DEF SendNew
  <2>6. CASE link[k] = "half"
    BY <1>4, <2>3, <2>6 DEF SendNew
  <2> QED BY <2>4, <2>5, <2>6
<1>5. ASSUME NEW k \in Kinds, PutEvict(k) PROVE TypeOK'
  <2>1. Redundant(k) \subseteq Rec
    BY DEF Redundant, Oldest
  <2>2. PICK names \in SUBSET Rec : PutEvict(k)!3!(names)
    BY <1>5, <2>1 DEF PutEvict
  <2> QED BY <1>5, <2>2 DEF PutEvict
<1>6. ASSUME NEW k \in Kinds, PutRemove(k) PROVE TypeOK'
  <2>1. FilesLeft(k) \in [Rec -> {"none", "empty", "full"}]
    BY DEF FilesLeft
  <2> QED BY <1>6, <2>1 DEF PutRemove
<1>7. ASSUME NEW k \in Kinds, PutInsert(k) PROVE TypeOK'
  <2>1. putRec[k] \in Rec
    BY <1>7 DEF PutInsert
  <2>2. table' = [table EXCEPT ![k] = @ \cup {putRec[k]}] \/ table' = table
    BY <1>7, Zenon DEF PutInsert
  <2>3. table' \in [Kinds -> SUBSET Rec]
    <3>1. table \in [Kinds -> SUBSET Rec] /\ table[k] \cup {putRec[k]} \in SUBSET Rec
      BY <2>1
    <3> HIDE DEF TypeOK
    <3> QED BY <2>2, <3>1
  <2>4. UNCHANGED <<file, link, nr, backoff, putNames, thrVars, buf, next,
                    srvVars, restarts>>
    BY <1>7, Zenon DEF PutInsert
  <2>5. CASE PutDone(k)
    BY <2>3, <2>4, <2>5, PutDoneType
  <2>6. CASE putPc' = [putPc EXCEPT ![k] = "write"] /\ UNCHANGED <<mutex, putRec>>
    BY <2>1, <2>3, <2>4, <2>6
  <2> QED BY <1>7, <2>5, <2>6, Zenon DEF PutInsert
<1>8. ASSUME NEW k \in Kinds, PutWrite(k) PROVE TypeOK'
  BY <1>8 DEF PutWrite, PutDone
<1>9. ASSUME NEW k \in Kinds, ThrSelect(k) PROVE TypeOK'
  <2>1. Newest(table[k]) \in Rec \cup {0}
    BY NewestType
  <2>2. table' \in [Kinds -> SUBSET Rec]
    <3>1. table' = table \/ DelId(k, Newest(table[k]))
      BY <1>9 DEF ThrSelect
    <3> QED BY <3>1, DelIdType
  <2>3. /\ thrPc' \in [Kinds -> {"sleep", "send", "delete", "remove"}]
        /\ thrRec' \in [Kinds -> Rec \cup {0}]
        /\ mutex' \in [Kinds -> {"none", "put", "thread"}]
        /\ \A j \in Kinds : thrPc'[j] # "sleep" => thrRec'[j] \in Rec
    <3>1. CASE UNCHANGED <<mutex, thrVars>>
      BY <3>1
    <3>2. CASE Newest(table[k]) # 0 /\ ThrSends(k, Newest(table[k]))
      BY <2>1, <3>2 DEF ThrSends
    <3> QED BY <1>9, <3>1, <3>2 DEF ThrSelect
  <2>4. buf' \in [Kinds -> Rec \cup {0, Garbage}]
    BY <1>9, <2>1 DEF ThrSelect
  <2>5. UNCHANGED <<file, link, nr, backoff, putVars, next, srvVars, restarts>>
    BY <1>9, Zenon DEF ThrSelect
  <2> QED BY <2>2, <2>3, <2>4, <2>5
<1>10. ASSUME NEW k \in Kinds, ThrSend(k) PROVE TypeOK'
  <2>1. thrRec[k] \in Rec
    BY <1>10 DEF ThrSend
  <2>0. UNCHANGED <<table, file, link, nr, putVars, buf, next, restarts>>
    BY <1>10, Zenon DEF ThrSend
  <2>2. CASE link[k] = "up"
    <3>1. Arrive(k, thrRec[k], buf[k])
      BY <1>10, <2>2 DEF ThrSend
    <3>2. arrived' \in [Kinds -> [Rec -> Count]] /\ wrong' \in [Kinds -> SUBSET Rec]
      BY <2>1, <3>1, ArriveType
    <3> QED BY <1>10, <2>2, <3>2 DEF ThrSend
  <2>3. CASE link[k] = "half"
    BY <1>10, <2>3 DEF ThrSend
  <2>4. CASE link[k] = "down"
    <3>1. backoff' \in [Kinds -> BackoffPtr]
      <4>1. backoff' = [backoff EXCEPT ![k] = NextBackoff(backoff[k])]
        BY <1>10, <2>4 DEF ThrSend
      <4> QED BY <4>1, BackoffFacts
    <3>2. ThrUnlocked(k) /\ UNCHANGED srvVars
      BY <1>10, <2>4 DEF ThrSend
    <3> QED BY <2>0, <3>1, <3>2, UnlockedType
  <2> QED BY <2>2, <2>3, <2>4
<1>11. ASSUME NEW k \in Kinds, ThrDelete(k) PROVE TypeOK'
  <2>1. table' \in [Kinds -> SUBSET Rec]
    BY <1>11, DelIdType DEF ThrDelete
  <2>0. UNCHANGED <<file, link, nr, putVars, buf, next, srvVars, restarts>>
    BY <1>11, Zenon DEF ThrDelete
  <2>2. CASE HasPic(k)
    BY <1>11, <2>0, <2>1, <2>2 DEF ThrDelete
  <2>3. CASE ~HasPic(k)
    <3>1. ThrUnlocked(k) /\ backoff' = [backoff EXCEPT ![k] = 0]
      BY <1>11, <2>3 DEF ThrDelete
    <3> QED BY <2>0, <2>1, <3>1, BackoffFacts, UnlockedType
  <2> QED BY <2>2, <2>3
<1>12. ASSUME NEW k \in Kinds, ThrRemove(k) PROVE TypeOK'
  BY <1>12, BackoffFacts DEF ThrRemove, Removed, ThrUnlocked
<1> QED
  BY <1>1, <1>2, <1>3, <1>4, <1>5, <1>6, <1>7, <1>8, <1>9, <1>10, <1>11,
     <1>12 DEF Next, Put, Thread

(* The types of the retransmission store: a put or a thread that is under  *)
(* way holds a record, and the back-off position stays in the table of     *)
(* waiting times (http_resend_pthread and its two copies).                 *)
THEOREM TypeCorrect == Spec => []TypeOK
BY TypeInit, TypeNext, PTL DEF Spec

-----------------------------------------------------------------------------
(* The bound on the tables.  Once put has evicted, there is room for the   *)
(* row it is about to insert: the thread and a restart can only make more. *)
Room ==
  \A k \in Kinds : putPc[k] \in {"remove", "insert"} =>
     Cardinality(table[k]) < MaxLimit

(* A put that finds the table non-empty and at or above its limit deletes  *)
(* a row.                                                                  *)
LEMMA EvictMakesRoom ==
  ASSUME TypeOK, TableBounded, NEW k \in Kinds
  PROVE  Cardinality(table[k] \ Redundant(k)) < MaxLimit
<1> DEFINE S == table[k]
<1>1. S \in SUBSET Rec /\ nr \in Nat /\ nr <= MaxLimit /\ MaxLimit \in Nat /\ MaxLimit > 0
  BY LimitFacts DEF TypeOK
<1>2. IsFiniteSet(S) /\ Cardinality(S) \in Nat /\ Cardinality(S) <= MaxLimit
  BY <1>1, TableFinite DEF TableBounded
<1>3. CASE Cardinality(S) - nr + 1 <= 0
  <2>1. Redundant(k) = {}
    BY <1>3 DEF Redundant
  <2>2. Cardinality(S) < MaxLimit
    BY <1>1, <1>2, <1>3
  <2> QED BY <2>1, <2>2
<1>4. CASE Cardinality(S) - nr + 1 > 0 /\ S = {}
  <2>1. S \ Redundant(k) = {}
    BY <1>4
  <2> QED BY <1>1, <2>1, FS_EmptySet
<1>5. CASE Cardinality(S) - nr + 1 > 0 /\ S # {}
  <2>1. PICK n \in Nat : n > 0 /\ Redundant(k) = Oldest(S, n)
    <3>1. CASE HasPic(k) /\ Cardinality(S) - nr + 1 > NameCap
      BY <1>1, <1>2, <1>5, <3>1, LimitFacts DEF Redundant
    <3>2. CASE ~(HasPic(k) /\ Cardinality(S) - nr + 1 > NameCap)
      BY <1>1, <1>2, <1>5, <3>2 DEF Redundant
    <3> QED BY <3>1, <3>2
  <2>2. PICK r : r \in Redundant(k) /\ r \in S
    BY <1>1, <1>5, <2>1, OldestDeletes DEF Oldest
  <2>3. S \ Redundant(k) \subseteq S \ {r}
    BY <2>2
  <2>4. IsFiniteSet(S \ {r}) /\ Cardinality(S \ {r}) = Cardinality(S) - 1
    BY <1>2, <2>2, FS_RemoveElement
  <2>5. Cardinality(S \ Redundant(k)) <= Cardinality(S \ {r})
    BY <2>3, <2>4, FS_Subset
  <2>6. Cardinality(S \ Redundant(k)) \in Nat
    BY <2>3, <1>1, TableFinite
  <2> QED BY <1>1, <1>2, <2>4, <2>5, <2>6
<1> QED BY <1>1, <1>2, <1>3, <1>4, <1>5

(* Adding the row of a put, and deleting rows, in terms of Cardinality. *)
LEMMA FewerRows ==
  ASSUME NEW S \in SUBSET Rec, NEW T \in SUBSET S
  PROVE  Cardinality(T) <= Cardinality(S) /\ Cardinality(T) \in Nat
<1>1. T \in SUBSET Rec
  OBVIOUS
<1> QED BY <1>1, TableFinite, FS_Subset

LEMMA OneMoreRow ==
  ASSUME NEW S \in SUBSET Rec, NEW r
  PROVE  Cardinality(S \cup {r}) <= Cardinality(S) + 1
BY TableFinite, FS_AddElement

(* A step that only deletes rows, and brings no put past its eviction,     *)
(* keeps the bound and the room.                                           *)
LEMMA ShrinkKeepsRoom ==
  ASSUME TypeOK, TableBounded, Room,
         \A k \in Kinds : table'[k] \subseteq table[k],
         \A k \in Kinds : putPc'[k] \in {"remove", "insert"} =>
                             putPc[k] \in {"remove", "insert"}
  PROVE  (TableBounded /\ Room)'
<1>1. ASSUME NEW k \in Kinds
      PROVE  /\ Cardinality(table'[k]) <= Cardinality(table[k])
             /\ Cardinality(table'[k]) \in Nat /\ Cardinality(table[k]) \in Nat
  <2>1. table[k] \in SUBSET Rec
    BY DEF TypeOK
  <2> QED BY <2>1, FewerRows
<1>2. MaxLimit \in Nat
  BY LimitFacts
<1>3. \A k \in Kinds : Cardinality(table'[k]) <= MaxLimit
  BY <1>1, <1>2 DEF TableBounded
<1>4. \A k \in Kinds : putPc'[k] \in {"remove", "insert"} =>
                        Cardinality(table'[k]) < MaxLimit
  BY <1>1, <1>2 DEF Room
<1> QED BY <1>3, <1>4 DEF TableBounded, Room

(* As long as no SQLite statement fails, no table of the retransmission    *)
(* store ever holds more rows than the largest configured resend_rotate:   *)
(* del_redundant with its cap of NameCap rows per call, restarts with a    *)
(* smaller limit and the concurrent thread included.                       *)
THEOREM TablesBounded ==
  ASSUME DbMayFail = FALSE
  PROVE  Spec => []TableBounded
<1> DEFINE IInv == TypeOK /\ TableBounded /\ Room
<1>1. Init => IInv
  <2> SUFFICES ASSUME Init PROVE TableBounded /\ Room
    BY TypeInit
  <2>1. \A k \in Kinds : Cardinality(table[k]) = 0
    BY FS_EmptySet DEF Init
  <2> QED BY <2>1, LimitFacts DEF Init, TableBounded, Room
<1>2. IInv /\ [Next]_vars => IInv'
  <2> SUFFICES ASSUME IInv, [Next]_vars PROVE (TableBounded /\ Room)'
    BY TypeNext
  <2> USE DEF putVars, thrVars, srvVars
  <2>1. CASE UNCHANGED vars
    BY <2>1 DEF vars, TableBounded, Room
  <2>2. CASE Restart
    BY <2>2, ShrinkKeepsRoom DEF Restart
  <2>3. ASSUME NEW k \in Kinds, LinkChange(k) \/ SendNew(k) PROVE (TableBounded /\ Room)'
    <3>1. table' = table
      BY <2>3 DEF LinkChange, SendNew
    <3>2. putPc' = putPc \/ putPc' = [putPc EXCEPT ![k] = "evict"]
      BY <2>3 DEF LinkChange, SendNew
    <3> QED BY <3>1, <3>2, ShrinkKeepsRoom DEF TypeOK
  <2>4. ASSUME NEW k \in Kinds, PutEvict(k) PROVE (TableBounded /\ Room)'
    <3>1. table' = [table EXCEPT ![k] = @ \ Redundant(k)]
      BY <2>4 DEF PutEvict
    <3>2. Cardinality(table'[k]) < MaxLimit
      BY <3>1, EvictMakesRoom DEF TypeOK
    <3>3. putPc' = [putPc EXCEPT ![k] = "remove"]
      BY <2>4 DEF PutEvict
    <3>4. ASSUME NEW j \in Kinds, j # k
          PROVE  table'[j] = table[j] /\ putPc'[j] = putPc[j]
      BY <3>1, <3>3, <3>4 DEF TypeOK
    <3>5. Cardinality(table'[k]) <= MaxLimit
      <4>1. table'[k] \in SUBSET Rec
        BY <3>1 DEF TypeOK
      <4> QED BY <3>2, <4>1, TableFinite, LimitFacts
    <3> QED BY <3>2, <3>4, <3>5 DEF TableBounded, Room
  <2>5. ASSUME NEW k \in Kinds, PutRemove(k) PROVE (TableBounded /\ Room)'
    <3>1. table' = table /\ putPc[k] = "remove" /\ putPc' = [putPc EXCEPT ![k] = "insert"]
      BY <2>5 DEF PutRemove
    <3> QED BY <3>1, ShrinkKeepsRoom DEF TypeOK
  <2>6. ASSUME NEW k \in Kinds, PutInsert(k) PROVE (TableBounded /\ Room)'
    <3>1. putPc[k] = "insert" /\ table' = [table EXCEPT ![k] = @ \cup {putRec[k]}]
      BY <2>6 DEF PutInsert
    <3>2. putPc' = [putPc EXCEPT ![k] = "idle"] \/ putPc' = [putPc EXCEPT ![k] = "write"]
      BY <2>6 DEF PutInsert, PutDone
    <3>3. Cardinality(table'[k]) <= Cardinality(table[k]) + 1
      <4>1. table[k] \in SUBSET Rec /\ table'[k] = table[k] \cup {putRec[k]}
        BY <3>1 DEF TypeOK
      <4> QED BY <4>1, OneMoreRow
    <3>4. Cardinality(table[k]) < MaxLimit
      BY <3>1 DEF Room
    <3>5. Cardinality(table[k]) \in Nat /\ Cardinality(table'[k]) \in Nat
      <4>1. table[k] \in SUBSET Rec /\ table'[k] \in SUBSET Rec
        BY TypeNext DEF TypeOK
      <4> QED BY <4>1, TableFinite
    <3>6. Cardinality(table'[k]) <= MaxLimit
      BY <3>3, <3>4, <3>5, LimitFacts
    <3>7. ASSUME NEW j \in Kinds, j # k
          PROVE  table'[j] = table[j] /\ putPc'[j] = putPc[j]
      BY <3>1, <3>2, <3>7 DEF TypeOK
    <3>8. putPc'[k] \in {"idle", "write"}
      BY <3>2 DEF TypeOK
    <3> QED BY <3>6, <3>7, <3>8 DEF TableBounded, Room
  <2>7. ASSUME NEW k \in Kinds, PutWrite(k) PROVE (TableBounded /\ Room)'
    <3>1. table' = table /\ putPc' = [putPc EXCEPT ![k] = "idle"]
      BY <2>7 DEF PutWrite, PutDone
    <3> QED BY <3>1, ShrinkKeepsRoom DEF TypeOK
  <2>8. ASSUME NEW k \in Kinds, Thread(k) PROVE (TableBounded /\ Room)'
    <3>1. putPc' = putPc
      BY <2>8 DEF Thread, ThrSelect, ThrSend, ThrDelete, ThrRemove
    <3>2. table' = table \/ \E r : DelId(k, r)
      BY <2>8 DEF Thread, ThrSelect, ThrSend, ThrDelete, ThrRemove
    <3>3. \A j \in Kinds : table'[j] \subseteq table[j]
      BY <3>2 DEF DelId, TypeOK
    <3> QED BY <3>1, <3>3, ShrinkKeepsRoom
  <2> QED
    BY <2>1, <2>2, <2>3, <2>4, <2>5, <2>6, <2>7, <2>8 DEF Next, Put
<1> QED BY <1>1, <1>2, PTL DEF Spec

-----------------------------------------------------------------------------
(* Who is where: the mutex of a table is held by the put or the thread that *)
(* is inside it, so at most one of them is.                                 *)
LockedIn(k) ==
  /\ putPc[k] \in {"remove", "insert", "write"} <=> mutex[k] = "put"
  /\ thrPc[k] # "sleep" <=> mutex[k] = "thread"
  /\ putPc[k] = "idle" <=> putRec[k] = 0

Locked == \A k \in Kinds : LockedIn(k)

LEMMA LockedInit == Init => Locked
BY DEF Init, Locked, LockedIn

LEMMA LockedNext == TypeOK /\ Locked /\ [Next]_vars => Locked'
<1> SUFFICES ASSUME TypeOK, Locked, [Next]_vars PROVE Locked'
  OBVIOUS
<1> USE RecFacts DEF TypeOK, Locked, LockedIn, putVars, thrVars
<1>1. CASE UNCHANGED vars
  BY <1>1 DEF vars
<1>2. CASE Restart
  BY <1>2 DEF Restart
<1>3. ASSUME NEW k \in Kinds, LinkChange(k) PROVE Locked'
  BY <1>3 DEF LinkChange
<1>4. ASSUME NEW k \in Kinds, SendNew(k) PROVE Locked'
  <2>1. next[k] \in Rec
    BY <1>4 DEF SendNew
  <2> QED BY <1>4, <2>1 DEF SendNew
<1>5. ASSUME NEW k \in Kinds, PutEvict(k) PROVE Locked'
  BY <1>5 DEF PutEvict
<1>6. ASSUME NEW k \in Kinds, PutRemove(k) PROVE Locked'
  BY <1>6 DEF PutRemove
<1>7. ASSUME NEW k \in Kinds, PutInsert(k) PROVE Locked'
  BY <1>7 DEF PutInsert, PutDone
<1>8. ASSUME NEW k \in Kinds, PutWrite(k) PROVE Locked'
  BY <1>8 DEF PutWrite, PutDone
<1>9. ASSUME NEW k \in Kinds, ThrSelect(k) PROVE Locked'
  BY <1>9 DEF ThrSelect, ThrSends
<1>10. ASSUME NEW k \in Kinds, ThrSend(k) PROVE Locked'
  BY <1>10 DEF ThrSend, ThrUnlocked
<1>11. ASSUME NEW k \in Kinds, ThrDelete(k) PROVE Locked'
  BY <1>11 DEF ThrDelete, ThrUnlocked
<1>12. ASSUME NEW k \in Kinds, ThrRemove(k) PROVE Locked'
  BY <1>12 DEF ThrRemove, ThrUnlocked
<1> QED
  BY <1>1, <1>2, <1>3, <1>4, <1>5, <1>6, <1>7, <1>8, <1>9, <1>10, <1>11,
     <1>12 DEF Next, Put, Thread

-----------------------------------------------------------------------------
(* Only the ftp thread sends what is in its buffer without having read it. *)
OwnBuf ==
  \A k \in Kinds \ {"ftp"} :
     wrong[k] = {} /\ (thrPc[k] = "send" => buf[k] = thrRec[k])

LEMMA OwnBufNext == TypeOK /\ OwnBuf /\ [Next]_vars => OwnBuf'
<1> SUFFICES ASSUME TypeOK, OwnBuf, [Next]_vars PROVE OwnBuf'
  OBVIOUS
<1> USE DEF TypeOK, OwnBuf, putVars, thrVars, srvVars
<1>1. CASE UNCHANGED vars
  BY <1>1 DEF vars
<1>2. CASE Restart
  BY <1>2 DEF Restart
<1>3. ASSUME NEW k \in Kinds, LinkChange(k) \/ Put(k) PROVE OwnBuf'
  BY <1>3 DEF LinkChange, Put, PutEvict, PutRemove, PutInsert, PutWrite
<1>4. ASSUME NEW k \in Kinds, SendNew(k) PROVE OwnBuf'
  BY <1>4 DEF SendNew, Arrive
<1>5. ASSUME NEW k \in Kinds, ThrSelect(k) PROVE OwnBuf'
  BY <1>5 DEF ThrSelect, ThrSends, EndsRound, HasPic
<1>6. ASSUME NEW k \in Kinds, ThrSend(k) PROVE OwnBuf'
  BY <1>6 DEF ThrSend, Arrive, ThrUnlocked
<1>7. ASSUME NEW k \in Kinds, ThrDelete(k) \/ ThrRemove(k) PROVE OwnBuf'
  BY <1>7 DEF ThrDelete, ThrRemove, ThrUnlocked
<1> QED
  BY <1>1, <1>2, <1>3, <1>4, <1>5, <1>6, <1>7 DEF Next, Thread

(* What arrives under the name of an http record or an MQ text is that     *)
(* record, whatever SQLite statement or file operation fails, and across   *)
(* restarts: http_resend_pthread ends its round on an unreadable picture.  *)
(* ftp_resend_pthread does not, and is left out.                           *)
THEOREM PicturesAreRight ==
  ASSUME "ftp" \notin Kinds
  PROVE  Spec => []RightPicture
<1>1. Init => TypeOK /\ OwnBuf
  BY TypeInit DEF Init, OwnBuf
<1>2. TypeOK /\ OwnBuf /\ [Next]_vars => (TypeOK /\ OwnBuf)'
  BY TypeNext, OwnBufNext
<1>3. OwnBuf => RightPicture
  BY DEF OwnBuf, RightPicture
<1> QED BY <1>1, <1>2, <1>3, PTL DEF Spec

-----------------------------------------------------------------------------
(* The rows of a table against its pictures at every point of put and of    *)
(* the thread, until the first restart.                                     *)
MatchIn(k) ==
  \A r \in Rec : r \in table[k] <=>
     \/ /\ file[k][r] = "full"
        /\ ~(putPc[k] = "remove" /\ r \in putNames[k])
        /\ ~(thrPc[k] = "remove" /\ r = thrRec[k])
     \/ putPc[k] = "write" /\ r = putRec[k]

Match == restarts = 0 => \A k \in Kinds : HasPic(k) => MatchIn(k)

(* What a table is made of; the steps of another table leave it alone. *)
SameTable(k) ==
  /\ table'[k] = table[k] /\ file'[k] = file[k]
  /\ putPc'[k] = putPc[k] /\ putRec'[k] = putRec[k]
  /\ putNames'[k] = putNames[k]
  /\ thrPc'[k] = thrPc[k] /\ thrRec'[k] = thrRec[k]

LEMMA OthersKept ==
  ASSUME TypeOK, NEW k \in Kinds, SendNew(k) \/ Put(k) \/ Thread(k),
         NEW j \in Kinds, j # k
  PROVE  SameTable(j) /\ arrived'[j] = arrived[j] /\ next'[j] = next[j]
         /\ link'[j] = link[j] /\ restarts' = restarts /\ nr' = nr
<1> USE DEF TypeOK, SameTable, putVars, thrVars, srvVars
<1>1. CASE SendNew(k)
  BY <1>1 DEF SendNew, Arrive
<1>2. CASE PutEvict(k) \/ PutRemove(k) \/ PutWrite(k)
  BY <1>2 DEF PutEvict, PutRemove, PutWrite, PutDone
<1>3. CASE PutInsert(k)
  BY <1>3 DEF PutInsert, PutDone
<1>4. CASE ThrSelect(k)
  BY <1>4 DEF ThrSelect, ThrSends, DelId
<1>5. CASE ThrSend(k)
  BY <1>5 DEF ThrSend, Arrive, ThrUnlocked
<1>6. CASE ThrDelete(k) \/ ThrRemove(k)
  BY <1>6 DEF ThrDelete, ThrRemove, DelId, ThrUnlocked, Removed
<1> QED BY <1>1, <1>2, <1>3, <1>4, <1>5, <1>6 DEF Put, Thread

(* A row of a table outside its critical section has its picture, so the   *)
(* thread finds it.                                                        *)
LEMMA PictureFound ==
  ASSUME TypeOK, Locked, Match, NEW k \in Kinds, HasPic(k), restarts = 0,
         mutex[k] = "none"
  PROVE  /\ \A r \in Rec : r \in table[k] <=> file[k][r] = "full"
         /\ Newest(table[k]) # 0 => file[k][Newest(table[k])] = "full"
<1>1. \A r \in Rec : r \in table[k] <=> file[k][r] = "full"
  BY DEF Locked, LockedIn, Match, MatchIn
<1>2. Newest(table[k]) \in table[k] \cup {0} /\ table[k] \subseteq Rec
  BY NewestType DEF TypeOK
<1> QED BY <1>1, <1>2

LEMMA MatchNext ==
  ASSUME DbMayFail = FALSE, FsMayFail = FALSE,
         TypeOK, Locked, Match, [Next]_vars
  PROVE  Match'
<1> SUFFICES ASSUME restarts' = 0, NEW j \in Kinds, HasPic(j)
             PROVE  MatchIn(j)'
  BY DEF Match, HasPic
<1>0. restarts = 0 /\ MatchIn(j)
  <2>1. restarts = 0 \/ restarts' = restarts + 1
    BY DEF Next, vars, Restart, LinkChange, SendNew, Put, PutEvict, PutRemove,
           PutInsert, PutWrite, Thread, ThrSelect, ThrSend, ThrDelete, ThrRemove
  <2> QED BY <2>1, BoundsAssumption DEF TypeOK, Match
<1>1. CASE SameTable(j)
  BY <1>0, <1>1 DEF MatchIn, SameTable
<1>2. CASE UNCHANGED vars \/ \E k \in Kinds : LinkChange(k)
  BY <1>1, <1>2 DEF vars, LinkChange, SameTable, putVars, thrVars
<1>3. CASE Restart
  BY <1>0, <1>3 DEF Restart
<1>4. ASSUME NEW k \in Kinds, SendNew(k) \/ Put(k) \/ Thread(k), k # j
      PROVE  MatchIn(j)'
  BY <1>1, <1>4, OthersKept
<1> USE DEF TypeOK, LockedIn, MatchIn, putVars, thrVars
<1>5. LockedIn(j)
  BY DEF Locked
<1>6. CASE SendNew(j)
  BY <1>0, <1>6 DEF SendNew
<1>7. CASE PutEvict(j)
  BY <1>0, <1>5, <1>7 DEF PutEvict
<1>8. CASE PutRemove(j)
  BY <1>0, <1>5, <1>8 DEF PutRemove, FilesLeft
<1>9. CASE PutInsert(j)
  BY <1>0, <1>5, <1>9 DEF PutInsert
<1>10. CASE PutWrite(j)
  BY <1>0, <1>5, <1>10 DEF PutWrite, PutDone
<1>11. CASE ThrSelect(j)
  <2>1. UNCHANGED table
    BY <1>0, <1>11, PictureFound DEF ThrSelect
  <2> QED BY <1>0, <1>11, <2>1 DEF ThrSelect, ThrSends
<1>12. CASE ThrSend(j)
  BY <1>0, <1>12 DEF ThrSend, ThrUnlocked
<1>13. CASE ThrDelete(j)
  BY <1>0, <1>5, <1>13 DEF ThrDelete, DelId
<1>14. CASE ThrRemove(j)
  BY <1>0, <1>5, <1>14 DEF ThrRemove, Removed, ThrUnlocked
<1> QED
  BY <1>2, <1>3, <1>4, <1>6, <1>7, <1>8, <1>9, <1>10, <1>11, <1>12, <1>13,
     <1>14 DEF Next, Put, Thread

(* Until the first restart, with SQLite and the file system working, every *)
(* row has its picture and every picture its row whenever nobody is inside *)
(* the mutex of http_resend or ftp_resend, for any number of records and   *)
(* any eviction.                                                           *)
THEOREM RowsHavePictures ==
  ASSUME DbMayFail = FALSE, FsMayFail = FALSE
  PROVE  Spec => []RowsMatchFiles
<1> DEFINE IInv == TypeOK /\ Locked /\ Match
<1>1. Init => IInv
  BY TypeInit, LockedInit DEF Init, Match, MatchIn
<1>2. IInv /\ [Next]_vars => IInv'
  BY TypeNext, LockedNext, MatchNext
<1>3. IInv => RowsMatchFiles
  BY PictureFound DEF RowsMatchFiles
<1> QED BY <1>1, <1>2, <1>3, PTL DEF Spec

-----------------------------------------------------------------------------
LEMMA NumberFacts ==
  /\ \A n \in Rec \cup {Garbage} : n \in Nat /\ n > 0
  /\ \A n \in Rec \cup {0} : n \in Nat
<1>1. MaxRec \in Nat /\ MaxRec > 0
  BY BoundsAssumption
<1> QED BY <1>1 DEF Rec, Garbage

(* A record that is still to come has left no trace. *)
FutureIn(k) ==
  /\ \A r \in Rec : r >= next[k] =>
        arrived[k][r] = 0 /\ file[k][r] = "none" /\ r \notin table[k]
  /\ putRec[k] < next[k] /\ thrRec[k] < next[k]

Future == \A k \in Kinds : FutureIn(k)

LEMMA FutureInit == Init => Future
BY RecFacts DEF Init, Future, FutureIn, TypeOK

LEMMA FutureNext ==
  ASSUME TypeOK, Future, [Next]_vars
  PROVE  Future'
<1> SUFFICES ASSUME NEW j \in Kinds PROVE FutureIn(j)'
  BY DEF Future
<1>0. FutureIn(j)
  BY DEF Future
<1>1. CASE SameTable(j) /\ arrived'[j] = arrived[j] /\ next'[j] = next[j]
  BY <1>0, <1>1 DEF FutureIn, SameTable
<1>2. CASE UNCHANGED vars \/ \E k \in Kinds : LinkChange(k)
  BY <1>1, <1>2 DEF vars, LinkChange, SameTable, putVars, thrVars, srvVars
<1>3. CASE Restart
  <2>1. next[j] > 0
    BY NumberFacts DEF TypeOK
  <2> QED BY <1>0, <1>3, <2>1 DEF Restart, FutureIn, srvVars
<1>4. ASSUME NEW k \in Kinds, SendNew(k) \/ Put(k) \/ Thread(k), k # j
      PROVE  FutureIn(j)'
  BY <1>1, <1>4, OthersKept
<1> USE DEF TypeOK, FutureIn, putVars, thrVars, srvVars
<1>5. /\ next[j] \in Nat /\ next[j] > 0 /\ Rec \subseteq Nat
      /\ thrRec[j] \in Nat /\ putRec[j] \in Nat
  BY NumberFacts
<1>6. CASE SendNew(j)
  <2>1. next[j] \in Rec /\ next'[j] = next[j] + 1
    BY <1>6, RecFacts DEF SendNew
  <2>2. \A r \in Rec : r >= next'[j] => arrived'[j][r] = 0
    <3>1. CASE UNCHANGED srvVars
      BY <1>0, <1>5, <2>1, <3>1
    <3>2. CASE Arrive(j, next[j], next[j])
      BY <1>0, <1>5, <2>1, <3>2 DEF Arrive
    <3> QED BY <1>6, <3>1, <3>2 DEF SendNew
  <2>3. putRec'[j] \in {putRec[j], next[j]}
    BY <1>6 DEF SendNew
  <2>4. UNCHANGED <<table, file, thrRec>>
    BY <1>6 DEF SendNew
  <2> HIDE DEF TypeOK
  <2>5. \A r \in Rec : r >= next'[j] => r >= next[j]
    BY <1>5, <2>1
  <2>6. \A r \in Rec : r >= next'[j] =>
           file'[j][r] = "none" /\ r \notin table'[j]
    BY <1>0, <2>4, <2>5
  <2>7. putRec'[j] < next'[j] /\ thrRec'[j] < next'[j]
    BY <1>0, <1>5, <2>1, <2>3, <2>4
  <2> QED BY <2>2, <2>6, <2>7
<1>7. CASE PutEvict(j)
  <2>1. table'[j] \subseteq table[j]
    BY <1>7 DEF PutEvict
  <2> QED BY <1>0, <1>7, <2>1 DEF PutEvict
<1>8. CASE PutRemove(j)
  BY <1>0, <1>8 DEF PutRemove, FilesLeft
<1>9. CASE PutInsert(j)
  BY <1>0, <1>5, <1>9 DEF PutInsert, PutDone
<1>10. CASE PutWrite(j)
  BY <1>0, <1>5, <1>10 DEF PutWrite, PutDone
<1>11. CASE ThrSelect(j)
  <2>1. Newest(table[j]) \in table[j] \cup {0} /\ table[j] \subseteq Rec
    BY NewestType
  <2>2. thrRec'[j] \in {thrRec[j], Newest(table[j])}
    BY <1>11 DEF ThrSelect, ThrSends
  <2>3. table'[j] \subseteq table[j]
    BY <1>11 DEF ThrSelect, DelId
  <2>4. \A r \in table[j] : r < next[j]
    BY <1>0, <1>5
  <2>5. Newest(table[j]) < next[j]
    BY <1>5, <2>1, <2>4
  <2>6. thrRec'[j] < next[j]
    BY <1>0, <2>2, <2>5
  <2> QED BY <1>0, <1>11, <2>3, <2>6 DEF ThrSelect
<1>12. CASE ThrSend(j)
  <2>1. \A r \in Rec : r >= next[j] => arrived'[j][r] = 0
    BY <1>0, <1>5, <1>12 DEF ThrSend, Arrive
  <2> QED BY <1>0, <1>5, <1>12, <2>1 DEF ThrSend, ThrUnlocked
<1>13. CASE ThrDelete(j)
  BY <1>0, <1>5, <1>13 DEF ThrDelete, DelId, ThrUnlocked
<1>14. CASE ThrRemove(j)
  BY <1>0, <1>5, <1>14 DEF ThrRemove, Removed, ThrUnlocked
<1> QED
  BY <1>2, <1>3, <1>4, <1>6, <1>7, <1>8, <1>9, <1>10, <1>11, <1>12, <1>13,
     <1>14 DEF Next, Put, Thread

-----------------------------------------------------------------------------
(* Until the first restart, a record that arrived has no picture any more,  *)
(* or the thread that sent it is still at it; what is sent or put has not   *)
(* arrived.                                                                 *)
OnceIn(k) ==
  /\ \A r \in Rec : arrived[k][r] <= 1
  /\ \A r \in Rec : arrived[k][r] > 0 =>
        \/ file[k][r] # "full"
        \/ thrPc[k] \in {"delete", "remove"} /\ thrRec[k] = r
  /\ thrPc[k] = "send" => arrived[k][thrRec[k]] = 0
  /\ putPc[k] # "idle" =>
        /\ arrived[k][putRec[k]] = 0 /\ file[k][putRec[k]] # "full"
        /\ putRec[k] # thrRec[k]

Once == restarts = 0 => ("http" \in Kinds => OnceIn("http"))

LEMMA OnceNext ==
  ASSUME TypeOK, Locked, Future, Once, [Next]_vars
  PROVE  Once'
<1> DEFINE h == "http"
<1> SUFFICES ASSUME restarts' = 0, h \in Kinds PROVE OnceIn(h)'
  BY DEF Once
<1>0. restarts = 0 /\ OnceIn(h)
  <2>1. restarts = 0 \/ restarts' = restarts + 1
    BY DEF Next, vars, Restart, LinkChange, SendNew, Put, PutEvict, PutRemove,
           PutInsert, PutWrite, Thread, ThrSelect, ThrSend, ThrDelete, ThrRemove
  <2> QED BY <2>1, BoundsAssumption DEF TypeOK, Once
<1>1. CASE SameTable(h) /\ arrived'[h] = arrived[h]
  BY <1>0, <1>1 DEF OnceIn, SameTable
<1>2. CASE UNCHANGED vars \/ \E k \in Kinds : LinkChange(k)
  BY <1>1, <1>2 DEF vars, LinkChange, SameTable, putVars, thrVars, srvVars
<1>3. CASE Restart
  BY <1>0, <1>3 DEF Restart
<1>4. ASSUME NEW k \in Kinds, SendNew(k) \/ Put(k) \/ Thread(k), k # h
      PROVE  OnceIn(h)'
  BY <1>1, <1>4, OthersKept
<1> USE DEF TypeOK, LockedIn, OnceIn, putVars, thrVars, srvVars, HasPic
<1>5. LockedIn(h) /\ FutureIn(h)
  BY DEF Locked, Future
<1>6. CASE SendNew(h)
  <2>1. next[h] \in Rec /\ next[h] \in Nat
    BY <1>6, RecFacts DEF SendNew
  <2>2. /\ arrived[h][next[h]] = 0 /\ file[h][next[h]] = "none"
        /\ thrRec[h] # next[h]
    BY <1>5, <2>1, RecFacts DEF FutureIn
  <2>3. CASE link[h] = "down"
    BY <1>0, <1>6, <2>1, <2>2, <2>3 DEF SendNew
  <2>4. CASE Arrive(h, next[h], next[h]) /\ UNCHANGED <<putPc, putRec>>
    <3>1. arrived'[h] = [arrived[h] EXCEPT ![next[h]] = 1]
      BY <2>2, <2>4 DEF Arrive, More
    <3> QED BY <1>0, <1>6, <2>1, <2>2, <2>4, <3>1 DEF SendNew
  <2>5. CASE link[h] = "half"
    BY <1>0, <1>6, <2>5 DEF SendNew
  <2> QED BY <1>6, <2>3, <2>4, <2>5 DEF SendNew
<1>7. CASE PutEvict(h)
  BY <1>0, <1>7 DEF PutEvict
<1>8. CASE PutRemove(h)
  BY <1>0, <1>8 DEF PutRemove, FilesLeft
<1>9. CASE PutInsert(h)
  BY <1>0, <1>9 DEF PutInsert, PutDone
<1>10. CASE PutWrite(h)
  BY <1>0, <1>10 DEF PutWrite, PutDone
<1>11. CASE ThrSelect(h)
  <2>1. Newest(table[h]) \in table[h] \cup {0} /\ table[h] \subseteq Rec
    BY NewestType
  <2>2. CASE ThrSends(h, Newest(table[h]))
    <3>1. Newest(table[h]) \in Rec /\ file[h][Newest(table[h])] = "full"
      BY <1>5, <1>11, <2>1, <2>2 DEF ThrSelect, EndsRound, ThrSends
    <3>2. arrived[h][Newest(table[h])] = 0
      <4>1. thrPc[h] = "sleep"
        BY <1>11 DEF ThrSelect
      <4>2. arrived[h] \in [Rec -> Count]
        OBVIOUS
      <4>3. arrived[h][Newest(table[h])] \in Count /\ Count \subseteq Nat
        BY <3>1, <4>2, CountFacts
      <4>4. ~(arrived[h][Newest(table[h])] > 0)
        BY <1>0, <3>1, <4>1
      <4>5. \A n \in Nat : ~(n > 0) => n = 0
        OBVIOUS
      <4> QED BY <4>3, <4>4, <4>5, Zenon
    <3>3. putPc[h] # "idle" => putRec[h] # Newest(table[h])
      BY <1>0, <3>1
    <3> QED BY <1>0, <1>11, <2>2, <3>1, <3>2, <3>3 DEF ThrSelect, ThrSends
  <2>3. CASE UNCHANGED thrVars
    BY <1>0, <1>11, <2>3 DEF ThrSelect
  <2> QED BY <1>11, <2>2, <2>3 DEF ThrSelect
<1>12. CASE ThrSend(h)
  <2>1. thrRec[h] \in Rec
    BY <1>12 DEF ThrSend
  <2>2. CASE link[h] = "up"
    <3>1. arrived'[h] = [arrived[h] EXCEPT ![thrRec[h]] = 1]
      BY <1>0, <1>12, <2>2 DEF ThrSend, Arrive, More
    <3> QED BY <1>0, <1>12, <2>1, <2>2, <3>1 DEF ThrSend
  <2>3. CASE link[h] = "half"
    BY <1>0, <1>12, <2>3 DEF ThrSend
  <2>4. CASE link[h] = "down"
    <3>1. putPc[h] # "idle" => putRec[h] # 0
      BY <1>5
    <3> QED BY <1>0, <1>12, <2>1, <2>4, <3>1 DEF ThrSend, ThrUnlocked
  <2> QED BY <2>2, <2>3, <2>4
<1>13. CASE ThrDelete(h)
  BY <1>0, <1>13 DEF ThrDelete
<1>14. CASE ThrRemove(h)
  BY <1>0, <1>5, <1>14 DEF ThrRemove, Removed, ThrUnlocked
<1> QED
  BY <1>2, <1>3, <1>4, <1>6, <1>7, <1>8, <1>9, <1>10, <1>11, <1>12, <1>13,
     <1>14 DEF Next, Put, Thread

(* Until the process restarts, http_resend_pthread and the direct send     *)
(* bring a record to the server at most once, whichever SQLite statement   *)
(* or file operation fails and however the link drops.                     *)
THEOREM HttpOnce == Spec => [](restarts = 0 => HttpAtMostOnce)
<1> DEFINE IInv == TypeOK /\ Locked /\ Future /\ Once
<1>1. Init => IInv
  BY TypeInit, LockedInit, FutureInit DEF Init, Once, OnceIn
<1>2. IInv /\ [Next]_vars => IInv'
  BY TypeNext, LockedNext, FutureNext, OnceNext
<1>3. IInv => (restarts = 0 => HttpAtMostOnce)
  BY DEF Once, OnceIn, HttpAtMostOnce
<1> QED BY <1>1, <1>2, <1>3, PTL DEF Spec

-----------------------------------------------------------------------------
(* del_redundant takes the old end of a table: whatever stays is newer.     *)
LEMMA OldestOlder ==
  ASSUME NEW S \in SUBSET Rec, NEW n \in Nat, NEW r \in Oldest(S, n),
         NEW q \in S \ Oldest(S, n)
  PROVE  r < q
<1>1. r \in S /\ r \in Nat /\ q \in Nat
  BY RecFacts DEF Oldest
<1>2. SUFFICES ASSUME q <= r PROVE FALSE
  BY <1>1
<1> DEFINE A == {x \in S : x < q}
           B == {x \in S : x < r}
<1>3. A \in SUBSET B /\ B \in SUBSET Rec
  <2>1. ASSUME NEW x \in S, x < q PROVE x < r
    <3>1. x \in Nat
      BY RecFacts
    <3> QED BY <1>1, <1>2, <2>1, <3>1
  <2> QED BY <2>1, Zenon
<1>4. Cardinality(A) <= Cardinality(B) /\ Cardinality(A) \in Nat
      /\ Cardinality(B) \in Nat
  <2> HIDE DEF A, B
  <2> QED BY <1>3, FewerRows, TableFinite
<1>5. Cardinality(B) < n /\ ~(Cardinality(A) < n)
  BY DEF Oldest
<1> QED BY <1>4, <1>5

(* It takes no more rows than it was told to. *)
LEMMA OldestFew ==
  ASSUME NEW S \in SUBSET Rec, NEW n \in Nat
  PROVE  Cardinality(S \ Oldest(S, n)) >= Cardinality(S) - n
<1> DEFINE T == Oldest(S, n)
<1>1. T \in SUBSET S /\ T \in SUBSET Rec /\ S \ T \in SUBSET Rec
  BY DEF Oldest
<1>2. /\ IsFiniteSet(S) /\ IsFiniteSet(T) /\ Cardinality(S) \in Nat
      /\ Cardinality(T) \in Nat /\ Cardinality(S \ T) \in Nat
  BY <1>1, TableFinite
<1>3. Cardinality(T) <= n
  <2>1. CASE T = {}
    BY <2>1, FS_EmptySet
  <2>2. CASE T # {}
    <3>1. PICK m \in T : \A q \in T : q <= m
      BY <1>1, <2>2, LargestElement
    <3> DEFINE L == {q \in S : q < m}
    <3>2. Cardinality(L) < n /\ L \in SUBSET Rec
      BY <3>1 DEF Oldest
    <3>3. T \subseteq L \cup {m}
      <4>1. ASSUME NEW q \in T PROVE q = m \/ q < m
        <5>1. q \in Nat /\ m \in Nat /\ q <= m
          BY <1>1, <3>1, RecFacts
        <5> QED BY <5>1
      <4> QED BY <1>1, <4>1, Zenon
    <3> HIDE DEF L, T
    <3>4. m \in Rec /\ L \cup {m} \in SUBSET Rec
      BY <1>1, <3>1, <3>2
    <3>5. Cardinality(T) <= Cardinality(L \cup {m})
      BY <3>3, <3>4, FewerRows
    <3>6. Cardinality(L \cup {m}) <= Cardinality(L) + 1
      BY <3>2, OneMoreRow
    <3>7. Cardinality(L) \in Nat /\ Cardinality(L \cup {m}) \in Nat
      BY <3>2, <3>4, TableFinite
    <3> QED BY <1>2, <3>2, <3>5, <3>6, <3>7
  <2> QED BY <2>1, <2>2
<1> HIDE DEF T
<1>4. Cardinality(S \ T) = Cardinality(S) - Cardinality(S \cap T)
  BY <1>2, FS_Difference
<1>5. Cardinality(S \ T) = Cardinality(S) - Cardinality(T)
  <2>1. S \cap T = T
    BY <1>1
  <2> QED BY <1>4, <2>1, Zenon
<1>6. Cardinality(S \ T) >= Cardinality(S) - n
  BY <1>2, <1>3, <1>5
<1> QED BY <1>6 DEF T

(* Both facts for what put evicts.  (With room to spare it evicts nothing.) *)
LEMMA RedundantRows ==
  ASSUME TypeOK, NEW k \in Kinds
  PROVE  /\ Redundant(k) \subseteq table[k]
         /\ \A r \in Redundant(k), q \in table[k] \ Redundant(k) : r < q
         /\ \/ Redundant(k) = {}
            \/ Cardinality(table[k] \ Redundant(k)) >= nr - 1
<1> DEFINE S == table[k]
           limit == Cardinality(S) - nr + 1
<1>1. S \in SUBSET Rec /\ nr \in Nat
  BY LimitFacts DEF TypeOK
<1>2. Cardinality(S) \in Nat /\ limit \in Int
  BY <1>1, TableFinite
<1>3. CASE limit <= 0
  BY <1>3 DEF Redundant
<1>4. CASE limit > 0
  <2>1. PICK n \in Nat : n <= limit /\ Redundant(k) = Oldest(S, n)
    <3>1. CASE HasPic(k) /\ limit > NameCap
      BY <1>1, <1>2, <1>4, <3>1, LimitFacts DEF Redundant
    <3>2. CASE ~(HasPic(k) /\ limit > NameCap)
      BY <1>1, <1>2, <1>4, <3>2 DEF Redundant
    <3> QED BY <3>1, <3>2
  <2>2. Cardinality(S \ Oldest(S, n)) >= Cardinality(S) - n
    BY <1>1, OldestFew
  <2>3. Cardinality(S \ Oldest(S, n)) \in Nat
    <3>1. S \ Oldest(S, n) \in SUBSET Rec
      BY <1>1
    <3> QED BY <3>1, TableFinite
  <2>4. Cardinality(S \ Oldest(S, n)) >= nr - 1
    BY <1>1, <1>2, <2>1, <2>2, <2>3
  <2>5. Oldest(S, n) \subseteq S
    BY DEF Oldest
  <2> QED BY <1>1, <2>1, <2>4, <2>5, OldestOlder
<1> QED BY <1>2, <1>3, <1>4

(* A record that put evicts for the record p is not among the nr newest:    *)
(* nr - 1 rows between it and p stay.                                       *)
LEMMA EvictedIsOld ==
  ASSUME TypeOK, NEW k \in Kinds, NEW p \in Rec, \A q \in table[k] : q < p,
         NEW r \in Redundant(k)
  PROVE  r < p + 1 - nr
<1> DEFINE G == table[k] \ Redundant(k)
<1>1. /\ r \in table[k] /\ table[k] \subseteq Rec /\ Rec \subseteq Nat
      /\ nr \in Nat
  BY RedundantRows, RecFacts, LimitFacts DEF TypeOK
<1>2. Cardinality(G) >= nr - 1
  BY RedundantRows
<1>3. \A q \in G : r < q /\ q < p /\ q \in Nat
  BY <1>1, RedundantRows
<1>4. r \in Nat /\ p \in Nat /\ r < p
  BY <1>1
<1>5. G \in SUBSET ((r + 1)..(p - 1))
  BY <1>3, <1>4
<1>6. /\ IsFiniteSet((r + 1)..(p - 1))
      /\ Cardinality((r + 1)..(p - 1)) = p - 1 - r
  <2>1. /\ IsFiniteSet((r + 1)..(p - 1))
        /\ Cardinality((r + 1)..(p - 1)) =
             IF r + 1 > p - 1 THEN 0 ELSE (p - 1) - (r + 1) + 1
    <3>1. r + 1 \in Int /\ p - 1 \in Int
      BY <1>4
    <3> QED BY <3>1, FS_Interval
  <2> QED BY <1>4, <2>1
<1>7. Cardinality(G) <= p - 1 - r
  <2> HIDE DEF G
  <2> QED BY <1>5, <1>6, FS_Subset
<1>8. Cardinality(G) \in Nat
  <2>1. G \in SUBSET Rec
    BY <1>1
  <2> HIDE DEF G
  <2> QED BY <2>1, TableFinite
<1> HIDE DEF G
<1> QED BY <1>1, <1>2, <1>4, <1>7, <1>8

-----------------------------------------------------------------------------
(* The record being put and the record being sent, at every point of a run *)
(* without faults, restarts included.  The first is the newest one and has *)
(* its row only while its picture is written; the second is in the table   *)
(* or torn until it arrived.                                               *)
PutOrderly(k) ==
  /\ putPc[k] # "idle" =>
        /\ putRec[k] = next[k] - 1 /\ thrRec[k] < putRec[k]
        /\ file[k][putRec[k]] # "full"
        /\ putRec[k] \in table[k] <=> putPc[k] = "write"
  /\ putPc[k] = "write" => HasPic(k)
  /\ putPc[k] = "remove" => putNames[k] \cap table[k] = {}

ThrOrderly(k) ==
  /\ thrPc[k] = "send" /\ thrRec[k] \notin table[k] =>
        HasPic(k) /\ file[k][thrRec[k]] # "full"
  /\ thrPc[k] \in {"delete", "remove"} => arrived[k][thrRec[k]] > 0
  /\ thrPc[k] = "remove" => thrRec[k] \notin table[k]

OrderlyIn(k) == link[k] # "half" /\ PutOrderly(k) /\ ThrOrderly(k)

Orderly == \A k \in Kinds : OrderlyIn(k)

LEMMA OrderlyInit == Init => Orderly
BY DEF Init, Orderly, OrderlyIn, PutOrderly, ThrOrderly

LEMMA OrderlyNext ==
  ASSUME DbMayFail = FALSE, FsMayFail = FALSE, HalfOpen = FALSE,
         TypeOK, Locked, Future, Orderly, [Next]_vars
  PROVE  Orderly'
<1> SUFFICES ASSUME NEW j \in Kinds PROVE OrderlyIn(j)'
  BY DEF Orderly
<1>0. OrderlyIn(j) /\ FutureIn(j) /\ LockedIn(j)
  BY DEF Orderly, Future, Locked
<1>1. CASE /\ SameTable(j) /\ arrived'[j] = arrived[j] /\ next'[j] = next[j]
           /\ link'[j] # "half"
  BY <1>0, <1>1
     DEF OrderlyIn, PutOrderly, ThrOrderly, SameTable, HasPic
<1>2. CASE UNCHANGED vars
  BY <1>0, <1>1, <1>2 DEF vars, SameTable, putVars, thrVars, srvVars, OrderlyIn
<1>3. CASE \E k \in Kinds : LinkChange(k)
  <2>1. link'[j] # "half"
    BY <1>0, <1>3 DEF LinkChange, OrderlyIn, TypeOK
  <2> QED
    BY <1>1, <1>3, <2>1 DEF LinkChange, SameTable, putVars, thrVars, srvVars
<1>4. CASE Restart
  BY <1>0, <1>4 DEF Restart, OrderlyIn, PutOrderly, ThrOrderly
<1>5. ASSUME NEW k \in Kinds, SendNew(k) \/ Put(k) \/ Thread(k), k # j
      PROVE  OrderlyIn(j)'
  BY <1>0, <1>1, <1>5, OthersKept DEF OrderlyIn
<1>6. /\ next[j] \in Nat /\ Rec \subseteq Nat /\ 0 \notin Rec
      /\ thrRec[j] \in Nat /\ putRec[j] \in Nat
      /\ putPc[j] # "idle" => 0 < putRec[j]
  BY NumberFacts, RecFacts DEF TypeOK
<1> USE DEF TypeOK, LockedIn, FutureIn, OrderlyIn, PutOrderly, ThrOrderly,
            putVars, thrVars, srvVars, HasPic
<1>7. CASE SendNew(j)
  <2>1. /\ next[j] \in Rec /\ next'[j] = next[j] + 1
        /\ UNCHANGED <<table, file, thrVars, link>>
    BY <1>7, RecFacts DEF SendNew
  <2>2. PutOrderly(j)'
    <3>1. CASE link[j] = "down"
      <4>0. putPc'[j] = "evict" /\ putRec'[j] = next[j]
        BY <1>7, <3>1 DEF SendNew
      <4>1. next'[j] - 1 = next[j] /\ next[j] >= next[j]
        <5>1. \A n \in Nat : (n + 1) - 1 = n /\ n >= n
          OBVIOUS
        <5> QED BY <1>6, <2>1, <5>1, Zenon
      <4>2. file[j][next[j]] = "none" /\ next[j] \notin table[j]
        BY <1>0, <2>1, <4>1
      <4> QED BY <1>0, <2>1, <4>0, <4>1, <4>2
    <3>2. CASE link[j] # "down"
      BY <1>0, <1>7, <2>1, <3>2 DEF SendNew
    <3> QED BY <3>1, <3>2
  <2>3. thrPc[j] \in {"delete", "remove"} => arrived'[j][thrRec[j]] > 0
    <3>1. thrRec[j] # next[j]
      BY <1>0, <1>6
    <3>2. arrived'[j][thrRec[j]] = arrived[j][thrRec[j]]
      <4>1. CASE UNCHANGED srvVars
        BY <4>1
      <4>2. CASE Arrive(j, next[j], next[j])
        BY <2>1, <3>1, <4>2 DEF Arrive
      <4> QED BY <1>7, <4>1, <4>2 DEF SendNew
    <3> QED BY <1>0, <3>2
  <2> QED BY <1>0, <2>1, <2>2, <2>3
<1>8. CASE PutEvict(j)
  <2>1. Redundant(j) \subseteq table[j]
    BY RedundantRows
  <2> QED BY <1>0, <1>8, <2>1 DEF PutEvict
<1>9. CASE PutRemove(j)
  BY <1>0, <1>9 DEF PutRemove, FilesLeft
<1>10. CASE PutInsert(j)
  BY <1>0, <1>10 DEF PutInsert, PutDone
<1>11. CASE PutWrite(j)
  BY <1>0, <1>11 DEF PutWrite, PutDone
<1>12. CASE ThrSelect(j)
  <2>1. Newest(table[j]) \in table[j] \cup {0} /\ table[j] \subseteq Rec
    BY NewestType
  <2>2. \A r \in table[j] : r < next[j]
    BY <1>0, <1>6
  <2>3. putPc[j] \in {"idle", "evict"} /\ thrPc[j] = "sleep"
    BY <1>0, <1>12 DEF ThrSelect
  <2>4. putPc[j] = "evict" /\ Newest(table[j]) # 0 =>
          Newest(table[j]) < putRec[j]
    <3>1. \A m, p, n \in Nat : m < n /\ p = n - 1 /\ m # p => m < p
      OBVIOUS
    <3>2. ASSUME putPc[j] = "evict", Newest(table[j]) # 0
          PROVE  /\ Newest(table[j]) \in Nat /\ Newest(table[j]) < next[j]
                 /\ putRec[j] = next[j] - 1 /\ Newest(table[j]) # putRec[j]
      BY <1>0, <1>6, <2>1, <2>2, <3>2
    <3> QED BY <1>6, <3>1, <3>2
  <2>5. CASE UNCHANGED <<table, thrVars>>
    BY <1>0, <1>12, <2>5 DEF ThrSelect
  <2>6. CASE Newest(table[j]) # 0 /\ ThrSends(j, Newest(table[j]))
             /\ UNCHANGED table
    BY <1>0, <1>12, <2>1, <2>3, <2>4, <2>6 DEF ThrSelect, ThrSends
  <2>7. CASE /\ Newest(table[j]) # 0 /\ file[j][Newest(table[j])] # "full"
             /\ HasPic(j) /\ DelId(j, Newest(table[j]))
             /\ UNCHANGED thrVars \/ ThrSends(j, Newest(table[j]))
    BY <1>0, <1>12, <2>1, <2>3, <2>4, <2>7 DEF ThrSelect, ThrSends, DelId
  <2> QED BY <1>12, <2>5, <2>6, <2>7 DEF ThrSelect
<1>13. CASE ThrSend(j)
  <2>1. thrRec[j] \in Rec /\ arrived[j][thrRec[j]] \in Count
    BY <1>13 DEF ThrSend
  <2>2. Arrive(j, thrRec[j], buf[j]) => arrived'[j][thrRec[j]] > 0
    <3>1. ASSUME Arrive(j, thrRec[j], buf[j])
          PROVE  arrived'[j][thrRec[j]] = More(arrived[j][thrRec[j]])
      BY <2>1, <3>1 DEF Arrive
    <3> QED BY <2>1, <3>1, CountFacts
  <2>3. CASE link[j] = "up"
    BY <1>0, <1>13, <2>1, <2>2, <2>3 DEF ThrSend
  <2>4. CASE link[j] = "down"
    BY <1>0, <1>6, <1>13, <2>4 DEF ThrSend, ThrUnlocked
  <2> QED BY <1>0, <2>3, <2>4
<1>14. CASE ThrDelete(j)
  BY <1>0, <1>6, <1>14 DEF ThrDelete, DelId, ThrUnlocked
<1>15. CASE ThrRemove(j)
  BY <1>0, <1>6, <1>15 DEF ThrRemove, Removed, ThrUnlocked
<1> QED
  BY <1>2, <1>3, <1>4, <1>5, <1>7, <1>8, <1>9, <1>10, <1>11, <1>12, <1>13,
     <1>14, <1>15 DEF Next, Put, Thread

(* Where a record is that was not lost. *)
Somewhere(k, r) ==
  \/ arrived[k][r] > 0
  \/ r \in table[k]
  \/ putPc[k] # "idle" /\ putRec[k] = r

(* What arrived has arrived for good. *)
LEMMA ArrivedStays ==
  ASSUME TypeOK, [Next]_vars, NEW k \in Kinds, NEW r \in Rec, arrived[k][r] > 0
  PROVE  arrived'[k][r] > 0
<1>1. ASSUME NEW j \in Kinds, NEW q, NEW c, Arrive(j, q, c)
      PROVE  arrived'[k][r] > 0
  <2>1. arrived'[k][r] \in {arrived[k][r], More(arrived[k][r])}
    BY <1>1 DEF Arrive, TypeOK
  <2> QED BY <2>1, CountFacts DEF TypeOK
<1>2. CASE UNCHANGED srvVars
  BY <1>2 DEF srvVars
<1>3. UNCHANGED srvVars \/ (\E j \in Kinds : \E q, c : Arrive(j, q, c))
  <2>1. CASE \E j \in Kinds : SendNew(j)
    BY <2>1 DEF SendNew
  <2>2. CASE \E j \in Kinds : ThrSend(j)
    BY <2>2 DEF ThrSend
  <2> QED
    BY <2>1, <2>2 DEF Next, vars, Restart, LinkChange, Put, PutEvict, PutRemove,
       PutInsert, PutWrite, Thread, ThrSelect, ThrDelete, ThrRemove
<1> QED BY <1>1, <1>2, <1>3

LEMMA NewestKeptNext ==
  ASSUME DbMayFail = FALSE, FsMayFail = FALSE, HalfOpen = FALSE,
         TypeOK, Locked, Match, Future, Orderly, NewestKept, [Next]_vars
  PROVE  NewestKept'
<1> SUFFICES ASSUME NEW j \in Kinds, NEW r \in Rec, restarts' = 0,
                    r < next'[j], r >= next'[j] - nr'
             PROVE  Somewhere(j, r)'
  BY DEF NewestKept, Somewhere
<1>0. OrderlyIn(j) /\ FutureIn(j) /\ LockedIn(j)
  BY DEF Orderly, Future, Locked
<1>1. restarts = 0 /\ nr' = nr
  <2>1. (restarts' = restarts /\ nr' = nr) \/ restarts' = restarts + 1
    BY DEF Next, vars, Restart, LinkChange, SendNew, Put, PutEvict, PutRemove,
           PutInsert, PutWrite, Thread, ThrSelect, ThrSend, ThrDelete, ThrRemove
  <2> QED BY <2>1, BoundsAssumption DEF TypeOK
<1>2. /\ next[j] \in Nat /\ r \in Nat /\ nr \in Nat /\ putRec[j] \in Nat
      /\ table[j] \subseteq Rec /\ Rec \subseteq Nat
  BY NumberFacts, RecFacts, LimitFacts DEF TypeOK
<1>3. CASE next'[j] = next[j] + 1 /\ r = next[j]
  <2>1. SendNew(j)
    <3>1. next'[j] # next[j]
      BY <1>2, <1>3
    <3> QED
      BY <3>1, OthersKept DEF Next, vars, Restart, LinkChange, Put, PutEvict,
         PutRemove, PutInsert, PutWrite, Thread, ThrSelect, ThrSend, ThrDelete,
         ThrRemove
  <2>2. CASE link[j] = "down"
    BY <1>3, <2>1, <2>2 DEF SendNew, Somewhere, TypeOK
  <2>3. CASE link[j] = "up"
    <3>1. arrived'[j][r] = More(arrived[j][r])
      BY <1>3, <2>1, <2>3 DEF SendNew, Arrive, TypeOK
    <3>2. arrived[j][r] \in Count
      BY DEF TypeOK
    <3>3. arrived'[j][r] > 0
      BY <3>1, <3>2, CountFacts
    <3> QED BY <3>3 DEF Somewhere
  <2> QED BY <1>0, <2>2, <2>3 DEF OrderlyIn, TypeOK
<1> SUFFICES ASSUME ~(next'[j] = next[j] + 1 /\ r = next[j])
             PROVE  Somewhere(j, r)'
  BY <1>3
<1>4. next'[j] = next[j] \/ next'[j] = next[j] + 1
  BY DEF Next, vars, Restart, LinkChange, SendNew, Put, PutEvict, PutRemove,
         PutInsert, PutWrite, Thread, ThrSelect, ThrSend, ThrDelete, ThrRemove,
         TypeOK
<1>5. Somewhere(j, r) /\ r < next[j] /\ r >= next[j] - nr
  BY <1>1, <1>2, <1>4 DEF NewestKept, Somewhere
<1>6. arrived[j][r] > 0 => arrived'[j][r] > 0
  BY ArrivedStays
<1>7. CASE /\ table'[j] = table[j] /\ putPc'[j] = putPc[j]
           /\ putRec'[j] = putRec[j]
  BY <1>5, <1>6, <1>7 DEF Somewhere
<1>8. CASE UNCHANGED vars \/ \E k \in Kinds : LinkChange(k)
  BY <1>7, <1>8 DEF vars, LinkChange, putVars
<1>9. CASE Restart
  BY <1>1, <1>9 DEF Restart
<1>10. ASSUME NEW k \in Kinds, SendNew(k) \/ Put(k) \/ Thread(k), k # j
      PROVE  Somewhere(j, r)'
  BY <1>7, <1>10, OthersKept DEF SameTable
<1> USE DEF TypeOK, LockedIn, OrderlyIn, PutOrderly, Somewhere, putVars, thrVars
<1>11. CASE SendNew(j)
  BY <1>5, <1>6, <1>11 DEF SendNew
<1>12. CASE PutEvict(j)
  <2>1. putRec[j] \in Rec /\ putRec[j] = next[j] - 1
    BY <1>0, <1>12 DEF PutEvict
  <2>2. \A q \in table[j] : q < putRec[j]
    <3>1. ASSUME NEW q \in table[j] PROVE q < putRec[j]
      <4>1. q \in Nat /\ q < next[j] /\ q # putRec[j]
        BY <1>0, <1>2, <1>12 DEF FutureIn, PutEvict
      <4>2. \A m, p, n \in Nat : m < n /\ p = n - 1 /\ m # p => m < p
        OBVIOUS
      <4> QED BY <1>2, <2>1, <4>1, <4>2
    <3> QED BY <3>1
  <2>3. r \notin Redundant(j)
    <3>1. ASSUME r \in Redundant(j) PROVE r < putRec[j] + 1 - nr
      BY <2>1, <2>2, <3>1, EvictedIsOld
    <3> QED BY <1>2, <1>5, <2>1, <3>1
  <2> QED BY <1>5, <1>6, <1>12, <2>3 DEF PutEvict
<1>13. CASE PutRemove(j)
  BY <1>5, <1>6, <1>13 DEF PutRemove
<1>14. CASE PutInsert(j)
  BY <1>5, <1>6, <1>14 DEF PutInsert, PutDone
<1>15. CASE PutWrite(j)
  BY <1>0, <1>5, <1>6, <1>15 DEF PutWrite, PutDone
<1>16. CASE ThrSelect(j)
  <2>1. UNCHANGED table
    BY <1>1, <1>16, PictureFound DEF ThrSelect
  <2> QED BY <1>7, <1>16, <2>1 DEF ThrSelect
<1>17. CASE ThrSend(j) \/ ThrRemove(j)
  BY <1>7, <1>17 DEF ThrSend, ThrRemove
<1>18. CASE ThrDelete(j)
  <2>1. thrPc[j] = "delete" /\ arrived[j][thrRec[j]] > 0
    BY <1>0, <1>18 DEF ThrDelete, ThrOrderly
  <2>2. table' = [table EXCEPT ![j] = @ \ {thrRec[j]}]
    BY <1>18 DEF ThrDelete, DelId
  <2> QED BY <1>5, <1>6, <1>18, <2>1, <2>2 DEF ThrDelete
<1> QED
  BY <1>8, <1>9, <1>10, <1>11, <1>12, <1>13, <1>14, <1>15, <1>16, <1>17, <1>18
     DEF Next, Put, Thread

(* Until the first restart, the nr newest records of a table are at the    *)
(* server, in the table, or being put into it, for every limit that can be *)
(* configured: del_redundant takes from the old end only, and the thread,  *)
(* which works from the new end, deletes only what it has sent.            *)
THEOREM NewestRecordsKept ==
  ASSUME DbMayFail = FALSE, FsMayFail = FALSE, HalfOpen = FALSE
  PROVE  Spec => []NewestKept
<1> DEFINE IInv == /\ TypeOK /\ Locked /\ Match /\ Future /\ Orderly
                   /\ NewestKept
<1>1. Init => IInv
  <2>1. Init => NewestKept
    <3>1. ASSUME Init, NEW k \in Kinds, NEW r \in Rec PROVE ~(r < next[k])
      <4>1. next[k] = 1 /\ r \in Nat /\ r > 0
        BY <3>1, NumberFacts DEF Init
      <4> QED BY <4>1
    <3> QED BY <3>1 DEF NewestKept
  <2>2. Init => Match
    BY DEF Init, Match, MatchIn
  <2> QED BY <2>1, <2>2, TypeInit, LockedInit, FutureInit, OrderlyInit
<1>2. IInv /\ [Next]_vars => IInv'
  BY TypeNext, LockedNext, MatchNext, FutureNext, OrderlyNext, NewestKeptNext
<1> QED BY <1>1, <1>2, PTL DEF Spec
=============================================================================
