---------------------------- MODULE BitcomResend ----------------------------
(***************************************************************************)
(* The retransmission store of the bitcom platform (ve/platform/bitcom):   *)
(* three tables of one SQLite file, http_resend, ftp_resend and mq_resend, *)
(* each with its mutex and its retransmission thread, and the picture      *)
(* directory that http and ftp rows name files in.                         *)
(*                                                                         *)
(* A record is the number of its production.  Each table has one producer  *)
(* (pfm_thread, the record process, mq_send_thread), and SQLite gives an   *)
(* inserted row the id max(id)+1, so the order of the ids in a table is    *)
(* the order of these numbers: "order by id" is the order of the numbers.  *)
(***************************************************************************)
EXTENDS Integers, FiniteSets

CONSTANTS
  Kinds,        \* the tables in use, a subset of {"http", "ftp", "mq"}
  MaxRec,       \* bound: records produced per table
  MaxLimit,     \* largest value of cfg.pfm.resend_rotate (a uint8_t: 255)
  NameCap,      \* numberof(del_name): rows one eviction can delete (10)
  BackoffLen,   \* numberof(backoff_time) (6)
  MaxRestarts,  \* bound: restarts of the process
  HalfOpen,     \* may the http link be open for the sender only?
  DbMayFail,    \* may an SQLite statement fail (the file is locked by
                \* one of the other two connections, or the card is full)?
  FsMayFail     \* may writing a picture file fail?

ASSUME KindsAssumption == Kinds \subseteq {"http", "ftp", "mq"}
ASSUME BoundsAssumption ==
  /\ {MaxRec, MaxLimit, NameCap, BackoffLen} \subseteq Nat \ {0}
  /\ MaxRestarts \in Nat
ASSUME FaultsAssumption == {HalfOpen, DbMayFail, FsMayFail} \subseteq BOOLEAN

VARIABLES
  table,     \* table[k]: the rows of table k
  file,      \* file[k][r]: the picture file of record r: "none", "empty", "full"
  link,      \* link[k]: "up", "down", or "half" (sends succeed, nobody answers)
  nr,        \* nr_record / resv, read from the configuration at start
  backoff,   \* backoff[k]: backoff_ptr
  mutex,     \* mutex[k]: who holds the mutex, "none", "put" or "thread"
  putPc,     \* putPc[k]: where the call of *_resend_put in progress is
  putRec,    \* putRec[k]: the record it puts, 0: none
  putNames,  \* putNames[k]: del_name, the files it has to remove
  thrPc,     \* thrPc[k]: where the retransmission thread is
  thrRec,    \* thrRec[k]: the record it sends, 0: none
  buf,       \* buf[k]: the record whose picture the thread read last; 0: none
             \* (size 0), Garbage: what the stack held at the start
  next,      \* next[k]: the number of the next record
  arrived,   \* history: arrived[k][r]: how often (up to 3) something came to
             \* the server under the name of record r
  wrong,     \* history: the records whose name another record's picture got
  restarts   \* number of restarts so far

putVars == <<putPc, putRec, putNames>>
thrVars == <<thrPc, thrRec>>
srvVars == <<arrived, wrong>>
vars == <<table, file, link, nr, backoff, mutex, putVars, thrVars, buf, next,
          srvVars, restarts>>

Rec        == 1..MaxRec
Limit      == 0..MaxLimit
BackoffPtr == 0..(BackoffLen - 1)
Count      == 0..3

Garbage    == MaxRec + 1

HasPic(k) == k \in {"http", "ftp"}

(* The server receives, under the name of record r, what was in the buffer. *)
More(n) == IF n < 3 THEN n + 1 ELSE 3

Arrive(k, r, content) ==
  /\ arrived' = [arrived EXCEPT ![k][r] = More(@)]
  /\ wrong' = [wrong EXCEPT ![k] = IF content = r THEN @ ELSE @ \cup {r}]

(* picinfo.size and buf of the ftp thread are not initialised. *)
FreshBuf == [k \in Kinds |-> IF k = "ftp" THEN {0, Garbage} ELSE {0}]

(***************************************************************************)
(* sabitcom_*_resend_select: "order by id DESC limit 1"; 0 when empty.     *)
(***************************************************************************)
Newest(S) ==
  IF S = {} THEN 0 ELSE CHOOSE r \in S : \A q \in S : q <= r

(***************************************************************************)
(* sabitcom_*_resend_del_redundant: "order by id asc limit cnt-nr+1", and  *)
(* http and ftp stop after nr_name_max rows.                               *)
(***************************************************************************)
EvictNewest(S, n) == {r \in S : Cardinality({q \in S : q > r}) < n}

Oldest(S, n) == {r \in S : Cardinality({q \in S : q < r}) < n}

RedundantLate(k) ==
  IF Cardinality(table[k]) - nr <= 0 THEN {}
    ELSE Oldest(table[k], Cardinality(table[k]) - nr)

RedundantEarly(k) ==
  LET limit == Cardinality(table[k]) - nr + 2
      n     == IF HasPic(k) /\ limit > NameCap THEN NameCap ELSE limit
  IN  IF limit <= 0 THEN {} ELSE Oldest(table[k], n)

Redundant(k) ==
  LET limit == Cardinality(table[k]) - nr + 1
      n     == IF HasPic(k) /\ limit > NameCap THEN NameCap ELSE limit
  IN  IF limit <= 0 THEN {} ELSE Oldest(table[k], n)

Init ==
  /\ table = [k \in Kinds |-> {}]
  /\ file = [k \in Kinds |-> [r \in Rec |-> "none"]]
  /\ link = [k \in Kinds |-> "down"]
  /\ nr \in Limit
  /\ backoff = [k \in Kinds |-> 0]
  /\ mutex = [k \in Kinds |-> "none"]
  /\ putPc = [k \in Kinds |-> "idle"]
  /\ putRec = [k \in Kinds |-> 0]
  /\ putNames = [k \in Kinds |-> {}]
  /\ thrPc = [k \in Kinds |-> "sleep"]
  /\ thrRec = [k \in Kinds |-> 0]
  /\ buf \in [Kinds -> {0, Garbage}] /\ \A k \in Kinds : buf[k] \in FreshBuf[k]
  /\ next = [k \in Kinds |-> 1]
  /\ arrived = [k \in Kinds |-> [r \in Rec |-> 0]]
  /\ wrong = [k \in Kinds |-> {}]
  /\ restarts = 0

(***************************************************************************)
(* The link to a server changes.  Only the long http link can be half open *)
(* for the sender: send_s returns the full length without an answer.       *)
(***************************************************************************)
LinkChange(k) ==
  /\ \E l \in {"up", "down"} \cup (IF k = "http" /\ HalfOpen THEN {"half"} ELSE {}) :
        l # link[k] /\ link' = [link EXCEPT ![k] = l]
  /\ UNCHANGED <<table, file, nr, backoff, mutex, putVars, thrVars, buf, next,
                 srvVars, restarts>>

(***************************************************************************)
(* A new record is sent directly: pfm_thread's TABITCOM_RECORD, the        *)
(* ftp_send_pic of a record, mq_send_thread.  If the send reports an error *)
(* the record goes to the table.                                           *)
(***************************************************************************)
SendNew(k) ==
  /\ putPc[k] = "idle"
  /\ next[k] <= MaxRec
  /\ next' = [next EXCEPT ![k] = @ + 1]
  /\ \/ /\ link[k] = "down"
        /\ putPc' = [putPc EXCEPT ![k] = "evict"]
        /\ putRec' = [putRec EXCEPT ![k] = next[k]]
        /\ UNCHANGED srvVars
     \/ /\ link[k] = "up"
        /\ Arrive(k, next[k], next[k])
        /\ UNCHANGED <<putPc, putRec>>
     \/ /\ link[k] = "half"
        /\ UNCHANGED <<putPc, putRec, srvVars>>
  /\ UNCHANGED <<table, file, link, nr, backoff, mutex, putNames, thrVars, buf,
                 restarts>>

(***************************************************************************)
(* *_resend_put, first part: lock and del_redundant.  The name of a row    *)
(* whose DELETE fails is returned all the same.  A failing count or SELECT *)
(* evicts nothing.                                                         *)
(***************************************************************************)
PutEvict(k) ==
  /\ putPc[k] = "evict" /\ mutex[k] = "none"
  /\ mutex' = [mutex EXCEPT ![k] = "put"]
  /\ \E names \in IF DbMayFail THEN {{}, Redundant(k)} ELSE {Redundant(k)} :
     \E gone \in IF DbMayFail THEN SUBSET names ELSE {names} :
        /\ table' = [table EXCEPT ![k] = @ \ gone]
        /\ putNames' = [putNames EXCEPT ![k] = names]
  /\ putPc' = [putPc EXCEPT ![k] = "remove"]
  /\ UNCHANGED <<file, link, nr, backoff, putRec, thrVars, buf, next, srvVars,
                 restarts>>

(* The files of the evicted names are removed (http and ftp). *)
FilesKept(k) == file[k]

FilesLeft(k) ==
  [r \in Rec |-> IF HasPic(k) /\ r \in putNames[k] THEN "none" ELSE file[k][r]]

PutRemove(k) ==
  /\ putPc[k] = "remove"
  /\ file' = [file EXCEPT ![k] = FilesLeft(k)]
  /\ putPc' = [putPc EXCEPT ![k] = "insert"]
  /\ putNames' = [putNames EXCEPT ![k] = {}]
  /\ UNCHANGED <<table, link, nr, backoff, mutex, putRec, thrVars, buf, next,
                 srvVars, restarts>>

PutDone(k) ==
  /\ putPc' = [putPc EXCEPT ![k] = "idle"]
  /\ putRec' = [putRec EXCEPT ![k] = 0]
  /\ mutex' = [mutex EXCEPT ![k] = "none"]

(* sabitcom_*_resend_insert; on failure no file is written. *)
PutInsert(k) ==
  /\ putPc[k] = "insert"
  /\ \/ /\ table' = [table EXCEPT ![k] = @ \cup {putRec[k]}]
        /\ \/ /\ HasPic(k)
              /\ putPc' = [putPc EXCEPT ![k] = "write"]
              /\ UNCHANGED <<mutex, putRec>>
           \/ ~HasPic(k) /\ PutDone(k)
     \/ DbMayFail /\ PutDone(k) /\ UNCHANGED table
  /\ UNCHANGED <<file, link, nr, backoff, putNames, thrVars, buf, next, srvVars,
                 restarts>>

(* The picture is written; fopen or fwrite may fail, and nobody looks. *)
PutWrite(k) ==
  /\ putPc[k] = "write"
  /\ \E f \in IF FsMayFail THEN {"none", "empty", "full"} ELSE {"full"} :
        file' = [file EXCEPT ![k][putRec[k]] = f]
  /\ PutDone(k)
  /\ UNCHANGED <<table, link, nr, backoff, putNames, thrVars, buf, next, srvVars,
                 restarts>>

(***************************************************************************)
(* The retransmission thread after its sleep: lock, select, open and read  *)
(* the picture.  An unreadable http picture deletes the row and ends the   *)
(* round.  The ftp thread deletes the row and goes on: picinfo.size and    *)
(* buf still hold what an earlier round read, or whatever the stack held;  *)
(* only if that size is 0, or the file is empty, does the round end.       *)
(***************************************************************************)
ThrStillLocked(k) ==
  /\ thrPc' = [thrPc EXCEPT ![k] = "sleep"]
  /\ thrRec' = [thrRec EXCEPT ![k] = 0]
  /\ UNCHANGED mutex

ThrUnlocked(k) ==
  /\ thrPc' = [thrPc EXCEPT ![k] = "sleep"]
  /\ thrRec' = [thrRec EXCEPT ![k] = 0]
  /\ mutex' = [mutex EXCEPT ![k] = "none"]

DelId(k, r) ==
  \/ table' = [table EXCEPT ![k] = @ \ {r}]
  \/ DbMayFail /\ UNCHANGED table

ThrSends(k, r) ==
  /\ mutex' = [mutex EXCEPT ![k] = "thread"]
  /\ thrPc' = [thrPc EXCEPT ![k] = "send"]
  /\ thrRec' = [thrRec EXCEPT ![k] = r]

EndsNoRound(k) == FALSE

EndsRound(k) == k = "http"

ThrSelect(k) ==
  LET r == Newest(table[k]) IN
  /\ thrPc[k] = "sleep" /\ mutex[k] = "none"
  /\ \/ /\ r = 0 \/ DbMayFail
        /\ UNCHANGED <<table, mutex, thrVars, buf>>
     \/ /\ r # 0 /\ (HasPic(k) => file[k][r] = "full")
        /\ ThrSends(k, r)
        /\ buf' = [buf EXCEPT ![k] = r]
        /\ UNCHANGED table
     \/ /\ r # 0 /\ HasPic(k) /\ file[k][r] # "full"
        /\ DelId(k, r)
        /\ buf' = [buf EXCEPT ![k] = IF file[k][r] = "empty" THEN 0 ELSE @]
        /\ IF EndsRound(k) \/ buf'[k] = 0
             THEN UNCHANGED <<mutex, thrVars>>
             ELSE ThrSends(k, r)
  /\ UNCHANGED <<file, link, nr, backoff, putVars, next, srvVars, restarts>>

NextBackoffNoWrap(b) == b + 1

NextBackoff(b) == IF b + 1 = BackoffLen THEN 0 ELSE b + 1

(* The send: tabitcom_http_record, tabitcom_ftp_send or tabitcom_mq_send. *)
ThrSend(k) ==
  /\ thrPc[k] = "send"
  /\ \/ /\ link[k] # "down"
        /\ IF link[k] = "up" THEN Arrive(k, thrRec[k], buf[k])
                             ELSE UNCHANGED srvVars
        /\ thrPc' = [thrPc EXCEPT ![k] = "delete"]
        /\ UNCHANGED <<backoff, mutex, thrRec>>
     \/ /\ link[k] = "down"
        /\ backoff' = [backoff EXCEPT ![k] = NextBackoff(@)]
        /\ ThrUnlocked(k)
        /\ UNCHANGED srvVars
  /\ UNCHANGED <<table, file, link, nr, putVars, buf, next, restarts>>

(* The row of a sent record is deleted ... *)
ThrDelete(k) ==
  /\ thrPc[k] = "delete"
  /\ DelId(k, thrRec[k])
  /\ IF HasPic(k)
       THEN /\ thrPc' = [thrPc EXCEPT ![k] = "remove"]
            /\ UNCHANGED <<mutex, backoff, thrRec>>
       ELSE /\ ThrUnlocked(k)
            /\ backoff' = [backoff EXCEPT ![k] = 0]
  /\ UNCHANGED <<file, link, nr, putVars, buf, next, srvVars, restarts>>

(* ... and its picture removed, whether or not the row went away. *)
RemovedWithRow(k) ==
  IF thrRec[k] \in table[k] THEN file
    ELSE [file EXCEPT ![k][thrRec[k]] = "none"]

Removed(k) == [file EXCEPT ![k][thrRec[k]] = "none"]

ThrRemove(k) ==
  /\ thrPc[k] = "remove"
  /\ file' = Removed(k)
  /\ backoff' = [backoff EXCEPT ![k] = 0]
  /\ ThrUnlocked(k)
  /\ UNCHANGED <<table, link, nr, putVars, buf, next, srvVars, restarts>>

(***************************************************************************)
(* The process restarts at any point: the database and the pictures stay,  *)
(* everything in memory is initialised again by tabitcom_pthread_ram_init. *)
(***************************************************************************)
Restart ==
  /\ restarts < MaxRestarts
  /\ restarts' = restarts + 1
  /\ nr' \in Limit
  /\ backoff' = [k \in Kinds |-> 0]
  /\ mutex' = [k \in Kinds |-> "none"]
  /\ putPc' = [k \in Kinds |-> "idle"]
  /\ putRec' = [k \in Kinds |-> 0]
  /\ putNames' = [k \in Kinds |-> {}]
  /\ thrPc' = [k \in Kinds |-> "sleep"]
  /\ thrRec' = [k \in Kinds |-> 0]
  /\ buf' \in [Kinds -> {0, Garbage}] /\ \A k \in Kinds : buf'[k] \in FreshBuf[k]
  /\ UNCHANGED <<table, file, link, next, srvVars>>

Put(k)    == PutEvict(k) \/ PutRemove(k) \/ PutInsert(k) \/ PutWrite(k)
Thread(k) == ThrSelect(k) \/ ThrSend(k) \/ ThrDelete(k) \/ ThrRemove(k)

Next ==
  \/ \E k \in Kinds : LinkChange(k) \/ SendNew(k) \/ Put(k) \/ Thread(k)
  \/ Restart

Spec == Init /\ [][Next]_vars

(* The threads run and the mutex is fair enough for each of its users: a   *)
(* thread sleeps at least backoff_time[0] seconds between two rounds.      *)
Fairness ==
  \A k \in Kinds : WF_vars(Put(k)) /\ SF_vars(ThrSelect(k))
                   /\ WF_vars(ThrSend(k) \/ ThrDelete(k) \/ ThrRemove(k))

FairSpec == Spec /\ Fairness
-----------------------------------------------------------------------------
TypeOK ==
  /\ table \in [Kinds -> SUBSET Rec]
  /\ file \in [Kinds -> [Rec -> {"none", "empty", "full"}]]
  /\ link \in [Kinds -> {"up", "down", "half"}]
  /\ nr \in Limit
  /\ backoff \in [Kinds -> BackoffPtr]
  /\ mutex \in [Kinds -> {"none", "put", "thread"}]
  /\ putPc \in [Kinds -> {"idle", "evict", "remove", "insert", "write"}]
  /\ putRec \in [Kinds -> Rec \cup {0}]
  /\ \A k \in Kinds : putPc[k] # "idle" => putRec[k] \in Rec
  /\ putNames \in [Kinds -> SUBSET Rec]
  /\ thrPc \in [Kinds -> {"sleep", "send", "delete", "remove"}]
  /\ thrRec \in [Kinds -> Rec \cup {0}]
  /\ \A k \in Kinds : thrPc[k] # "sleep" => thrRec[k] \in Rec
  /\ buf \in [Kinds -> Rec \cup {0, Garbage}]
  /\ next \in [Kinds -> Rec \cup {Garbage}]
  /\ arrived \in [Kinds -> [Rec -> Count]]
  /\ wrong \in [Kinds -> SUBSET Rec]
  /\ restarts \in 0..MaxRestarts

(* A table that has reached the configured number of rows is cut back by   *)
(* the put that notices it (del_redundant), so no table holds more rows    *)
(* than the largest number ever configured, however often the process      *)
(* restarts with another one; with 0 configured there is still one row.    *)
(* Holds as long as no SQLite statement fails.                             *)
TableBounded ==
  \A k \in Kinds : Cardinality(table[k]) <= MaxLimit

(* Between two critical sections of a table, every row has its complete    *)
(* picture and every picture its row: put and the thread change both in    *)
(* several steps, in opposite orders.  Without faults; a restart between   *)
(* two of these steps may leave a row or a picture of its own.             *)
RowsMatchFiles ==
  \A k \in Kinds : \A r \in Rec :
     HasPic(k) /\ mutex[k] = "none" /\ restarts = 0 =>
        (r \in table[k] <=> file[k][r] = "full")

(* Retransmission is lossy by design, but only at the old end: a record    *)
(* among the nr newest is at the server, in its table, or on its way into  *)
(* it, whatever eviction and the newest-first thread did in between.       *)
(* Without faults and half-open links, until the first restart.            *)
NewestKept ==
  \A k \in Kinds : \A r \in Rec :
     restarts = 0 /\ r < next[k] /\ r >= next[k] - nr =>
        \/ arrived[k][r] > 0
        \/ r \in table[k]
        \/ putPc[k] # "idle" /\ putRec[k] = r

(* The http thread removes the picture of a sent record even if deleting   *)
(* its row failed, and a row without picture is never sent: so a record    *)
(* reaches the server at most once while the process runs, even when the   *)
(* database file is locked by another connection at the wrong moment.      *)
HttpAtMostOnce ==
  "http" \in Kinds => \A r \in Rec : arrived["http"][r] <= 1

(* What arrives under a record's name is that record's picture. *)
RightPicture ==
  \A k \in Kinds : wrong[k] = {}

(* When a link recovers for good, the back-off thread empties the table,   *)
(* including rows whose send failed at every earlier attempt.              *)
Drained ==
  \A k \in Kinds : <>[](link[k] = "up") => <>[](table[k] = {})
=============================================================================
