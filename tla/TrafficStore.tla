---------------------------- MODULE TrafficStore ----------------------------
(***************************************************************************)
(* Store and forward of passing-vehicle records (storage/).  The result    *)
(* thread (process_vm_records_motor_vehicle and ..._others) uploads each   *)
(* record at once: the picture over FTP, then the information over MQ.     *)
(* What could not be uploaded, and everything when records are also kept   *)
(* as history, goes to disk: the picture to a file, the information to the *)
(* SQLite file of its hour, and one row per hourly file to the index       *)
(* DB_files.  The upload thread (db_upload_Thr, traffic_record_reupload)   *)
(* works through the index, sends what is flagged, and frees disk space    *)
(* (db_record_clr).                                                        *)
(*                                                                         *)
(* flag_send is the set of its bits: "pic" (0x02) and "info" (0x01).  Each *)
(* step is one mutex section or one network call of its thread.            *)
(***************************************************************************)
EXTENDS Integers, FiniteSets

CONSTANTS
  MaxRec,         \* records produced
  MaxHour,        \* hours the clock goes through
  Configs,        \* the data_save configurations the operator may choose
  MaxRestarts,    \* restarts of the process
  StorageMayFail, \* whether disk and SQLite calls may fail
  SendMayFail,    \* whether a send may fail although the link is up
  DiskMayFill     \* whether the free space may fall below remain_disk

Flags == {"pic", "info"}
AllConfigs == [upload : {0, 1}, save : {0, 1}, resume : BOOLEAN]

ASSUME BoundsAssumption == MaxRec \in Nat /\ MaxHour \in Nat \ {0} /\ MaxRestarts \in Nat
ASSUME ConfigsAssumption == Configs \subseteq AllConfigs /\ Configs # {}
ASSUME FaultsAssumption == {StorageMayFail, SendMayFail, DiskMayFill} \subseteq BOOLEAN

Recs == 1..MaxRec
Hours == 1..MaxHour
IndexRow == [id : Nat, hour : Hours, send : SUBSET Flags, store : {0, 1}]

VARIABLES
  cfg, hour, ftpUp, mqUp, restarts,            \* configuration, clock, links
  nrec, hourOf,                                \* records produced, and their hour
  pics, dbFiles, rowId, rowSend, rowStore,     \* pictures, hourly files, their rows
  index,                                       \* the rows of DB_files
  wpc, wsend, wstore, wdisk,         \* the result thread, on record nrec
  cId, cSend, cStore, first,                   \* its static db_file and flag_first
  upc, uidx, urec, usend, ustore, ulast, uftp, umq,  \* the upload thread
  ftpGot, infoSends                            \* what the platform received

env == <<cfg, hour, ftpUp, mqUp, restarts>>
made == <<nrec, hourOf>>
rows == <<dbFiles, rowId, rowSend, rowStore>>
disk == <<pics, dbFiles, rowId, rowSend, rowStore, index>>
cache == <<cId, cSend, cStore, first>>
writer == <<wpc, wsend, wstore, wdisk>>
uploader == <<upc, uidx, urec, usend, ustore, ulast, uftp, umq>>
platform == <<ftpGot, infoSends>>
vars == <<env, made, disk, cache, writer, uploader, platform>>

----------------------------------------------------------------------------
(* What calls to the network, the disk and SQLite may return. *)
SendResult(up) == IF SendMayFail THEN {up, FALSE} ELSE {up}
CallResult == IF StorageMayFail THEN BOOLEAN ELSE {TRUE}
MqResult == SendResult(TRUE)

(* The platform receives the information of r: the count stops at MaxSends. *)
MaxSends == MaxRestarts + 2
Told(r) == [infoSends EXCEPT ![r] = IF @ < MaxSends THEN @ + 1 ELSE @]

(* SQLite numbers a new row one above the largest ID in the table: the     *)
(* tables are created with ID INTEGER PRIMARY KEY, without AUTOINCREMENT.  *)
NextId(ids) == CHOOSE n \in 1..(MaxRec + 1) :
                 /\ \A i \in ids : i < n
                 /\ n = 1 \/ n - 1 \in ids

RowsOf(h) == {r \in Recs : hourOf[r] = h /\ rowId[r] > 0}
FirstRow(rs) == CHOOSE r \in rs : \A q \in rs : rowId[r] <= rowId[q]
FirstIndex(is) == CHOOSE i \in is : \A j \in is : i.id <= j.id
OldestFile == FirstIndex(index)

(* The rows that INSERT adds to the hourly file and to the index. *)
NewRowId(h) == NextId({rowId[r] : r \in RowsOf(h)})
NewIndexRow(h, send, store) ==
  [id |-> NextId({i.id : i \in index}), hour |-> h, send |-> send, store |-> store]

(* The picture files: file_save, and the move to trash. *)
FileSave(r) == pics \union {r}
MoveToTrash(r) == pics \ {r}

----------------------------------------------------------------------------
(* The result thread. *)

(* Pictures are named by time, lane and a running count: no two records     *)
(* share a name.                                                            *)
NewRecord == nrec + 1

(* The picture of a new record: sent at once, and saved when that failed or *)
(* when records are kept.                                                   *)
Picture ==
  /\ wpc = "idle" /\ nrec < MaxRec
  /\ \E sent \in SendResult(ftpUp /\ cfg.upload = 1), mounted, saved \in CallResult :
       LET r == NewRecord
           failed == cfg.upload = 1 /\ ~sent
           keep == failed \/ cfg.save = 1
       IN  /\ ftpGot' = IF sent THEN ftpGot \union {r} ELSE ftpGot
           /\ wsend' = IF failed THEN {"pic"} ELSE {}
           /\ pics' = IF keep /\ mounted /\ saved THEN FileSave(r) ELSE pics
           /\ wdisk' = (mounted /\ (keep => saved))
           /\ nrec' = r
           /\ hourOf' = [hourOf EXCEPT ![r] = hour]
  /\ wpc' = "info"
  /\ UNCHANGED <<env, rows, index, cache, wstore, uploader, infoSends>>

(* The information goes out only after its picture. *)
MaySendInfoAlways(flags) == flags \subseteq Flags
MaySendInfo(flags) == "pic" \notin flags

(* flag_send of a record whose information went out. *)
SentFlagsKept(flags) == flags \union {"info"}
SentFlags(flags) == {}

(* send_traffic_records_info fails only on the connection state: the result *)
(* of mq_send_traffic_record is not looked at.                              *)
Info ==
  /\ wpc = "info"
  /\ \E accepted \in MqResult :
       LET now == cfg.upload = 1 /\ MaySendInfo(wsend) /\ mqUp
           flags == IF cfg.upload = 0 THEN wsend
                    ELSE IF now THEN SentFlags(wsend) ELSE wsend \union {"info"}
       IN  /\ infoSends' = IF now /\ accepted THEN Told(nrec) ELSE infoSends
           /\ wsend' = flags
           /\ wstore' = cfg.save
           /\ wpc' = IF ("info" \in flags \/ cfg.save = 1) /\ wdisk THEN "access" ELSE "idle"
  /\ UNCHANGED <<env, made, disk, cache, wdisk, uploader, ftpGot>>

(* save_traffic_records_info: whether the hourly file is there. *)
Access ==
  /\ wpc = "access"
  /\ \E ok \in CallResult :
       /\ wpc' = IF ~ok THEN "idle"
                 ELSE IF hourOf[nrec] \notin dbFiles THEN "insert" ELSE "first"
  /\ UNCHANGED <<env, made, disk, cache, wsend, wstore, wdisk, uploader, platform>>

(* A new hourly file: its index row.  The cached copy keeps its old ID. *)
InsertIndex ==
  /\ wpc = "insert"
  /\ \E ok \in CallResult :
       index' = IF ok THEN index \union {NewIndexRow(hourOf[nrec], wsend, wstore)}
                ELSE index
  /\ cSend' = wsend /\ cStore' = wstore
  /\ wpc' = "row"
  /\ UNCHANGED <<env, made, pics, rows, cId, first, wsend, wstore, wdisk,
                 uploader, platform>>

(* The first time an existing file is met, its index row is read. *)
FirstRead ==
  /\ wpc = "first"
  /\ LET since == {i \in index : i.hour >= hourOf[nrec]}
     IN  \/ /\ first /\ since # {}
            /\ cId' = FirstIndex(since).id
            /\ cSend' = FirstIndex(since).send
            /\ cStore' = FirstIndex(since).store
         \/ /\ ~first \/ since = {} \/ StorageMayFail
            /\ UNCHANGED <<cId, cSend, cStore>>
  /\ first' = FALSE
  /\ wpc' = "send"
  /\ UNCHANGED <<env, made, disk, wsend, wstore, wdisk, uploader, platform>>

(* UPDATE DB_files SET flag_send (flag_store) = ... WHERE ID = n. *)
SetSend(n, flags) == {IF i.id = n THEN [i EXCEPT !.send = flags] ELSE i : i \in index}
SetStore(n, kept) == {IF i.id = n THEN [i EXCEPT !.store = kept] ELSE i : i \in index}

(* The index is updated when the record brings a flag the cached copy of   *)
(* its row does not have.                                                  *)
UpdateSend ==
  /\ wpc = "send"
  /\ \E ok \in CallResult :
       IF wsend \subseteq cSend THEN UNCHANGED <<index, cSend>>
       ELSE /\ cSend' = cSend \union wsend
            /\ index' = IF ok THEN SetSend(cId, cSend \union wsend) ELSE index
  /\ wpc' = "store"
  /\ UNCHANGED <<env, made, pics, rows, cId, cStore, first, wsend, wstore, wdisk,
                 uploader, platform>>

UpdateStore ==
  /\ wpc = "store"
  /\ \E ok \in CallResult :
       IF cStore = 1 \/ wstore = 0 THEN UNCHANGED <<index, cStore>>
       ELSE /\ cStore' = wstore
            /\ index' = IF ok THEN SetStore(cId, wstore) ELSE index
  /\ wpc' = "row"
  /\ UNCHANGED <<env, made, pics, rows, cId, cSend, first, wsend, wstore, wdisk,
                 uploader, platform>>

(* db_write_traffic_records: opening the file creates it; CREATE TABLE may  *)
(* succeed and INSERT fail.                                                 *)
WriteRow ==
  /\ wpc = "row"
  /\ \/ /\ dbFiles' = dbFiles \union {hourOf[nrec]}
        /\ rowId' = [rowId EXCEPT ![nrec] = NewRowId(hourOf[nrec])]
        /\ rowSend' = [rowSend EXCEPT ![nrec] = wsend]
        /\ rowStore' = [rowStore EXCEPT ![nrec] = wstore]
     \/ /\ StorageMayFail
        /\ dbFiles' \in {dbFiles, dbFiles \union {hourOf[nrec]}}
        /\ UNCHANGED <<rowId, rowSend, rowStore>>
  /\ wpc' = "idle"
  /\ UNCHANGED <<env, made, pics, index, cache, wsend, wstore, wdisk,
                 uploader, platform>>

Saving == Info \/ Access \/ InsertIndex \/ FirstRead \/ UpdateSend \/ UpdateStore
            \/ WriteRow

----------------------------------------------------------------------------
(* The upload thread. *)

(* A round of db_upload_Thr: traffic_record_reupload takes the first index  *)
(* row with something to send, if one of the links is up; a failed read     *)
(* means there is none.  While disk_get_status says that the disk is away   *)
(* the thread stays where it is.                                            *)
Poll ==
  /\ upc = "idle"
  /\ uftp' = ftpUp /\ umq' = mqUp
  /\ LET flagged == {i \in index : i.send # {}}
     IN  \/ /\ cfg.resume /\ (ftpUp \/ mqUp) /\ flagged # {}
            /\ upc' = "select" /\ uidx' = FirstIndex(flagged)
         \/ /\ ~cfg.resume \/ ~(ftpUp \/ mqUp) \/ flagged = {} \/ StorageMayFail
            /\ upc' = "clr" /\ uidx' = uidx
  /\ UNCHANGED <<env, made, disk, cache, writer, urec, usend, ustore, ulast, platform>>

(* The next flagged row of the file above ID_record_last; opening the file  *)
(* creates it.  No row, or a failed read, means the file is done.           *)
Select ==
  /\ upc = "select"
  /\ dbFiles' = dbFiles \union {uidx.hour}
  /\ LET todo == {r \in RowsOf(uidx.hour) : rowId[r] > ulast /\ rowSend[r] # {}}
     IN  \/ /\ todo # {}
            /\ urec' = FirstRow(todo)
            /\ usend' = rowSend[FirstRow(todo)] /\ ustore' = rowStore[FirstRow(todo)]
            /\ upc' = "picture"
            /\ ulast' = ulast
         \/ /\ todo = {} \/ StorageMayFail
            /\ upc' = "drop"
            /\ ulast' = 0
            /\ UNCHANGED <<urec, usend, ustore>>
  /\ UNCHANGED <<env, made, pics, rowId, rowSend, rowStore, index, cache, writer,
                 uidx, uftp, umq, platform>>

(* What becomes of a record whose picture is not on disk (-2): it is given  *)
(* up.                                                                      *)
NoPictureRetry == "clr"
NoPicture == "delete"

(* send_traffic_records_image_file: a picture that was sent goes to trash   *)
(* unless the record is kept.                                               *)
PicsAfterSend(r, store, moved) ==
  IF store = 0 /\ moved THEN MoveToTrash(r) ELSE pics

(* The cleared flag is in memory only. *)
SendPicture ==
  /\ upc = "picture"
  /\ \/ /\ "pic" \notin usend
        /\ upc' = "info"
        /\ UNCHANGED <<usend, pics, ftpGot>>
     \/ /\ "pic" \in usend /\ ~uftp
        /\ upc' = "clr"
        /\ UNCHANGED <<usend, pics, ftpGot>>
     \/ /\ "pic" \in usend /\ uftp /\ urec \notin pics
        /\ upc' = NoPicture
        /\ UNCHANGED <<usend, pics, ftpGot>>
     \/ /\ "pic" \in usend /\ uftp /\ urec \in pics
        /\ \E sent \in SendResult(ftpUp), moved \in CallResult :
             /\ upc' = IF sent THEN "info" ELSE "clr"
             /\ ftpGot' = IF sent THEN ftpGot \union {urec} ELSE ftpGot
             /\ usend' = IF sent THEN usend \ {"pic"} ELSE usend
             /\ pics' = IF sent THEN PicsAfterSend(urec, ustore, moved) ELSE pics
  /\ UNCHANGED <<env, made, rows, index, cache, writer, uidx, urec, ustore, ulast,
                 uftp, umq, infoSends>>

SendInfo ==
  /\ upc = "info"
  /\ \/ /\ usend # {"info"}
        /\ upc' = "delete" /\ UNCHANGED infoSends
     \/ /\ usend = {"info"} /\ umq /\ mqUp
        /\ upc' = "delete"
        /\ \E accepted \in MqResult :
             infoSends' = IF accepted THEN Told(urec) ELSE infoSends
     \/ /\ usend = {"info"} /\ ~(umq /\ mqUp)
        /\ upc' = "clr" /\ UNCHANGED infoSends
  /\ UNCHANGED <<env, made, disk, cache, writer, uidx, urec, usend, ustore, ulast,
                 uftp, umq, ftpGot>>

(* db_delete_traffic_records: a record kept as history only loses its flag. *)
RowGone(r, store) ==
  \/ /\ store = 1
     /\ rowSend' = [rowSend EXCEPT ![r] = {}]
     /\ UNCHANGED <<rowId, rowStore>>
  \/ /\ store = 0
     /\ rowId' = [rowId EXCEPT ![r] = 0]
     /\ UNCHANGED <<rowSend, rowStore>>
  \/ StorageMayFail /\ UNCHANGED <<rowId, rowSend, rowStore>>

(* ID_record_last: the next round reads on above this row. *)
ReadOnSkips(r) == rowId[r] + 1
ReadOn(r) == rowId[r]

Delete ==
  /\ upc = "delete"
  /\ RowGone(urec, ustore)
  /\ ulast' = ReadOn(urec)
  /\ upc' = "clr"
  /\ UNCHANGED <<env, made, pics, dbFiles, index, cache, writer, uidx, urec, usend,
                 ustore, uftp, umq, platform>>

(* db_delete_DB_file: the index row, and the hourly file with every row in  *)
(* it; the index row of a file with kept records only loses its flags.      *)
KeepsSentFile(i) == i.store = 1 /\ i.send = {}
KeepsFile(i) == i.store = 1

DropIndex ==
  IF KeepsFile(uidx)
  THEN /\ \E ok \in CallResult : index' = IF ok THEN SetSend(uidx.id, {}) ELSE index
       /\ UNCHANGED <<dbFiles, rowId>>
  ELSE /\ dbFiles' = dbFiles \ {uidx.hour}
       /\ rowId' = [r \in Recs |-> IF hourOf[r] = uidx.hour THEN 0 ELSE rowId[r]]
       /\ \E ok \in CallResult :
            index' = IF ok THEN {i \in index : i.id # uidx.id} ELSE index

Drop ==
  /\ upc = "drop"
  /\ DropIndex
  /\ upc' = "clr"
  /\ UNCHANGED <<env, made, pics, rowSend, rowStore, cache, writer, uidx, urec, usend,
                 ustore, ulast, uftp, umq, platform>>

(* db_record_clr, run after every round: when space is short, the oldest    *)
(* file of the index goes, row by row with the pictures, then the file.     *)
Clr ==
  /\ upc = "clr"
  /\ \/ upc' = "idle" /\ uidx' = uidx
     \/ DiskMayFill /\ index # {} /\ upc' = "clrRow" /\ uidx' = OldestFile
  /\ UNCHANGED <<env, made, disk, cache, writer, urec, usend, ustore, ulast, uftp, umq,
                 platform>>

ClrRow ==
  /\ upc = "clrRow"
  /\ dbFiles' = dbFiles \union {uidx.hour}
  /\ LET all == RowsOf(uidx.hour)
         r == FirstRow(all)
     IN  \/ /\ all # {}
            /\ pics' = pics \ {r}
            /\ RowGone(r, rowStore[r])
            /\ upc' = upc
         \/ /\ all = {} \/ StorageMayFail
            /\ upc' = "clrDrop"
            /\ UNCHANGED <<pics, rowId, rowSend, rowStore>>
  /\ UNCHANGED <<env, made, index, cache, writer, uidx, urec, usend, ustore, ulast,
                 uftp, umq, platform>>

ClrDrop ==
  /\ upc = "clrDrop"
  /\ DropIndex
  /\ upc' = "idle"
  /\ UNCHANGED <<env, made, pics, rowSend, rowStore, cache, writer, uidx, urec, usend,
                 ustore, ulast, uftp, umq, platform>>

Uploader == Poll \/ Select \/ SendPicture \/ SendInfo \/ Delete \/ Drop
              \/ Clr \/ ClrRow \/ ClrDrop

----------------------------------------------------------------------------
(* The environment: the links, the operator, the clock, a restart. *)
FtpFlip == ftpUp' = ~ftpUp /\ UNCHANGED <<cfg, hour, mqUp, restarts>>
MqFlip == mqUp' = ~mqUp /\ UNCHANGED <<cfg, hour, ftpUp, restarts>>
SetConfig == cfg' \in Configs \ {cfg} /\ UNCHANGED <<hour, ftpUp, mqUp, restarts>>
NextHour == hour < MaxHour /\ hour' = hour + 1 /\ UNCHANGED <<cfg, ftpUp, mqUp, restarts>>

Environment ==
  /\ FtpFlip \/ MqFlip \/ SetConfig \/ NextHour
  /\ UNCHANGED <<made, disk, cache, writer, uploader, platform>>

NoIndex == [id |-> 0, hour |-> 1, send |-> {}, store |-> 0]

(* The process restarts: disk and platform stay, every static is fresh. *)
Restart ==
  /\ restarts < MaxRestarts
  /\ restarts' = restarts + 1
  /\ cId' = 0 /\ cSend' = {} /\ cStore' = 0 /\ first' = TRUE
  /\ wpc' = "idle" /\ wsend' = {} /\ wstore' = 0 /\ wdisk' = FALSE
  /\ upc' = "idle" /\ uidx' = NoIndex /\ urec' = 0 /\ usend' = {} /\ ustore' = 0
  /\ ulast' = 0 /\ uftp' = FALSE /\ umq' = FALSE
  /\ UNCHANGED <<cfg, hour, ftpUp, mqUp, made, disk, platform>>

Init ==
  /\ cfg \in Configs /\ hour = 1 /\ ftpUp = TRUE /\ mqUp = TRUE /\ restarts = 0
  /\ nrec = 0 /\ hourOf = [r \in Recs |-> 0]
  /\ pics = {} /\ dbFiles = {} /\ index = {}
  /\ rowId = [r \in Recs |-> 0] /\ rowSend = [r \in Recs |-> {}]
  /\ rowStore = [r \in Recs |-> 0]
  /\ cId = 0 /\ cSend = {} /\ cStore = 0 /\ first = TRUE
  /\ wpc = "idle" /\ wsend = {} /\ wstore = 0 /\ wdisk = FALSE
  /\ upc = "idle" /\ uidx = NoIndex /\ urec = 0 /\ usend = {} /\ ustore = 0
  /\ ulast = 0 /\ uftp = FALSE /\ umq = FALSE
  /\ ftpGot = {} /\ infoSends = [r \in Recs |-> 0]

Next == Picture \/ Saving \/ Uploader \/ Environment \/ Restart

(* Both threads are ordinary POSIX threads: a record that was taken is      *)
(* processed to the end, and the upload thread, which sleeps at most 30     *)
(* seconds between rounds, keeps going.                                     *)
Spec == Init /\ [][Next]_vars
FairSpec == Spec /\ WF_vars(Saving) /\ WF_vars(Uploader)

----------------------------------------------------------------------------
TypeOK ==
  /\ cfg \in Configs /\ hour \in Hours /\ {ftpUp, mqUp} \subseteq BOOLEAN
  /\ restarts \in 0..MaxRestarts
  /\ nrec \in 0..MaxRec /\ hourOf \in [Recs -> 0..MaxHour]
  /\ pics \subseteq Recs /\ dbFiles \subseteq Hours
  /\ rowId \in [Recs -> 0..MaxRec]
  /\ rowSend \in [Recs -> SUBSET Flags] /\ rowStore \in [Recs -> {0, 1}]
  /\ index \subseteq IndexRow
  /\ wpc \in {"idle", "info", "access", "insert", "first", "send", "store", "row"}
  /\ wsend \subseteq Flags /\ wstore \in {0, 1} /\ wdisk \in BOOLEAN
  /\ cId \in 0..MaxRec /\ cSend \subseteq Flags /\ cStore \in {0, 1} /\ first \in BOOLEAN
  /\ upc \in {"idle", "select", "picture", "info", "delete", "drop", "clr", "clrRow", "clrDrop"}
  /\ uidx \in IndexRow /\ urec \in 0..MaxRec /\ usend \subseteq Flags
  /\ ustore \in {0, 1} /\ ulast \in 0..MaxRec /\ {uftp, umq} \subseteq BOOLEAN
  /\ ftpGot \subseteq Recs /\ infoSends \in [Recs -> 0..MaxSends]

(* The platform is told of a record only when it has the record's picture:  *)
(* the MQ text names the picture's FTP address.  Immediate upload and every *)
(* retransmission, across restarts, send the picture first.                 *)
InfoAfterPicture == \A r \in Recs : infoSends[r] > 0 => r \in ftpGot

(* The platform is told of a record once, and once more for each restart    *)
(* between the message and the removal of the row, as long as SQLite        *)
(* statements succeed.                                                      *)
InfoOncePerRun == \A r \in Recs : infoSends[r] <= 1 + restarts

(* A record saved as history keeps its row and its picture: retransmission  *)
(* only clears flags.                                                       *)
HistoryKept ==
  [][\A r \in Recs : rowId[r] > 0 /\ rowStore[r] = 1 =>
       /\ rowId'[r] = rowId[r]
       /\ r \in pics => r \in pics']_vars

(* Once both links stay up and retransmission stays switched on, the upload *)
(* thread gets through everything the index has flagged, records whose      *)
(* picture is missing included.                                             *)
Drains == <>[](ftpUp /\ mqUp /\ cfg.resume) => <>[](\A i \in index : i.send = {})

(* data_process_traffic.cpp, traffic_record_reupload: with FTP up and MQ    *)
(* down the record must not be deleted.  A row of a file that stays goes    *)
(* only after its information was sent.                                     *)
NotDeletedBeforeInfo ==
  [][\A r \in Recs :
       rowId[r] > 0 /\ "info" \in rowSend[r] /\ rowId'[r] = 0 /\ hourOf[r] \in dbFiles' =>
         infoSends[r] > 0]_vars

(* data_process_traffic.cpp, traffic_record_reupload: ID_record_last is     *)
(* cleared when a file has been read to its end.                            *)
DroppedAtItsEnd ==
  [][upc = "select" /\ upc' = "drop" => \A r \in RowsOf(uidx.hour) : rowSend[r] = {}]_vars

(* data_process.cpp, db_record_clr: after its rows the DB file is deleted.  *)
ClrEnds == upc = "clrRow" ~> upc = "clrDrop"
=============================================================================
