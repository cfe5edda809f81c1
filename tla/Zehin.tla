------------------------------- MODULE Zehin -------------------------------
(***************************************************************************)
(* The zehin parking platform (tpi/park/zehin, sqlite3/park/zehin): the    *)
(* result thread leaves a record in one global buffer and posts a message  *)
(* without content; the main thread passes it on; the record thread sends  *)
(* what the buffer holds, or stores it in the SQLite tables msgreget and   *)
(* picreget, which the reget thread empties.                               *)
(*                                                                         *)
(* A record is the number of its notification, a message to the platform   *)
(* the number of its construction (its uuid).  A record id given by the    *)
(* platform is the number of the message it answers.                       *)
(***************************************************************************)
EXTENDS Integers, FiniteSets, Sequences

CONSTANTS
  MaxRec,       \* bound: records notified
  QueueMax,     \* messages MSG_PARK_ID takes
  ZqMax,        \* messages the queue of the record thread takes
  Tries,        \* attempts to send a message directly (3)
  NumPics,      \* PICTURE_BASENUM (2)
  Rotate,       \* rotate_count
  AnswerLost,   \* may the answer to a message that arrived be lost?
  MaxRestarts   \* bound: reboots of the device

ASSUME BoundsAssumption ==
  /\ {QueueMax, ZqMax, Tries, NumPics} \subseteq Nat \ {0}
  /\ {MaxRec, Rotate, MaxRestarts} \subseteq Nat
ASSUME SwitchAssumption == AnswerLost \in BOOLEAN

VARIABLES
  retransmit,\* retransmition_enable, as configured before the start
  made,      \* records notified so far
  field,     \* gstr_tpzehin_records.field: the record in it, 0: none
  picture,   \* gstr_tpzehin_records.picture: the record they belong to, 0: none
  post,      \* what the result thread is about to post, "none" between calls
  park,      \* the messages in MSG_PARK_ID for this platform
  zq,        \* the messages for the record thread in the queue 0x7a656869
  link,      \* is the platform reachable (and vPaasT_GetIsOnLine true)?
  sf,        \* is the file server of the pictures reachable?
  msgs,      \* the rows of msgreget
  pics,      \* the rows of picreget
  rpc,       \* where the record thread is; "wait", "lock": without the mutex
  msg,       \* the number of the message constructed last
  withPic,   \* zehin_msg.with_picture
  tries,     \* failed attempts
  recordId,  \* records.msgrecord_id
  serial,    \* the picture it is at
  tab,       \* picreget_tb.msgtable_id
  gpc,       \* where the reget thread is
  gmsg,      \* the row of msgreget it sends, until tpzehin_msg_reget returns
  gpic,      \* the row of picreget it sends, until tpzehin_pic_reget returns
  restarts,  \* reboots so far
  seen,      \* history: the records the record thread found in the buffer
  last,      \* history: the last message that arrived at the platform
  arrived,   \* history: the messages that arrived
  given,     \* history: messages given up (retransmission off, a reboot, no row)
  unstored,  \* history: those whose INSERT into msgreget failed
  misfiled,  \* history: a stored picture was announced for another record
  reused,    \* history: a message got a table id that waiting pictures name
  crowded    \* history: a queue full of other messages dropped an announcement

bufVars   == <<retransmit, made, field, picture>>
queueVars == <<post, park, zq>>
netVars   == <<link, sf>>
tableVars == <<msgs, pics>>
recVars   == <<msg, withPic, tries, recordId, serial, tab>>
getVars   == <<gpc, gmsg, gpic>>
hisVars   == <<seen, last, arrived, given, unstored, misfiled, reused, crowded>>
vars == <<bufVars, queueVars, netVars, tableVars, rpc, recVars, getVars,
          restarts, hisVars>>

Rec  == 1..MaxRec
Msg  == 1..MaxRec
Kind == {"record", "info"}
NoMsg == [id |-> 0, msg |-> 0]
NoPic == [id |-> 0, of |-> 0, serial |-> 0, tab |-> 0, rec |-> 0]

(* "id integer primary key" without AUTOINCREMENT: one above the largest id *)
(* in the table, 1 when it is empty.                                        *)
Ids(rows) == {r.id : r \in rows}
MaxId(rows) == IF rows = {} THEN 0
               ELSE CHOOSE i \in Ids(rows) : \A j \in Ids(rows) : j <= i
NextId(rows) == MaxId(rows) + 1
First(rows) == CHOOSE r \in rows : \A q \in rows : r.id <= q.id

Arrive(n) == last' = n /\ arrived' = arrived \cup {n}

-----------------------------------------------------------------------------
(* The result thread: record_notify copies the record and its pictures      *)
(* under the mutex, info_notify only the record.                            *)
CopiesPictures(k) == k = "record"

Notify ==
  /\ post = "none" /\ rpc \in {"wait", "lock"} /\ made < MaxRec
  /\ \E k \in Kind :
       /\ post' = k
       /\ picture' = IF CopiesPictures(k) THEN made + 1 ELSE picture
  /\ made' = made + 1 /\ field' = made + 1
  /\ UNCHANGED <<retransmit, park, zq, netVars, tableVars, rpc, recVars,
                 getVars, restarts, hisVars>>

(* msgsnd with IPC_NOWAIT: a message that finds the queue full is dropped,  *)
(* and the caller is told that all is well.  Both queues carry messages of  *)
(* other kinds too (alarms, space status, commands of the platform), so     *)
(* either may be full at any time.                                          *)
Waits(queue) == queue # <<>>

Sent(queue, max, m) ==
  {queue} \cup (IF Len(queue) < max THEN {Append(queue, m)} ELSE {})

(* vmq_sendto_tpzehin. *)
Post ==
  /\ post # "none"
  /\ park' \in Sent(park, QueueMax, post)
  /\ crowded' = (crowded \/ ~Waits(park'))
  /\ post' = "none"
  /\ UNCHANGED <<bufVars, zq, netVars, tableVars, rpc, recVars, getVars,
                 restarts, seen, last, arrived, given, unstored, misfiled,
                 reused>>

(* tpzehin_pthread: tpzehin_record_handler and tpzehin_info_handler pass    *)
(* the message on, again with IPC_NOWAIT.                                   *)
PassedWithPicture(m) == m = "record"

Passed(m) == m \in {"record", "info"}

Dispatch ==
  /\ park # <<>>
  /\ park' = Tail(park)
  /\ IF Passed(Head(park))
     THEN /\ zq' \in Sent(zq, ZqMax, Head(park))
          /\ crowded' = (crowded \/ ~Waits(zq'))
     ELSE UNCHANGED <<zq, crowded>>
  /\ UNCHANGED <<bufVars, post, netVars, tableVars, rpc, recVars, getVars,
                 restarts, seen, last, arrived, given, unstored, misfiled,
                 reused>>

LinkChange ==
  /\ \/ link' = ~link /\ UNCHANGED sf
     \/ sf' = ~sf /\ UNCHANGED link
  /\ UNCHANGED <<bufVars, queueVars, tableVars, rpc, recVars, getVars,
                 restarts, hisVars>>

-----------------------------------------------------------------------------
(* tpzehin_record_pthread: msgrcv ...                                       *)
Take ==
  /\ rpc = "wait" /\ zq # <<>>
  /\ zq' = Tail(zq)
  /\ withPic' = (Head(zq) = "record")
  /\ rpc' = "lock"
  /\ UNCHANGED <<bufVars, post, park, netVars, tableVars, msg, tries, recordId,
                 serial, tab, getVars, restarts, hisVars>>

(* ... lock, and tpzehin_construct_msg from what the buffer holds now.      *)
Lock ==
  /\ rpc = "lock"
  /\ msg' = msg + 1 /\ seen' = seen \cup {field}
  /\ tries' = 0 /\ rpc' = "check"
  /\ UNCHANGED <<bufVars, queueVars, netVars, tableVars, withPic, recordId,
                 serial, tab, getVars, restarts, last, arrived, given,
                 unstored, misfiled, reused, crowded>>

StoreIfOffline == ~link
MustStore == ~link \/ (retransmit /\ msgs # {})

Check ==
  /\ rpc = "check"
  /\ rpc' = IF MustStore THEN "store" ELSE "send"
  /\ UNCHANGED <<bufVars, queueVars, netVars, tableVars, recVars, getVars,
                 restarts, hisVars>>

(* One attempt.  The last failed one stores the message, or drops it when   *)
(* retransmission is off.                                                   *)
Send ==
  /\ rpc = "send"
  /\ \/ /\ link
        /\ Arrive(msg) /\ recordId' = msg
        /\ rpc' = IF withPic THEN "pic" ELSE "wait"
        /\ serial' = 1
        /\ UNCHANGED <<tries, given>>
     \/ /\ ~link \/ AnswerLost
        /\ IF link THEN Arrive(msg) ELSE UNCHANGED <<last, arrived>>
        /\ IF tries + 1 < Tries
           THEN tries' = tries + 1 /\ UNCHANGED <<rpc, given>>
           ELSE /\ rpc' = IF retransmit THEN "store" ELSE "wait"
                /\ given' = IF retransmit THEN given ELSE given \cup {msg}
                /\ UNCHANGED tries
        /\ UNCHANGED <<recordId, serial>>
  /\ UNCHANGED <<bufVars, queueVars, netVars, tableVars, msg, withPic, tab,
                 getVars, restarts, seen, unstored, misfiled, reused, crowded>>

(* After picture s: the next one of the loop pc, or unlock. *)
NextPictureLate(s, pc) ==
  IF s <= NumPics THEN rpc' = pc /\ serial' = s + 1
                  ELSE rpc' = "wait" /\ serial' = 1

NextPicture(s, pc) ==
  IF s < NumPics THEN rpc' = pc /\ serial' = s + 1
                 ELSE rpc' = "wait" /\ serial' = 1

(* tpzehin_picture_handler: stops when offline; a picture whose upload      *)
(* fails, or, with a file server that is not http, whose announcement       *)
(* fails, is stored when retransmission is on.                              *)
SendPicture ==
  /\ rpc = "pic"
  /\ \/ ~link /\ rpc' = "wait" /\ serial' = 1
     \/ link /\ (sf \/ ~retransmit) /\ NextPicture(serial, "pic")
     \/ link /\ retransmit /\ rpc' = "newest" /\ UNCHANGED serial
  /\ UNCHANGED <<bufVars, queueVars, netVars, tableVars, msg, withPic, tries,
                 recordId, tab, getVars, restarts, hisVars>>

(* tpzehin_save_msg4reget: the message ...  An INSERT that fails is not     *)
(* noticed, neither this one nor the one of a picture.                      *)
Store ==
  /\ rpc = "store"
  /\ recordId' = 0
  /\ msgs' = msgs \cup {[id |-> NextId(msgs), msg |-> msg]}
  /\ reused' = (reused \/ \E p \in pics : p.tab = NextId(msgs))
  /\ serial' = 1 /\ rpc' = "newest"
  /\ UNCHANGED <<bufVars, queueVars, netVars, pics, msg, withPic, tries, tab,
                 getVars, restarts, seen, last, arrived, given, unstored,
                 misfiled, crowded>>

StoreFails ==
  /\ rpc = "store"
  /\ recordId' = 0
  /\ given' = given \cup {msg} /\ unstored' = unstored \cup {msg}
  /\ serial' = 1 /\ rpc' = "newest"
  /\ UNCHANGED <<bufVars, queueVars, netVars, tableVars, msg, withPic, tries,
                 tab, getVars, restarts, seen, last, arrived, misfiled, reused,
                 crowded>>

(* ... and its pictures, each in tpzehin_save_picture4reget: the newest row *)
(* of msgreget is taken for the row of this message.  A leave info has no   *)
(* picture names: nothing is stored.                                        *)
OldestRow(rows) == IF rows = {} THEN 0 ELSE First(rows).id
NewestRow(rows) == MaxId(rows)
BackTo == IF recordId = 0 THEN "newest" ELSE "pic"

Newest ==
  /\ rpc = "newest"
  /\ tab' = NewestRow(msgs)
  /\ IF picture = field THEN rpc' = "rotate" /\ UNCHANGED serial
                        ELSE NextPicture(serial, BackTo)
  /\ UNCHANGED <<bufVars, queueVars, netVars, tableVars, msg, withPic, tries,
                 recordId, getVars, restarts, hisVars>>

(* The oldest picture makes room. *)
RotatedLate(rows) ==
  IF Cardinality(rows) > Rotate THEN rows \ {First(rows)} ELSE rows

RotatedNewest(rows) ==
  IF rows # {} /\ Cardinality(rows) >= Rotate
  THEN {p \in rows : p.id # MaxId(rows)} ELSE rows

Rotated(rows) ==
  IF rows # {} /\ Cardinality(rows) >= Rotate
  THEN rows \ {First(rows)} ELSE rows

RotatePics ==
  /\ rpc = "rotate"
  /\ pics' = Rotated(pics)
  /\ rpc' = "insert"
  /\ UNCHANGED <<bufVars, queueVars, netVars, msgs, recVars, getVars, restarts,
                 hisVars>>

InsertPic ==
  /\ rpc = "insert"
  /\ pics' = pics \cup {[id |-> NextId(pics), of |-> msg, serial |-> serial,
                         tab |-> tab, rec |-> recordId]}
  /\ NextPicture(serial, BackTo)
  /\ UNCHANGED <<bufVars, queueVars, netVars, msgs, msg, withPic, tries,
                 recordId, tab, getVars, restarts, hisVars>>

InsertPicFails ==
  /\ rpc = "insert"
  /\ NextPicture(serial, BackTo)
  /\ UNCHANGED <<bufVars, queueVars, netVars, tableVars, msg, withPic, tries,
                 recordId, tab, getVars, restarts, hisVars>>

-----------------------------------------------------------------------------
(* tpzehin_recordsreget_pthread, one round: tpzehin_msg_reget takes the     *)
(* oldest message ...                                                       *)
MsgSelect ==
  /\ retransmit /\ gpc = "msg"
  /\ IF msgs = {} THEN gpc' = "pic" /\ UNCHANGED gmsg
                  ELSE gpc' = "send" /\ gmsg' = First(msgs)
  /\ UNCHANGED <<bufVars, queueVars, netVars, tableVars, rpc, recVars, gpic,
                 restarts, hisVars>>

MsgAnswered ==
  /\ gpc = "send" /\ link
  /\ Arrive(gmsg.msg) /\ gpc' = "update"
  /\ UNCHANGED <<bufVars, queueVars, netVars, tableVars, rpc, recVars, gmsg,
                 gpic, restarts, seen, given, unstored, misfiled, reused,
                 crowded>>

MsgUnanswered ==
  /\ gpc = "send"
  /\ \/ link /\ AnswerLost /\ Arrive(gmsg.msg)
     \/ ~link /\ UNCHANGED <<last, arrived>>
  /\ gpc' = "pic" /\ gmsg' = NoMsg
  /\ UNCHANGED <<bufVars, queueVars, netVars, tableVars, rpc, recVars,
                 gpic, restarts, seen, given, unstored, misfiled, reused,
                 crowded>>

(* ... gives its record id to its pictures ... *)
MsgUpdate ==
  /\ gpc = "update"
  /\ pics' = {IF p.tab = gmsg.id THEN [p EXCEPT !.rec = gmsg.msg] ELSE p :
                p \in pics}
  /\ gpc' = "delete"
  /\ UNCHANGED <<bufVars, queueVars, netVars, msgs, rpc, recVars, gmsg, gpic,
                 restarts, hisVars>>

(* ... and deletes it. *)
NothingDeleted == {}
AllDeleted == msgs
Delivered == {m \in msgs : m.id = gmsg.id}

MsgDelete ==
  /\ gpc = "delete"
  /\ msgs' = msgs \ Delivered
  /\ gpc' = "pic" /\ gmsg' = NoMsg
  /\ UNCHANGED <<bufVars, queueVars, netVars, pics, rpc, recVars, gpic,
                 restarts, hisVars>>

(* tpzehin_pic_reget: the first picture with a record id. *)
PicSelect ==
  LET ready == {p \in pics : p.rec > 0} IN
  /\ gpc = "pic"
  /\ \/ ready = {} /\ gpc' = "msg" /\ UNCHANGED gpic
     \/ ready # {} /\ gpic' = First(ready) /\ gpc' = "psend"
  /\ UNCHANGED <<bufVars, queueVars, netVars, tableVars, rpc, recVars, gmsg,
                 restarts, hisVars>>

(* The upload, and if it succeeds the announcement of its URL, whose result *)
(* counts only if the configured file server is not an http server.  A      *)
(* file that is empty or cannot be read is not sent, and its row deleted    *)
(* all the same.  The picture of a message that has no row may be announced *)
(* for the message whose row was the newest.                                *)
PicSend ==
  /\ gpc = "psend"
  /\ \/ /\ sf /\ gpc' = "pdelete" /\ UNCHANGED gpic
        /\ misfiled' = (misfiled \/ (/\ link /\ gpic.rec # gpic.of
                                     /\ gpic.of \notin unstored))
     \/ ~(sf /\ link) /\ gpc' = "msg" /\ gpic' = NoPic /\ UNCHANGED misfiled
     \/ gpc' = "pdelete" /\ UNCHANGED <<gpic, misfiled>>     \* no picture to send
  /\ UNCHANGED <<bufVars, queueVars, netVars, tableVars, rpc, recVars, gmsg,
                 restarts, seen, last, arrived, given, unstored, reused,
                 crowded>>

PicDelete ==
  /\ gpc = "pdelete"
  /\ pics' = {p \in pics : p.id # gpic.id}
  /\ gpc' = "msg" /\ gpic' = NoPic
  /\ UNCHANGED <<bufVars, queueVars, netVars, msgs, rpc, recVars, gmsg,
                 restarts, hisVars>>

-----------------------------------------------------------------------------
(* The device reboots: only the tables stay. *)
Restart ==
  /\ restarts < MaxRestarts
  /\ restarts' = restarts + 1
  /\ field' = 0 /\ picture' = 0 /\ post' = "none" /\ park' = <<>> /\ zq' = <<>>
  /\ rpc' = "wait" /\ withPic' = FALSE /\ tries' = 0
  /\ recordId' = 0 /\ serial' = 1 /\ tab' = 0
  /\ gpc' = "msg" /\ gmsg' = NoMsg /\ gpic' = NoPic
  /\ given' = IF rpc \in {"wait", "lock"} THEN given ELSE given \cup {msg}
  /\ UNCHANGED <<retransmit, made, netVars, tableVars, msg, seen, last,
                 arrived, unstored, misfiled, reused, crowded>>

Init ==
  /\ retransmit \in BOOLEAN
  /\ made = 0 /\ field = 0 /\ picture = 0
  /\ post = "none" /\ park = <<>> /\ zq = <<>>
  /\ link = FALSE /\ sf = FALSE /\ msgs = {} /\ pics = {}
  /\ rpc = "wait" /\ msg = 0 /\ withPic = FALSE /\ tries = 0
  /\ recordId = 0 /\ serial = 1 /\ tab = 0
  /\ gpc = "msg" /\ gmsg = NoMsg /\ gpic = NoPic /\ restarts = 0
  /\ seen = {} /\ last = 0 /\ arrived = {} /\ given = {} /\ unstored = {}
  /\ misfiled = FALSE /\ reused = FALSE /\ crowded = FALSE

RecordThread ==
  \/ Take \/ Lock \/ Check \/ Send \/ SendPicture
  \/ Store \/ StoreFails \/ Newest \/ RotatePics \/ InsertPic \/ InsertPicFails
RegetThread ==
  \/ MsgSelect \/ MsgAnswered \/ MsgUnanswered \/ MsgUpdate \/ MsgDelete
  \/ PicSelect \/ PicSend \/ PicDelete

Next ==
  \/ Notify \/ Post \/ Dispatch \/ LinkChange
  \/ RecordThread \/ RegetThread \/ Restart

Spec == Init /\ [][Next]_vars

(* The threads run, and a platform that can be reached does not lose every  *)
(* answer.                                                                  *)
FairSpec ==
  /\ Spec
  /\ WF_vars(Post) /\ WF_vars(Dispatch)
  /\ WF_vars(RecordThread) /\ WF_vars(RegetThread)
  /\ SF_vars(MsgAnswered)

-----------------------------------------------------------------------------
MsgRow == [id : Msg, msg : Msg]
PicRow == [id : Nat \ {0}, of : Msg, serial : 1..NumPics, tab : 0..MaxRec,
           rec : 0..MaxRec]

TypeOK ==
  /\ made \in 0..MaxRec /\ field \in 0..MaxRec /\ picture \in 0..MaxRec
  /\ post \in Kind \cup {"none"} /\ park \in Seq(Kind) /\ zq \in Seq(Kind)
  /\ Len(park) <= QueueMax /\ Len(zq) <= ZqMax
  /\ {retransmit, link, sf, withPic, misfiled, reused, crowded}
       \subseteq BOOLEAN
  /\ msgs \subseteq MsgRow /\ pics \subseteq PicRow
  /\ rpc \in {"wait", "lock", "check", "send", "pic", "store", "newest",
             "rotate", "insert"}
  /\ msg \in 0..MaxRec /\ tries \in 0..(Tries - 1) /\ recordId \in 0..MaxRec
  /\ serial \in 1..NumPics /\ tab \in 0..MaxRec
  /\ gpc \in {"msg", "send", "update", "delete", "pic", "psend", "pdelete"}
  /\ gmsg \in MsgRow \cup {NoMsg} /\ gpic \in PicRow \cup {NoPic}
  /\ restarts \in 0..MaxRestarts
  /\ seen \subseteq 0..MaxRec /\ last \in 0..MaxRec
  /\ arrived \subseteq Msg /\ given \subseteq Msg /\ unstored \subseteq given

(* The platform gets messages in the order they were constructed, though    *)
(* two threads send them: the record thread goes around the table only when *)
(* it is empty, and the reget thread takes the oldest row and keeps it      *)
(* until it has arrived (tpzehin_record_pthread, tpzehin_msg_reget).        *)
MessagesInOrder == [][last' >= last]_vars

(* A message that was constructed has arrived, waits in msgreget, or is in  *)
(* the record thread's hands, unless retransmission is off, the device was  *)
(* rebooted under it, or its INSERT into msgreget failed unnoticed          *)
(* (tpzehin_record_pthread, tpzehin_save_msg4reget).                        *)
NoMessageLost ==
  \A n \in 1..msg :
    \/ n \in arrived \cup given
    \/ \E m \in msgs : m.msg = n
    \/ n = msg /\ rpc # "wait"

(* picreget is cut back before each insertion, though the two pictures of a *)
(* message are stored in turn with other threads deleting rows.             *)
PicturesBounded == Cardinality(pics) <= IF Rotate = 0 THEN 1 ELSE Rotate

(* A stored picture is announced for the record of its own message as long  *)
(* as msgreget does not hand out an id that waiting pictures still name:    *)
(* "the newest row" is this message's row, or none.  Only the pictures of a *)
(* message whose own INSERT failed may go to another record; they do not    *)
(* take others with them.                                                   *)
PictureOfItsRecord == misfiled => reused

(* A waiting picture leaves picreget as the oldest one, to make room, or as *)
(* the one that was just sent: never because its id was given out again     *)
(* while the reget thread was still sending the row that had it before.     *)
(* Needs room for two pictures.                                             *)
PictureLeaves ==
  [][Rotate >= 2 =>
     \A p \in pics :
       \/ \E q \in pics' : q.of = p.of /\ q.serial = p.serial
       \/ rpc = "rotate" /\ p = First(pics)
       \/ p.of = gpic.of /\ p.serial = gpic.serial]_vars

(* Both queues drop messages when they are full, and a message carries no   *)
(* content: still, a record that nobody has looked at yet is announced by   *)
(* a message that is about to be posted, waits in a queue or has just been  *)
(* received, unless a queue full of other messages dropped it.              *)
BufferAnnounced ==
  \/ field \in seen \cup {0}
  \/ post # "none" \/ Waits(park) \/ Waits(zq) \/ rpc = "lock"
  \/ crowded

(* Once the platform stays reachable, msgreget empties. *)
MessagesDrain == (<>[]link /\ retransmit) => <>[](msgs = {})
=============================================================================
