---------------------------- MODULE BitcomUplink ----------------------------
(***************************************************************************)
(* The http path of the VE platform "bitcom" (ve/platform/bitcom,          *)
(* record.cpp and thread.cpp).  The result thread turns each vehicle into  *)
(* a simple record, an http message without picture (its MQ text is in     *)
(* module BitcomMq), or a full one, with picture.  Records, heartbeats,    *)
(* status reports and the control commands of the server go through one    *)
(* System V queue to pfm_thread, which shares with the retransmission      *)
(* thread the long http connection and the flag ghttplong_rcvd that        *)
(* lhttp_thread sets on any answer.  The retransmission table of           *)
(* BitcomResend is seen as a set.                                          *)
(***************************************************************************)
EXTENDS Integers, Sequences, FiniteSets

CONSTANTS
  MaxRec,     \* vehicles
  MaxControl, \* control commands of the server
  QueueMax    \* messages the System V queue holds before msgsnd blocks

ASSUME BoundsAssumption ==
  /\ MaxRec \in Nat /\ MaxControl \in Nat
  /\ QueueMax \in Nat \ {0}

Recs == 1..MaxRec
Threads == {"pfm", "resend"}

(* Messages of the queue: msg.bitcom.func and a number that identifies them. *)
Record(r) == [func |-> "record", n |-> r]
Control(n) == [func |-> "control", n |-> n]
Beat == [func |-> "heartbeat", n |-> 0]
NoMsg == [func |-> "none", n |-> 0]
Messages == {Record(r) : r \in Recs} \union {Control(n) : n \in 1..MaxControl} \union {Beat}

VARIABLES
  full,             \* the records made so far that have a picture
  made, dpc,        \* records made; the result thread
  refused,          \* full records that never reached the queue
  queue,            \* messages waiting in the System V queue
  controls,         \* control commands put in it
  sock,             \* gi_tabitcom_httplink_sockfd is not 0
  alive,            \* the peer is there
  rcvd,             \* ghttplong_rcvd
  pc, msg, tries,   \* per sender: step and message; failed attempts of pfm_thread
  handled,          \* control commands carried out
  table,            \* the http retransmission table
  reported, lost    \* http records counted as sent; those the table gave up

records == <<full, made, dpc, refused>>
link == <<sock, alive, rcvd>>
senders == <<pc, msg, tries, handled>>
outcome == <<table, reported, lost>>
vars == <<records, queue, controls, link, senders, outcome>>

----------------------------------------------------------------------------
(* The result thread, and the other threads that fill the queue. *)

(* process_rg_mq: a simple record. *)
Simple ==
  /\ dpc = "idle" /\ made < MaxRec
  /\ made' = made + 1
  /\ dpc' = "post"
  /\ UNCHANGED <<full, refused, queue, controls, link, senders, outcome>>

(* process_rg_records_motor_vehicle: a full record. *)
Full ==
  /\ dpc = "idle" /\ made < MaxRec
  /\ made' = made + 1
  /\ full' = full \union {made + 1}
  /\ dpc' = "post"
  /\ UNCHANGED <<refused, queue, controls, link, senders, outcome>>

(* vmq_sendto_tabitcom: msgsnd without IPC_NOWAIT blocks on a full queue. *)
QueueRoom == Len(queue) < QueueMax

(* record_send_to_plateform ignores the result: the picture goes on by FTP. *)
Posted == dpc' = IF made \in full THEN "ftp" ELSE "idle"

Post ==
  /\ dpc = "post" /\ QueueRoom
  /\ queue' = Append(queue, Record(made))
  /\ Posted
  /\ UNCHANGED <<full, made, refused, controls, link, senders, outcome>>

(* No memory for the message or for its picture, or msgsnd fails: the       *)
(* buffers are freed and the record is not kept anywhere.                   *)
Refuse ==
  /\ dpc = "post"
  /\ refused' = refused \union ({made} \intersect full)
  /\ Posted
  /\ UNCHANGED <<full, made, queue, controls, link, senders, outcome>>

(* With ftp_enable the picture of a full record goes to the FTP server, or  *)
(* to the FTP table (module BitcomResend), before the next result.          *)
FtpPicture ==
  /\ dpc = "ftp"
  /\ dpc' = "idle"
  /\ UNCHANGED <<full, made, refused, queue, controls, link, senders, outcome>>

(* ltcp_thread passes on a control command. *)
PostControl ==
  /\ controls < MaxControl /\ QueueRoom
  /\ controls' = controls + 1
  /\ queue' = Append(queue, Control(controls + 1))
  /\ UNCHANGED <<records, link, senders, outcome>>

(* heartbeat_thread, and chk_status_thread with a status report. *)
PostBeat ==
  /\ QueueRoom
  /\ queue' = Append(queue, Beat)
  /\ UNCHANGED <<records, controls, link, senders, outcome>>

----------------------------------------------------------------------------
(* tabitcom_record and send_s, used by pfm_thread and by the retransmission *)
(* thread.                                                                  *)

(* Without a socket, or when send() fails, so does the call.  Otherwise all *)
(* data is taken; on a connection whose peer is gone the kernel may still   *)
(* take it, and it is lost.                                                 *)
Send(t) ==
  /\ pc[t] = "send"
  /\ \/ sock /\ pc' = [pc EXCEPT ![t] = "sent"]
     \/ pc' = [pc EXCEPT ![t] = "failed"]
  /\ UNCHANGED <<records, queue, controls, link, msg, tries, handled, outcome>>

(* The flag is cleared after the data went out. *)
Clear(t) ==
  /\ pc[t] = "sent"
  /\ rcvd' = FALSE
  /\ pc' = [pc EXCEPT ![t] = "wait"]
  /\ UNCHANGED <<records, queue, controls, sock, alive, msg, tries, handled, outcome>>

(* The wait ends with an answer or after 200 sleeps; the result is the same. *)
Wait(t) ==
  /\ pc[t] = "wait"
  /\ pc' = [pc EXCEPT ![t] = "done"]
  /\ reported' = IF msg[t].func = "record" THEN reported \union {msg[t].n} ELSE reported
  /\ UNCHANGED <<records, queue, controls, link, msg, tries, handled, table, lost>>

----------------------------------------------------------------------------
(* pfm_thread: one message at a time. *)

(* A control command is carried out at once by tabitcom_control; a record,  *)
(* a heartbeat or a status report is sent on the connection.                *)
Take ==
  /\ pc["pfm"] = "idle" /\ queue # <<>>
  /\ queue' = Tail(queue)
  /\ tries' = 0
  /\ IF Head(queue).func = "control"
     THEN handled' = handled \union {Head(queue).n} /\ UNCHANGED <<msg, pc>>
     ELSE /\ msg' = [msg EXCEPT !["pfm"] = Head(queue)]
          /\ pc' = [pc EXCEPT !["pfm"] = "send"]
          /\ handled' = handled
  /\ UNCHANGED <<records, controls, link, outcome>>

(* do ... while (ret < 0 && err_cnt++ < 2): three attempts for a record. *)
OneTryMore == msg["pfm"].func = "record" /\ tries < 3
MoreTries == msg["pfm"].func = "record" /\ tries < 2

Retry ==
  /\ pc["pfm"] = "failed" /\ MoreTries
  /\ tries' = tries + 1
  /\ pc' = [pc EXCEPT !["pfm"] = "send"]
  /\ UNCHANGED <<records, queue, controls, link, msg, handled, outcome>>

(* Only the complete record is kept for retransmission. *)
KeepsIncomplete(m) == m.func = "record" /\ m.n \notin full
Keeps(m) == m.func = "record" /\ m.n \in full

(* The mutex of the http table, held for a whole round of the other thread. *)
TableFree == pc["resend"] = "idle"

(* tabitcom_http_resend_put waits for the mutex; older rows may have to make *)
(* room, and the record is lost when the table is off or the INSERT fails.   *)
(* What is not kept is dropped without the mutex.                            *)
GiveUp ==
  /\ pc["pfm"] = "failed" /\ ~MoreTries
  /\ pc' = [pc EXCEPT !["pfm"] = "done"]
  /\ \/ /\ Keeps(msg["pfm"]) /\ TableFree
        /\ \E redundant \in SUBSET table :
             \/ /\ table' = (table \ redundant) \union {msg["pfm"].n}
                /\ lost' = lost \union redundant
             \/ /\ table' = table \ redundant
                /\ lost' = lost \union redundant \union {msg["pfm"].n}
     \/ ~Keeps(msg["pfm"]) /\ UNCHANGED <<table, lost>>
  /\ UNCHANGED <<records, queue, controls, link, msg, tries, handled, reported>>

(* tabitcom_http_get_resend_info cannot cut the text out of the message. *)
NoText ==
  /\ pc["pfm"] = "failed" /\ ~MoreTries /\ Keeps(msg["pfm"])
  /\ pc' = [pc EXCEPT !["pfm"] = "done"]
  /\ lost' = lost \union {msg["pfm"].n}
  /\ UNCHANGED <<records, queue, controls, link, msg, tries, handled, table, reported>>

(* The buffers are freed and the next message is awaited. *)
Finish ==
  /\ pc["pfm"] = "done"
  /\ pc' = [pc EXCEPT !["pfm"] = "idle"]
  /\ msg' = [msg EXCEPT !["pfm"] = NoMsg]
  /\ UNCHANGED <<records, queue, controls, link, tries, handled, outcome>>

(* http_resend_pthread: a row of the table; deleted when it counts as sent. *)
Pick ==
  /\ pc["resend"] = "idle"
  /\ \E r \in table : msg' = [msg EXCEPT !["resend"] = Record(r)]
  /\ pc' = [pc EXCEPT !["resend"] = "send"]
  /\ UNCHANGED <<records, queue, controls, link, tries, handled, outcome>>

(* A row whose picture cannot be read is deleted. *)
Unreadable ==
  /\ pc["resend"] = "idle"
  /\ \E r \in table : table' = table \ {r} /\ lost' = lost \union {r}
  /\ UNCHANGED <<records, queue, controls, link, senders, reported>>

(* The mutex is given back however the round went. *)
StillLocked(p) == IF p = "failed" THEN p ELSE "idle"
Unlocked(p) == "idle"

RoundOver ==
  /\ pc["resend"] \in {"done", "failed"}
  /\ table' = IF pc["resend"] = "done" THEN table \ {msg["resend"].n} ELSE table
  /\ pc' = [pc EXCEPT !["resend"] = Unlocked(@)]
  /\ msg' = [msg EXCEPT !["resend"] = NoMsg]
  /\ UNCHANGED <<records, queue, controls, link, tries, handled, reported, lost>>

----------------------------------------------------------------------------
(* lhttp_thread, and the connection. *)
Connect ==
  /\ ~sock
  /\ sock' = TRUE /\ alive' = TRUE
  /\ UNCHANGED <<records, queue, controls, rcvd, senders, outcome>>

(* Any data of the peer sets the flag, whatever message it answers. *)
Receive ==
  /\ sock /\ alive
  /\ rcvd' = TRUE
  /\ UNCHANGED <<records, queue, controls, sock, alive, senders, outcome>>

Close ==
  /\ sock /\ ~alive
  /\ sock' = FALSE
  /\ UNCHANGED <<records, queue, controls, alive, rcvd, senders, outcome>>

Drop ==
  /\ alive
  /\ alive' = FALSE
  /\ UNCHANGED <<records, queue, controls, sock, rcvd, senders, outcome>>

----------------------------------------------------------------------------
Init ==
  /\ full = {} /\ made = 0 /\ dpc = "idle" /\ refused = {} /\ queue = <<>> /\ controls = 0
  /\ sock = FALSE /\ alive = FALSE /\ rcvd = FALSE
  /\ pc = [t \in Threads |-> "idle"] /\ msg = [t \in Threads |-> NoMsg]
  /\ tries = 0 /\ handled = {}
  /\ table = {} /\ reported = {} /\ lost = {}

PfmStep == Send("pfm") \/ Clear("pfm") \/ Wait("pfm") \/ Take \/ Retry \/ Finish
ResendStep == Send("resend") \/ Clear("resend") \/ Wait("resend") \/ RoundOver

Next ==
  \/ Simple \/ Full \/ Post \/ Refuse \/ FtpPicture \/ PostControl \/ PostBeat
  \/ PfmStep \/ GiveUp \/ NoText \/ ResendStep \/ Pick \/ Unreadable
  \/ Connect \/ Receive \/ Close \/ Drop

Spec == Init /\ [][Next]_vars

(* The threads are scheduled.  Between two rounds the retransmission thread *)
(* sleeps for seconds without the mutex, so that pfm_thread gets it.        *)
(* Nothing is assumed of the peer or the connection, and no failure (Refuse, *)
(* NoText, Unreadable) ever has to happen.                                   *)
FairSpec ==
  /\ Spec
  /\ WF_vars(PfmStep) /\ SF_vars(GiveUp) /\ WF_vars(ResendStep)

----------------------------------------------------------------------------
TypeOK ==
  /\ made \in 0..MaxRec /\ full \subseteq Recs /\ dpc \in {"idle", "post", "ftp"}
  /\ refused \subseteq full
  /\ queue \in Seq(Messages) /\ Len(queue) <= QueueMax
  /\ controls \in 0..MaxControl
  /\ sock \in BOOLEAN /\ alive \in BOOLEAN /\ rcvd \in BOOLEAN
  /\ pc \in [Threads -> {"idle", "send", "sent", "wait", "failed", "done"}]
  /\ msg \in [Threads -> Messages \union {NoMsg}]
  /\ tries \in 0..2 /\ handled \subseteq 1..MaxControl
  /\ table \subseteq full /\ reported \subseteq Recs
  /\ lost \subseteq full

(* A full record that platform_send_rg_records got into the queue is never   *)
(* just gone: it waits there or in pfm_thread, counts as sent, is in the     *)
(* retransmission table or was given up by it, whatever the connection and   *)
(* the other thread do (pfm_thread, http_resend_pthread).  The only record   *)
(* that leaves no trace is one refused at the queue, for want of memory or   *)
(* because msgsnd failed.                                                    *)
InQueue(r) == \E i \in DOMAIN queue : queue[i] = Record(r)
FullAccounted ==
  \A r \in full :
    \/ dpc = "post" /\ made = r
    \/ InQueue(r) \/ msg["pfm"] = Record(r)
    \/ r \in reported \union table \union lost \union refused

(* A control command that reached the queue is carried out, although the     *)
(* same thread sends records over a connection that may be dead and waits    *)
(* for answers, and for the mutex of the table, which the other thread holds *)
(* for whole rounds (pfm_thread, send_s, http_resend_pthread).               *)
ControlHandled ==
  \A n \in 1..MaxControl : controls >= n ~> n \in handled
=============================================================================
