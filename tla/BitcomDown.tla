----------------------------- MODULE BitcomDown -----------------------------
(***************************************************************************)
(* The downlink of the VE platform "bitcom" (ve/platform/bitcom,           *)
(* thread.cpp): the server's commands and the device's replies on one TCP  *)
(* connection.  ltcp_thread keeps it, puts the bytes together to frames    *)
(* (dts_recv) and sends the replies of the list send_ls.  pfm_thread takes *)
(* the frames from the System V queue and carries them out                 *)
(* (tabitcom_control); a road gate command it leaves in a mailbox that     *)
(* chk_status_thread polls.                                                *)
(*                                                                         *)
(* A frame has three parts: two halves of its head and its data.  recv     *)
(* returns any piece of the stream.                                        *)
(***************************************************************************)
EXTENDS Integers, Sequences, FiniteSets

CONSTANTS
  MaxCmd,     \* commands of the server
  MaxCloses,  \* times the server closes the connection
  BeatLimit,  \* time without a command after which the link counts as lost
  QueueMax    \* frames the System V queue holds before msgsnd blocks

ASSUME BoundsAssumption ==
  MaxCmd \in Nat /\ MaxCloses \in Nat /\ BeatLimit \in Nat /\ QueueMax \in Nat \ {0}

Cmds == 1..MaxCmd
Parts == Cmds \X (1..3)
Frame(n) == <<<<n, 1>>, <<n, 2>>, <<n, 3>>>>

(* Fields of two gate commands read as if they were one. *)
Mixed == MaxCmd + 1
Reads == 0..Mixed

VARIABLES
  cmds, gates, stream,     \* commands sent, those for the gate, bytes under way
  peer, closes,            \* the server's end is open; times it closed it
  lpc, item,               \* ltcp_thread and its send_item
  data, buf, info,         \* dts_recv: msg.bitcom.data, what is in it, the head
  queue,                   \* frames in the System V queue
  ppc, cmd,                \* pfm_thread and its command
  sendLs,                  \* dts.send_ls
  quiet,                   \* time since dts.rcvd_time
  valid, mail,             \* gstr_bitcom_pro.roadgate
  cpc, read, acted,        \* chk_status_thread, what it read, what it last ordered
  missed,                  \* commands seen half copied, or without memory for them
  answered                 \* replies the server received

server == <<cmds, gates, stream, peer, closes>>
asm == <<data, buf, info>>
pfm == <<ppc, cmd>>
box == <<valid, mail>>
chk == <<cpc, read, acted, missed>>
vars == <<server, lpc, item, asm, queue, pfm, sendLs, quiet, box, chk, answered>>

----------------------------------------------------------------------------
(* The server and the clock. *)
Command ==
  /\ lpc # "closed" /\ peer /\ cmds < MaxCmd
  /\ cmds' = cmds + 1
  /\ gates' \in {gates, gates \union {cmds + 1}}
  /\ stream' = stream \o Frame(cmds + 1)
  /\ UNCHANGED <<peer, closes, lpc, item, asm, queue, pfm, sendLs, quiet, box, chk, answered>>

PeerClose ==
  /\ lpc # "closed" /\ peer /\ closes < MaxCloses
  /\ peer' = FALSE
  /\ closes' = closes + 1
  /\ UNCHANGED <<cmds, gates, stream, lpc, item, asm, queue, pfm, sendLs, quiet, box, chk,
                 answered>>

Tick ==
  /\ quiet <= BeatLimit
  /\ quiet' = quiet + 1
  /\ UNCHANGED <<server, lpc, item, asm, queue, pfm, sendLs, box, chk, answered>>

----------------------------------------------------------------------------
(* ltcp_thread. *)
Connect ==
  /\ lpc = "closed"
  /\ lpc' = "recv" /\ peer' = TRUE /\ stream' = <<>>
  /\ quiet' = 0
  /\ UNCHANGED <<cmds, gates, closes, item, asm, queue, pfm, sendLs, box, chk, answered>>

(* The static msg, info, wp and remain of dts_recv outlive a connection.    *)
(* The first head of the piece starts a new frame, and what follows that    *)
(* frame in the piece is dropped.  A head cut off by the end of the piece   *)
(* is not recognised, but may already have changed info, and shortens the   *)
(* length that is copied from the start of the piece.                       *)
FirstHead(piece) == CHOOSE i \in DOMAIN piece :
                      /\ piece[i][2] = 1
                      /\ \A j \in 1..(i - 1) : piece[j][2] # 1
HasHead(piece) == \E i \in DOMAIN piece : piece[i][2] = 1
WholeHead(piece) == HasHead(piece) /\ FirstHead(piece) < Len(piece)

(* l = min(len, remain) *)
CopiedAll(len, remain) == len
Copied(len, remain) == IF len < remain THEN len ELSE remain

Filled(piece) ==
  LET h == FirstHead(piece)
      rest == SubSeq(piece, h, Len(piece))
      len == IF HasHead(piece) THEN Len(piece) - h + 1 ELSE Len(piece)
  IN  IF WholeHead(piece) THEN SubSeq(rest, 1, Copied(len, 3))
      ELSE buf \o SubSeq(piece, 1, Copied(len, 3 - Len(buf)))

Infos(piece) ==
  IF WholeHead(piece) THEN {piece[FirstHead(piece)][1]}
  ELSE IF HasHead(piece) THEN {info, piece[FirstHead(piece)][1]} ELSE {info}

(* cs == info.cs: the data is what the head announced. *)
ChecksumSkipped(frame, head) == Len(frame) = 3
ChecksumOk(frame, head) == Len(frame) = 3 /\ frame[3] = <<head, 3>>

(* dts_recv; its xmalloc may fail. *)
Recv(n) ==
  /\ lpc = "recv" /\ n <= Len(stream)
  /\ stream' = SubSeq(stream, n + 1, Len(stream))
  /\ LET piece == SubSeq(stream, 1, n)
     IN  /\ info' \in Infos(piece)
         /\ \/ /\ WholeHead(piece) \/ data
               /\ data' = (Len(Filled(piece)) # 3 \/ ChecksumOk(Filled(piece), info'))
               /\ buf' = IF data' THEN Filled(piece) ELSE <<>>
               /\ lpc' = IF ChecksumOk(Filled(piece), info') THEN "post" ELSE "head"
            \/ /\ WholeHead(piece) \/ ~data
               /\ data' = FALSE /\ buf' = <<>>
               /\ lpc' = "head"
  /\ UNCHANGED <<cmds, gates, peer, closes, item, queue, pfm, sendLs, quiet, box, chk, answered>>

(* vmq_sendto_tabitcom blocks ltcp_thread while the queue is full. *)
Post ==
  /\ lpc = "post" /\ Len(queue) < QueueMax
  /\ queue' = Append(queue, buf)
  /\ data' = FALSE /\ buf' = <<>>
  /\ lpc' = "head"
  /\ UNCHANGED <<server, item, info, pfm, sendLs, quiet, box, chk, answered>>

(* select ran out: the replies have their turn. *)
NoTurn == "beat"
AfterTimeout == "head"

Timeout ==
  /\ lpc = "recv"
  /\ lpc' = AfterTimeout
  /\ UNCHANGED <<server, item, asm, queue, pfm, sendLs, quiet, box, chk, answered>>

(* recv returned 0 or an error. *)
Closed ==
  /\ lpc = "recv" /\ ~peer
  /\ lpc' = "closed"
  /\ UNCHANGED <<server, item, asm, queue, pfm, sendLs, quiet, box, chk, answered>>

(* dts_send_get_head: the item stays in the list. *)
GetHead ==
  /\ lpc = "head"
  /\ \/ sendLs # <<>> /\ item' = Head(sendLs) /\ lpc' = "send"
     \/ sendLs = <<>> /\ item' = item /\ lpc' = "beat"
  /\ UNCHANGED <<server, asm, queue, pfm, sendLs, quiet, box, chk, answered>>

(* A failed send is only logged. *)
SendItem ==
  /\ lpc = "send"
  /\ lpc' = "del"
  /\ \/ peer /\ answered' = Append(answered, item)
     \/ answered' = answered
  /\ UNCHANGED <<server, item, asm, queue, pfm, sendLs, quiet, box, chk>>

(* dts_send_del takes the item out, wherever it is by now. *)
ListDel(r) ==
  LET i == CHOOSE i \in DOMAIN sendLs : sendLs[i] = r
  IN  SubSeq(sendLs, 1, i - 1) \o SubSeq(sendLs, i + 1, Len(sendLs))

Del ==
  /\ lpc = "del"
  /\ sendLs' = ListDel(item)
  /\ lpc' = "beat"
  /\ UNCHANGED <<server, item, asm, queue, pfm, quiet, box, chk, answered>>

(* "Lost heart beat" *)
Beat ==
  /\ lpc = "beat"
  /\ lpc' = IF quiet > BeatLimit THEN "closed" ELSE "recv"
  /\ UNCHANGED <<server, item, asm, queue, pfm, sendLs, quiet, box, chk, answered>>

----------------------------------------------------------------------------
(* pfm_thread with a control message: tabitcom_control. *)
Take ==
  /\ ppc = "idle" /\ queue # <<>>
  /\ queue' = Tail(queue)
  /\ cmd' = Head(queue)[1][1]
  /\ quiet' = 0
  /\ ppc' = IF cmd' \in gates THEN "gate" ELSE "reply"
  /\ UNCHANGED <<server, lpc, item, asm, sendLs, box, chk, answered>>

(* memcpy of roadgate: valid_flag and the three fields become visible to    *)
(* the other thread in either order.                                        *)
GateFlag ==
  /\ ppc \in {"gate", "fields"}
  /\ valid' = TRUE
  /\ ppc' = IF ppc = "gate" THEN "flag" ELSE "reply"
  /\ UNCHANGED <<server, lpc, item, asm, queue, cmd, sendLs, quiet, mail, chk, answered>>

GateFields ==
  /\ ppc \in {"gate", "flag"}
  /\ mail' = cmd
  /\ ppc' = IF ppc = "gate" THEN "fields" ELSE "reply"
  /\ UNCHANGED <<server, lpc, item, asm, queue, cmd, sendLs, quiet, valid, chk, answered>>

(* dts_send_put: list_add_tail.  No reply when it cannot be built or        *)
(* allocated, to a list of VIPs that could not be saved, and to a type that *)
(* is none of the three.                                                    *)
ListAdd(r) == <<r>> \o sendLs
ListAddTail(r) == Append(sendLs, r)

Reply ==
  /\ ppc = "reply"
  /\ ppc' = "idle"
  /\ sendLs' \in {sendLs, ListAddTail(cmd)}
  /\ UNCHANGED <<server, lpc, item, asm, queue, cmd, quiet, box, chk, answered>>

----------------------------------------------------------------------------
(* chk_status_thread: after it saw the flag it clears it, and reads the     *)
(* fields only then.                                                        *)
ReadFirst == [poll |-> "read", read |-> "clear", clear |-> "act"]
ChkOrder == [poll |-> "clear", clear |-> "read", read |-> "act"]

ChkPoll ==
  /\ cpc = "poll" /\ valid
  /\ cpc' = ChkOrder.poll
  /\ UNCHANGED <<server, lpc, item, asm, queue, pfm, sendLs, quiet, box, read, acted, missed, answered>>

(* The flag of a command whose fields are still to come is gone with it. *)
ChkClear ==
  /\ cpc = "clear"
  /\ valid' = FALSE
  /\ cpc' = ChkOrder.clear
  /\ missed' = IF ppc = "flag" THEN missed \union {cmd} ELSE missed
  /\ UNCHANGED <<server, lpc, item, asm, queue, pfm, sendLs, quiet, mail, read, acted, answered>>

(* While the fields are written any mixture may be read. *)
ChkRead ==
  /\ cpc = "read"
  /\ read' \in {mail} \union (IF ppc \in {"gate", "flag"} THEN {cmd, Mixed} ELSE {})
  /\ cpc' = ChkOrder.read
  /\ UNCHANGED <<server, lpc, item, asm, queue, pfm, sendLs, quiet, box, acted, missed, answered>>

(* roadgate_new_ctrl, if rg_new_ctrl_alloc has memory for it.  The action 0 *)
(* of an empty mailbox is refused.                                          *)
ChkAct ==
  /\ cpc = "act"
  /\ \/ read # 0 /\ acted' = read /\ missed' = missed
     \/ read # 0 /\ acted' = acted /\ missed' = missed \union {read}
     \/ read = 0 /\ UNCHANGED <<acted, missed>>
  /\ cpc' = "poll"
  /\ UNCHANGED <<server, lpc, item, asm, queue, pfm, sendLs, quiet, box, read, answered>>

----------------------------------------------------------------------------
Init ==
  /\ cmds = 0 /\ gates = {} /\ stream = <<>> /\ peer = FALSE /\ closes = 0
  /\ lpc = "closed" /\ item = 0
  /\ data = FALSE /\ buf = <<>> /\ info = 0
  /\ queue = <<>> /\ ppc = "idle" /\ cmd = 0
  /\ sendLs = <<>> /\ quiet = 0
  /\ valid = FALSE /\ mail = 0
  /\ cpc = "poll" /\ read = 0 /\ acted = 0 /\ missed = {}
  /\ answered = <<>>

Link == Connect \/ (\E n \in 1..Len(stream) : Recv(n)) \/ Post \/ Timeout \/ Closed
          \/ GetHead \/ SendItem \/ Del \/ Beat
Pfm == Take \/ GateFlag \/ GateFields \/ Reply
Chk == ChkPoll \/ ChkClear \/ ChkRead \/ ChkAct

Next == Command \/ PeerClose \/ Tick \/ Link \/ Pfm \/ Chk

Spec == Init /\ [][Next]_vars

(* The three threads are scheduled; a server that stays reachable accepts   *)
(* the connection that ltcp_thread tries every second.                      *)
FairSpec == Spec /\ WF_vars(Link) /\ WF_vars(Pfm) /\ WF_vars(Chk)

----------------------------------------------------------------------------
TypeOK ==
  /\ cmds \in 0..MaxCmd /\ gates \subseteq Cmds /\ stream \in Seq(Parts)
  /\ peer \in BOOLEAN /\ closes \in 0..MaxCloses
  /\ lpc \in {"closed", "recv", "post", "head", "send", "del", "beat"}
  /\ item \in 0..MaxCmd /\ info \in 0..MaxCmd
  /\ data \in BOOLEAN /\ buf \in Seq(Parts) /\ Len(buf) <= 3
  /\ queue \in Seq(Seq(Parts)) /\ Len(queue) <= QueueMax
  /\ ppc \in {"idle", "gate", "flag", "fields", "reply"} /\ cmd \in 0..MaxCmd
  /\ sendLs \in Seq(Cmds) /\ answered \in Seq(Cmds)
  /\ quiet \in 0..(BeatLimit + 1)
  /\ valid \in BOOLEAN /\ mail \in 0..MaxCmd
  /\ cpc \in {"poll", "clear", "read", "act"} 
  /\ read \in Reads /\ acted \in Reads /\ missed \subseteq Reads

(* What pfm_thread is given is always one whole frame of the server,         *)
(* although dts_recv goes on with half a frame of an earlier connection and  *)
(* with heads cut in two.                                                    *)
FramesWhole ==
  \A i \in DOMAIN queue : \E n \in 1..cmds : queue[i] = Frame(n)

(* Replies reach the server in the order of its commands and at most once,   *)
(* across connections, although an item is sent while it is in the list and  *)
(* pfm_thread adds to the list meanwhile (dts_send_get_head, dts_send_del).  *)
RepliesInOrder ==
  \A i, j \in DOMAIN answered : i < j => answered[i] < answered[j]

(* No reply stays in the list for ever: a silent server, or one that is lost *)
(* over and over, does not keep ltcp_thread from its replies.                *)
RepliesLeave ==
  \A n \in Cmds : (\E i \in DOMAIN sendLs : sendLs[i] = n)
                    ~> ~(\E i \in DOMAIN sendLs : sendLs[i] = n)

(* The command left in the mailbox is carried out unless a newer one takes   *)
(* its place: pfm_thread and chk_status_thread share the mailbox without a   *)
(* lock, so one of two commands in a row may be lost, but the last only when *)
(* its flag was cleared before its fields were copied, or when there is no   *)
(* memory for it (tabitcom_control, chk_status_thread).                      *)
GateActs ==
  \A n \in Cmds : mail = n ~> (acted = n \/ mail # n \/ n \in missed)
=============================================================================
