-------------------------- MODULE BitcomDownProofs --------------------------
(* Theorems about BitcomDown, for any number of commands and connections.  *)
EXTENDS BitcomDown, SequenceTheorems, WellFoundedInduction, TLAPS

NatLess == OpToRel(<, Nat)

(* A nonempty set of numbers has a least one. *)
LEMMA LeastNumber ==
  ASSUME NEW S \in SUBSET Nat, S # {}
  PROVE  \E x \in S : \A y \in S : x <= y
<1>1. IsWellFoundedOn(NatLess, Nat)
  BY NatLessThanWellFounded, Zenon DEF NatLess
<1>2. \A x, y \in Nat : x < y => <<x, y>> \in NatLess
  BY DEF NatLess, OpToRel
<1>3. PICK x \in S : \A y \in S : ~(<<y, x>> \in NatLess)
  BY <1>1, WFMin, Zenon
<1>4. \A y \in S : ~(y < x)
  BY <1>2, <1>3
<1> QED BY <1>4

(* dts_find_head returns the first head of a piece. *)
LEMMA FirstHeadType ==
  ASSUME NEW piece \in Seq(Parts), HasHead(piece)
  PROVE  FirstHead(piece) \in 1..Len(piece) /\ piece[FirstHead(piece)][2] = 1
<1> DEFINE heads == {i \in 1..Len(piece) : piece[i][2] = 1}
<1>1. DOMAIN piece = 1..Len(piece) /\ Len(piece) \in Nat
  BY LenProperties
<1>2. heads # {} /\ heads \subseteq Nat
  BY <1>1 DEF HasHead
<1>3. PICK h \in heads : \A j \in heads : h <= j
  BY <1>2, LeastNumber
<1>4. \A j \in 1..(h - 1) : piece[j][2] # 1
  BY <1>1, <1>3
<1>5. \E i \in DOMAIN piece : piece[i][2] = 1 /\ \A j \in 1..(i - 1) : piece[j][2] # 1
  BY <1>1, <1>3, <1>4
<1> QED BY <1>1, <1>5 DEF FirstHead

----------------------------------------------------------------------------
(* The stream: numbers and parts in the order they were sent, the parts of *)
(* a frame one after the other.                                            *)
StreamOk ==
  /\ \A i \in 1..Len(stream) : stream[i][1] <= cmds
  /\ \A i, j \in 1..Len(stream) : i < j =>
        \/ stream[i][1] < stream[j][1]
        \/ stream[i][1] = stream[j][1] /\ stream[i][2] < stream[j][2]
  /\ \A i \in 1..Len(stream) : stream[i][2] < 3 =>
        i < Len(stream) /\ stream[i + 1] = <<stream[i][1], stream[i][2] + 1>>

(* A frame that dts_recv is at work on: its head between two calls, the    *)
(* whole frame when it is passed on.                                       *)
Half == /\ Len(buf) = 2 /\ buf[1] = <<info, 1>> /\ buf[2] = <<info, 2>>
AsmOk ==
  /\ data => info \in 1..cmds
  /\ data /\ lpc # "post" => Half
  /\ lpc = "post" => data /\ buf = Frame(info)

(* The item under way is the head of the list; pfm_thread has a command.   *)
WorkOk ==
  /\ lpc \in {"send", "del"} => Len(sendLs) > 0 /\ item = sendLs[1]
  /\ ppc # "idle" => cmd \in Cmds

FInv == TypeOK /\ WorkOk /\ StreamOk /\ AsmOk /\ FramesWhole

(* A command passes stream, dts_recv, queue and pfm_thread and is ahead of *)
(* those that are not as far.                                              *)
Num(i) == queue[i][1][1]
PassOk ==
  /\ cmd <= cmds
  /\ \A i \in 1..Len(queue) : cmd < Num(i)
  /\ \A i, j \in 1..Len(queue) : i < j => Num(i) < Num(j)
  /\ data => cmd < info /\ \A i \in 1..Len(queue) : Num(i) < info
  /\ \A i \in 1..Len(stream) :
        /\ cmd < stream[i][1]
        /\ \A j \in 1..Len(queue) : Num(j) < stream[i][1]
        /\ lpc = "post" => info < stream[i][1]

(* Its reply goes through the list to the server.                          *)
ReplyOk ==
  /\ \A i \in 1..Len(answered) : answered[i] <= cmd /\ (ppc # "idle" => answered[i] < cmd)
  /\ \A i \in 1..Len(sendLs) : sendLs[i] <= cmd /\ (ppc # "idle" => sendLs[i] < cmd)
  /\ \A i, j \in 1..Len(sendLs) : i < j => sendLs[i] < sendLs[j]
  /\ \A i \in 1..Len(answered), j \in 1..Len(sendLs) :
        j > 1 \/ lpc # "del" => answered[i] < sendLs[j]

RInv == FInv /\ PassOk /\ ReplyOk /\ RepliesInOrder

LEMMA InitF == Init => FInv
<1> SUFFICES ASSUME Init PROVE FInv
  OBVIOUS
<1> USE BoundsAssumption DEF Init, Cmds, Parts
<1>0. /\ <<>> \in Seq(Parts) /\ <<>> \in Seq(Seq(Parts)) /\ <<>> \in Seq(Cmds)
      /\ Len(<<>>) <= 3 /\ Len(<<>>) <= QueueMax /\ 0 \in 0..(BeatLimit + 1)
      /\ 0 \in 0..MaxCmd /\ 0 \in 0..MaxCloses /\ 0 \in Reads
  BY DEF Reads, Mixed
<1>1. TypeOK
  BY <1>0, Zenon DEF TypeOK
<1>2. StreamOk
  BY DEF StreamOk
<1>3. AsmOk
  BY DEF AsmOk
<1>4. FramesWhole
  BY DEF FramesWhole
<1>5. WorkOk
  BY DEF WorkOk
<1> QED BY <1>1, <1>2, <1>3, <1>4, <1>5 DEF FInv

----------------------------------------------------------------------------
(* The steps of the other threads and those that only move ltcp_thread on. *)
Quiet == PeerClose \/ Tick \/ Timeout \/ Closed \/ GetHead \/ SendItem \/ Beat
           \/ GateFlag \/ GateFields \/ Reply \/ Chk

LEMMA QuietType == ASSUME TypeOK, WorkOk, Quiet PROVE TypeOK' /\ WorkOk'
<1> USE BoundsAssumption DEF server, asm, pfm, box, chk, Cmds
<1>1. CASE PeerClose
  <2>1. closes' \in 0..MaxCloses
    BY <1>1 DEF TypeOK, PeerClose
  <2> QED BY <1>1, <2>1, Zenon DEF TypeOK, WorkOk, PeerClose
<1>2. CASE Tick
  BY <1>2 DEF TypeOK, WorkOk, Tick
<1>3. CASE Timeout
  BY <1>3 DEF TypeOK, WorkOk, Timeout, AfterTimeout
<1>4. CASE Closed
  BY <1>4 DEF TypeOK, WorkOk, Closed
<1>5. CASE GetHead
  BY <1>5 DEF TypeOK, WorkOk, GetHead
<1>6. CASE SendItem
  <2>1. item \in Cmds
    BY <1>6 DEF TypeOK, WorkOk, SendItem
  <2>2. answered' \in Seq(Cmds)
    <3>1. answered \in Seq(Cmds)
      BY DEF TypeOK
    <3>2. Append(answered, item) \in Seq(Cmds)
      BY <2>1, <3>1, AppendProperties, Zenon
    <3> QED BY <1>6, <3>1, <3>2 DEF SendItem
  <2>3. TypeOK'
    BY <1>6, <2>2 DEF TypeOK, SendItem
  <2>4. WorkOk'
    BY <1>6 DEF WorkOk, SendItem
  <2> QED BY <2>3, <2>4
<1>7. CASE Beat
  BY <1>7 DEF TypeOK, WorkOk, Beat
<1>8. CASE GateFlag
  BY <1>8 DEF TypeOK, WorkOk, GateFlag
<1>9. CASE GateFields
  BY <1>9 DEF TypeOK, WorkOk, GateFields
<1>10. CASE Reply
  <2>1. Append(sendLs, cmd) \in Seq(Cmds) /\ Len(Append(sendLs, cmd)) > 0
    BY <1>10 DEF TypeOK, WorkOk, Reply
  <2>2. sendLs # <<>> => Append(sendLs, cmd)[1] = sendLs[1]
    BY DEF TypeOK
  <2>3. TypeOK'
    BY <1>10, <2>1 DEF TypeOK, Reply, ListAddTail
  <2>4. WorkOk'
    <3>1. Len(sendLs) > 0 => sendLs # <<>>
      BY DEF TypeOK
    <3>2. /\ UNCHANGED <<lpc, item>> /\ ppc' = "idle"
          /\ sendLs' = sendLs \/ sendLs' = Append(sendLs, cmd)
      BY <1>10 DEF Reply, ListAddTail
    <3> QED BY <2>1, <2>2, <3>1, <3>2, Zenon DEF WorkOk
  <2> QED BY <2>3, <2>4
<1>11. CASE Chk
  <2>0. cmd \in Reads /\ Mixed \in Reads /\ mail \in Reads
    BY DEF TypeOK, Reads, Mixed
  <2>1. /\ cpc' \in {"poll", "clear", "read", "act"} /\ valid' \in BOOLEAN
        /\ read' \in Reads /\ acted' \in Reads /\ missed' \subseteq Reads
    <3>1. CASE ChkPoll
      BY <3>1 DEF TypeOK, ChkPoll, ChkOrder
    <3>2. CASE ChkClear
      BY <2>0, <3>2 DEF TypeOK, ChkClear, ChkOrder
    <3>3. CASE ChkRead
      BY <2>0, <3>3 DEF TypeOK, ChkRead, ChkOrder
    <3>4. CASE ChkAct
      BY <3>4 DEF TypeOK, ChkAct
    <3> QED BY <1>11, <3>1, <3>2, <3>3, <3>4 DEF Chk
  <2>2. UNCHANGED <<server, lpc, item, asm, queue, pfm, sendLs, quiet, mail, answered>>
    BY <1>11 DEF Chk, ChkPoll, ChkClear, ChkRead, ChkAct
  <2> QED BY <2>1, <2>2, Zenon DEF TypeOK, WorkOk
<1> QED BY <1>1, <1>2, <1>3, <1>4, <1>5, <1>6, <1>7, <1>8, <1>9, <1>10, <1>11, Zenon DEF Quiet

(* They touch neither stream nor queue nor the frame under way. *)
LEMMA QuietFrames == ASSUME Quiet
  PROVE  /\ UNCHANGED <<cmds, stream, data, buf, info, queue, cmd>>
         /\ lpc' = "post" <=> lpc = "post"
<1> USE DEF server, asm, pfm, box, chk
<1>1. CASE PeerClose \/ Tick \/ Timeout \/ Closed \/ GetHead \/ SendItem \/ Beat
  BY <1>1 DEF PeerClose, Tick, Timeout, AfterTimeout, Closed, GetHead, SendItem, Beat
<1>2. CASE GateFlag \/ GateFields \/ Reply \/ Chk
  BY <1>2 DEF GateFlag, GateFields, Reply, Chk, ChkPoll, ChkClear, ChkRead, ChkAct
<1> QED BY <1>1, <1>2, Zenon DEF Quiet

LEMMA QuietF == ASSUME FInv, Quiet PROVE FInv'
<1>1. TypeOK' /\ WorkOk'
  BY QuietType, Zenon DEF FInv
<1>2. StreamOk' /\ AsmOk' /\ FramesWhole'
  BY QuietFrames DEF FInv, StreamOk, AsmOk, Half, FramesWhole
<1> QED BY <1>1, <1>2, Zenon DEF FInv

(* The other steps of the two threads on their lists. *)
LEMMA ConnectF == ASSUME FInv, Connect PROVE FInv'
<1> USE DEF server, asm, pfm, box, chk
<1>1. <<>> \in Seq(Parts) /\ Len(<<>>) = 0 /\ 0 \in 0..(BeatLimit + 1)
  BY BoundsAssumption
<1>2. TypeOK' /\ WorkOk'
  BY <1>1 DEF FInv, Connect, TypeOK, WorkOk
<1>3. StreamOk'
  BY DEF Connect, StreamOk
<1>4. AsmOk' /\ FramesWhole'
  BY Zenon DEF FInv, Connect, AsmOk, Half, FramesWhole
<1> QED BY <1>2, <1>3, <1>4, Zenon DEF FInv

LEMMA DelF == ASSUME FInv, Del PROVE FInv'
<1> USE DEF server, asm, pfm, box, chk
<1>1. sendLs' \in Seq(Cmds)
  <2>1. sendLs \in Seq(Cmds) /\ 1 \in DOMAIN sendLs /\ sendLs[1] = item
    BY DEF FInv, TypeOK, WorkOk, Del
  <2>2. PICK i \in DOMAIN sendLs :
          sendLs' = SubSeq(sendLs, 1, i - 1) \o SubSeq(sendLs, i + 1, Len(sendLs))
    BY <2>1 DEF Del, ListDel
  <2>3. /\ SubSeq(sendLs, 1, i - 1) \in Seq(Cmds)
        /\ SubSeq(sendLs, i + 1, Len(sendLs)) \in Seq(Cmds)
    BY <2>1
  <2> QED BY <2>2, <2>3
<1>2. TypeOK' /\ WorkOk'
  BY <1>1 DEF FInv, Del, TypeOK, WorkOk
<1>3. StreamOk' /\ AsmOk' /\ FramesWhole'
  BY DEF FInv, Del, StreamOk, AsmOk, Half, FramesWhole
<1> QED BY <1>2, <1>3, Zenon DEF FInv

LEMMA TakeF == ASSUME FInv, Take PROVE FInv'
<1> USE DEF server, asm, pfm, box, chk
<1>1. /\ queue' \in Seq(Seq(Parts)) /\ Len(queue') = Len(queue) - 1 /\ Len(queue) > 0
      /\ \A i \in 1..Len(queue') : queue'[i] = queue[i + 1]
  <2>1. queue \in Seq(Seq(Parts))
    BY DEF FInv, TypeOK
  <2>2. queue # <<>> /\ queue' = Tail(queue)
    BY DEF Take
  <2> QED BY <2>1, <2>2
<1>2. DOMAIN queue = 1..Len(queue) /\ DOMAIN queue' = 1..Len(queue')
  BY <1>1 DEF FInv, TypeOK
<1>3. cmd' \in 1..cmds
  <2>1. PICK n \in 1..cmds : queue[1] = Frame(n)
    BY <1>1, <1>2 DEF FInv, FramesWhole
  <2>2. Head(queue) = queue[1] /\ cmd' = Head(queue)[1][1]
    BY <1>1 DEF Take, FInv, TypeOK
  <2> QED BY <2>1, <2>2 DEF Frame
<1>4. TypeOK' /\ WorkOk'
  <2>1. /\ Len(queue') <= QueueMax /\ cmd' \in 0..MaxCmd /\ cmd' \in Cmds
        /\ 0 \in 0..(BeatLimit + 1)
    <3>1. Len(queue) <= QueueMax /\ cmds \in 0..MaxCmd /\ Len(queue) \in Nat
      BY DEF FInv, TypeOK
    <3> QED BY <1>1, <1>3, <3>1, BoundsAssumption DEF Cmds
  <2>2. ppc' \in {"idle", "gate", "reply"}
    BY DEF Take
  <2>3. TypeOK'
    BY <1>1, <2>1, <2>2, Zenon DEF FInv, Take, TypeOK
  <2>4. WorkOk'
    BY <2>1 DEF FInv, Take, WorkOk, Cmds
  <2> QED BY <2>3, <2>4
<1>5. StreamOk' /\ AsmOk'
  BY DEF FInv, Take, StreamOk, AsmOk, Half
<1>6. FramesWhole'
  <2>1. cmds' = cmds
    BY DEF Take
  <2>2. \A i \in 1..Len(queue') : i + 1 \in 1..Len(queue)
    BY <1>1
  <2> QED BY <1>1, <1>2, <2>1, <2>2, Zenon DEF FInv, FramesWhole
<1> QED BY <1>4, <1>5, <1>6, Zenon DEF FInv

LEMMA PostF == ASSUME FInv, Post PROVE FInv'
<1> USE DEF server, asm, pfm, box, chk
<1>1. /\ queue' \in Seq(Seq(Parts)) /\ Len(queue') = Len(queue) + 1
      /\ \A i \in 1..Len(queue) : queue'[i] = queue[i]
      /\ queue'[Len(queue) + 1] = buf
  BY DEF FInv, TypeOK, Post
<1>2. DOMAIN queue = 1..Len(queue) /\ DOMAIN queue' = 1..Len(queue') /\ Len(queue) \in Nat
  BY <1>1 DEF FInv, TypeOK
<1>3. TypeOK' /\ WorkOk'
  <2>1. Len(queue') <= QueueMax /\ <<>> \in Seq(Parts) /\ Len(<<>>) <= 3
    BY <1>1, BoundsAssumption DEF FInv, Post, TypeOK
  <2>2. TypeOK'
    BY <1>1, <2>1, Zenon DEF FInv, Post, TypeOK
  <2>3. WorkOk'
    BY DEF FInv, Post, WorkOk
  <2> QED BY <2>2, <2>3
<1>4. StreamOk' /\ AsmOk'
  BY DEF FInv, Post, StreamOk, AsmOk, Half
<1>5. FramesWhole'
  <2>1. cmds' = cmds /\ info \in 1..cmds /\ buf = Frame(info)
    BY DEF FInv, AsmOk, Post
  <2>2. \A i \in 1..Len(queue') : i \in 1..Len(queue) \/ i = Len(queue) + 1
    BY <1>1, <1>2
  <2> QED BY <1>1, <1>2, <2>1, <2>2, Zenon DEF FInv, FramesWhole
<1> QED BY <1>3, <1>4, <1>5, Zenon DEF FInv

LEMMA CommandF == ASSUME FInv, Command PROVE FInv'
<1> USE DEF server, asm, pfm, box, chk
<1> DEFINE L == Len(stream)
<1>1. /\ stream \in Seq(Parts) /\ L \in Nat /\ cmds \in 0..MaxCmd /\ cmds < MaxCmd
      /\ cmds' = cmds + 1 /\ stream' = stream \o Frame(cmds + 1)
  BY DEF FInv, TypeOK, Command
<1>2. Frame(cmds + 1) \in Seq(Parts) /\ Len(Frame(cmds + 1)) = 3
  BY <1>1, BoundsAssumption DEF Frame, Parts, Cmds
<1>3. stream' \in Seq(Parts) /\ Len(stream') = L + 3
  <2> HIDE DEF L
  <2>1. /\ stream \o Frame(cmds + 1) \in Seq(Parts)
        /\ Len(stream \o Frame(cmds + 1)) = Len(stream) + Len(Frame(cmds + 1))
    BY <1>1, <1>2, ConcatProperties, Zenon
  <2> QED BY <1>1, <1>2, <2>1 DEF L
<1>4. /\ \A i \in 1..L : stream'[i] = stream[i]
      /\ stream'[L + 1] = <<cmds + 1, 1>>
      /\ stream'[L + 2] = <<cmds + 1, 2>>
      /\ stream'[L + 3] = <<cmds + 1, 3>>
  <2>1. /\ \A i \in 1..L : stream'[i] = stream[i]
        /\ \A i \in 1..3 : stream'[L + i] = Frame(cmds + 1)[i]
    BY <1>1, <1>2
  <2> QED BY <2>1 DEF Frame
<1>5. TypeOK' /\ WorkOk'
  <2>1. cmds' \in 0..MaxCmd /\ gates' \subseteq Cmds
    BY <1>1, BoundsAssumption DEF FInv, TypeOK, Command, Cmds
  <2> QED BY <1>3, <2>1, Zenon DEF FInv, TypeOK, WorkOk, Command
<1>6. StreamOk'
  <2>0. L \in Nat /\ cmds \in Nat /\ cmds' = cmds + 1
    BY <1>1, BoundsAssumption
  <2>1. \A i \in 1..Len(stream') : i \in 1..L \/ i = L + 1 \/ i = L + 2 \/ i = L + 3
    BY <1>1, <1>3
  <2>2. \A i \in 1..L : stream[i][1] \in Nat /\ stream[i][2] \in 1..3 /\ stream[i][1] <= cmds
    <3>1. \A i \in 1..L : stream[i] \in Parts /\ stream[i][1] <= cmds
      BY <1>1 DEF FInv, StreamOk
    <3> QED BY <3>1, BoundsAssumption DEF Parts, Cmds
  <2> HIDE DEF L
  <2>3. \A i \in 1..Len(stream') : stream'[i][1] <= cmds'
    <3>1. SUFFICES ASSUME NEW i \in 1..Len(stream') PROVE stream'[i][1] <= cmds'
      OBVIOUS
    <3>2. CASE i \in 1..L
      <4>1. stream'[i][1] \in Nat /\ stream'[i][1] <= cmds
        BY <1>4, <2>2, <3>2
      <4> QED BY <2>0, <4>1
    <3>3. CASE i \notin 1..L
      <4>1. stream'[i][1] = cmds + 1
        BY <1>4, <2>1, <3>3
      <4> QED BY <2>0, <4>1
    <3> QED BY <3>2, <3>3
  <2>4. ASSUME NEW i \in 1..Len(stream'), NEW j \in 1..Len(stream'), i < j
        PROVE  \/ stream'[i][1] < stream'[j][1]
               \/ stream'[i][1] = stream'[j][1] /\ stream'[i][2] < stream'[j][2]
    <3>1. CASE i \in 1..L /\ j \in 1..L
      BY <1>4, <2>4, <3>1 DEF FInv, StreamOk, L
    <3>2. CASE i \in 1..L /\ j \notin 1..L
      <4>1. stream'[j][1] = cmds + 1
        BY <1>4, <2>1, <3>2
      <4>2. stream'[i][1] \in Nat /\ stream'[i][1] <= cmds
        BY <1>4, <2>2, <3>2
      <4> QED BY <2>0, <4>1, <4>2
    <3>3. CASE i \notin 1..L
      <4>1. \/ i = L + 1 /\ j = L + 2
            \/ i = L + 1 /\ j = L + 3
            \/ i = L + 2 /\ j = L + 3
        BY <2>0, <2>1, <2>4, <3>3
      <4> QED BY <1>4, <4>1
    <3> QED BY <3>1, <3>2, <3>3
  <2>5. ASSUME NEW i \in 1..Len(stream'), stream'[i][2] < 3
        PROVE  i < Len(stream') /\ stream'[i + 1] = <<stream'[i][1], stream'[i][2] + 1>>
    <3>1. CASE i \in 1..L
      <4>1. i < L /\ stream[i + 1] = <<stream[i][1], stream[i][2] + 1>>
        BY <1>4, <2>5, <3>1 DEF FInv, StreamOk, L
      <4>2. i + 1 \in 1..L /\ i < Len(stream')
        BY <1>1, <1>3, <3>1, <4>1
      <4> QED BY <1>4, <3>1, <4>1, <4>2
    <3>2. CASE i \notin 1..L
      <4>1. i = L + 1 \/ i = L + 2
        BY <1>4, <2>1, <2>5, <3>2
      <4>2. (L + 1) + 1 = L + 2 /\ (L + 2) + 1 = L + 3 /\ L + 1 < L + 3 /\ L + 2 < L + 3
        BY <2>0
      <4>3. CASE i = L + 1
        BY <1>3, <1>4, <4>2, <4>3
      <4>4. CASE i = L + 2
        BY <1>3, <1>4, <4>2, <4>4
      <4> QED BY <4>1, <4>3, <4>4
    <3> QED BY <3>1, <3>2
  <2> QED BY <2>3, <2>4, <2>5 DEF StreamOk
<1>7. AsmOk'
  BY <1>1 DEF FInv, Command, AsmOk, Half
<1>8. FramesWhole'
  <2>1. UNCHANGED queue /\ \A n \in 1..cmds : n \in 1..cmds'
    BY <1>1 DEF Command
  <2> QED BY <2>1, Zenon DEF FInv, FramesWhole
<1> QED BY <1>5, <1>6, <1>7, <1>8, Zenon DEF FInv

----------------------------------------------------------------------------
(* Sequences of two and of three elements. *)
LEMMA Pair == ASSUME NEW S, NEW s \in Seq(S), Len(s) >= 2 PROVE SubSeq(s, 1, 2) = <<s[1], s[2]>>
<1>1. s[1] \in S /\ s[2] \in S
  OBVIOUS
<1>2. /\ SubSeq(s, 1, 2) \in Seq(S) /\ Len(SubSeq(s, 1, 2)) = 2
      /\ SubSeq(s, 1, 2)[1] = s[1] /\ SubSeq(s, 1, 2)[2] = s[2]
  OBVIOUS
<1>3. <<s[1], s[2]>> \in Seq(S) /\ Len(<<s[1], s[2]>>) = 2
  BY <1>1
<1>4. \A i \in 1..2 : SubSeq(s, 1, 2)[i] = <<s[1], s[2]>>[i]
  BY <1>2
<1> QED BY <1>2, <1>3, <1>4, SeqEqual
LEMMA Triple == ASSUME NEW S, NEW s \in Seq(S), Len(s) >= 3
                PROVE  SubSeq(s, 1, 3) = <<s[1], s[2], s[3]>>
<1>1. s[1] \in S /\ s[2] \in S /\ s[3] \in S
  OBVIOUS
<1>2. /\ SubSeq(s, 1, 3) \in Seq(S) /\ Len(SubSeq(s, 1, 3)) = 3
      /\ \A i \in 1..3 : SubSeq(s, 1, 3)[i] = s[i]
  OBVIOUS
<1>3. <<s[1], s[2], s[3]>> \in Seq(S) /\ Len(<<s[1], s[2], s[3]>>) = 3
  BY <1>1
<1>4. \A i \in 1..3 : SubSeq(s, 1, 3)[i] = <<s[1], s[2], s[3]>>[i]
  BY <1>2
<1> QED BY <1>2, <1>3, <1>4, SeqEqual

(* dts_recv.  With a head in the piece it has the head or the whole of a   *)
(* frame of the stream.                                                    *)
LEMMA PieceType == ASSUME TypeOK, NEW n \in 1..Len(stream)
  PROVE  LET piece == SubSeq(stream, 1, n) IN
         /\ piece \in Seq(Parts) /\ Len(piece) = n /\ Len(stream) \in Nat
         /\ \A i \in 1..n : i \in 1..Len(stream) /\ piece[i] = stream[i] /\ stream[i] \in Parts
<1>1. stream \in Seq(Parts)
  BY DEF TypeOK
<1> QED BY <1>1

LEMMA FilledWhole ==
  ASSUME TypeOK, StreamOk, NEW n \in 1..Len(stream), WholeHead(SubSeq(stream, 1, n))
  PROVE  \E h \in 1..(n - 1), m \in 1..cmds :
           /\ Infos(SubSeq(stream, 1, n)) = {m}
           /\ stream[h] = <<m, 1>>
           /\ \/ Filled(SubSeq(stream, 1, n)) = <<<<m, 1>>, <<m, 2>>>>
              \/ /\ h + 2 <= n /\ stream[h + 2] = <<m, 3>>
                 /\ Filled(SubSeq(stream, 1, n)) = Frame(m)
<1> DEFINE piece == SubSeq(stream, 1, n)
           h == FirstHead(piece)
           m == stream[h][1]
           rest == SubSeq(piece, h, n)
<1>1. /\ piece \in Seq(Parts) /\ Len(piece) = n /\ Len(stream) \in Nat
      /\ \A i \in 1..n : i \in 1..Len(stream) /\ piece[i] = stream[i] /\ stream[i] \in Parts
  BY PieceType
<1>2. h \in 1..n /\ piece[h][2] = 1 /\ h < n
  <2>1. HasHead(piece) /\ h < n
    BY <1>1 DEF WholeHead
  <2> HIDE DEF piece
  <2>2. h \in 1..Len(piece) /\ piece[h][2] = 1
    BY <1>1, <2>1, FirstHeadType
  <2> QED BY <1>1, <2>1, <2>2
<1>3. Infos(piece) = {m}
  BY <1>1, <1>2 DEF Infos
<1>4. Filled(piece) = SubSeq(rest, 1, Copied(n - h + 1, 3))
  <2>1. HasHead(piece) /\ WholeHead(piece)
    BY DEF WholeHead
  <2> QED BY <1>1, <2>1 DEF Filled
<1> HIDE DEF piece, h
<1>5. stream[h] = <<m, 1>> /\ m \in 1..cmds
  <2>1. stream[h] \in Parts /\ stream[h][2] = 1 /\ stream[h][1] <= cmds /\ h \in 1..Len(stream)
    BY <1>1, <1>2 DEF StreamOk
  <2>2. cmds \in 0..MaxCmd
    BY DEF TypeOK
  <2> QED BY <2>1, <2>2, BoundsAssumption DEF Parts, Cmds
<1>6. stream[h + 1] = <<m, 2>> /\ h + 1 \in 1..Len(stream)
  <2>1. h \in 1..Len(stream) /\ stream[h][2] < 3
    BY <1>1, <1>2, <1>5
  <2>2. h < Len(stream) /\ stream[h + 1] = <<stream[h][1], stream[h][2] + 1>>
    BY <2>1 DEF StreamOk
  <2> QED BY <1>1, <1>2, <1>5, <2>1, <2>2
<1>7. stream[h + 2] = <<m, 3>>
  <2>1. stream[h + 1][2] < 3
    BY <1>6
  <2>2. stream[(h + 1) + 1] = <<stream[h + 1][1], stream[h + 1][2] + 1>>
    BY <1>6, <2>1 DEF StreamOk
  <2> QED BY <1>2, <1>6, <2>2
<1> HIDE DEF m
<1>8. /\ rest \in Seq(Parts) /\ Len(rest) = n - h + 1
      /\ \A i \in 1..(n - h + 1) : rest[i] = piece[h + i - 1]
  BY <1>1, <1>2
<1> HIDE DEF rest
<1>9. CASE n = h + 1
  <2>1. Copied(n - h + 1, 3) = 2
    BY <1>2, <1>9 DEF Copied
  <2>2. rest[1] = <<m, 1>> /\ rest[2] = <<m, 2>>
    <3>1. rest[1] = piece[h] /\ rest[2] = piece[h + 1]
      BY <1>2, <1>8, <1>9
    <3>2. h \in 1..n /\ h + 1 \in 1..n
      BY <1>2, <1>9
    <3> QED BY <1>1, <1>5, <1>6, <3>1, <3>2
  <2>3. Filled(piece) = <<<<m, 1>>, <<m, 2>>>>
    <3>1. Len(rest) >= 2
      BY <1>2, <1>8, <1>9
    <3> QED BY <1>4, <1>8, <2>1, <2>2, <3>1, Pair
  <2> QED BY <1>1, <1>2, <1>3, <1>5, <2>3 DEF piece
<1>10. CASE h + 2 <= n
  <2>1. Copied(n - h + 1, 3) = 3
    BY <1>1, <1>2, <1>10 DEF Copied
  <2>2. rest[1] = <<m, 1>> /\ rest[2] = <<m, 2>> /\ rest[3] = <<m, 3>>
    <3>1. rest[1] = piece[h] /\ rest[2] = piece[h + 1] /\ rest[3] = piece[h + 2]
      BY <1>2, <1>8, <1>10
    <3>2. h \in 1..n /\ h + 1 \in 1..n /\ h + 2 \in 1..n
      BY <1>2, <1>10
    <3> QED BY <1>1, <1>5, <1>6, <1>7, <3>1, <3>2
  <2>3. Filled(piece) = Frame(m)
    <3>1. Len(rest) >= 3
      BY <1>2, <1>8, <1>10
    <3> QED BY <1>4, <1>8, <2>1, <2>2, <3>1, Triple DEF Frame
  <2> QED BY <1>1, <1>2, <1>3, <1>5, <1>7, <1>10, <2>3 DEF piece
<1>11. n = h + 1 \/ h + 2 <= n
  BY <1>2
<1> QED BY <1>9, <1>10, <1>11, Zenon

(* Without one it adds the first part of the piece to the head it has, and *)
(* a head cut off that changes info does not make that part its data.      *)
LEMMA FilledRest ==
  ASSUME TypeOK, StreamOk, NEW n \in 1..Len(stream), ~WholeHead(SubSeq(stream, 1, n)), Half
  PROVE  /\ Filled(SubSeq(stream, 1, n)) = <<<<info, 1>>, <<info, 2>>, stream[1]>>
         /\ \A m \in Infos(SubSeq(stream, 1, n)) : stream[1] = <<m, 3>> => m = info
<1> DEFINE piece == SubSeq(stream, 1, n)
           h == FirstHead(piece)
           len == IF HasHead(piece) THEN Len(piece) - h + 1 ELSE Len(piece)
           one == SubSeq(piece, 1, 1)
<1>1. /\ piece \in Seq(Parts) /\ Len(piece) = n /\ Len(stream) \in Nat
      /\ \A i \in 1..n : i \in 1..Len(stream) /\ piece[i] = stream[i] /\ stream[i] \in Parts
  BY PieceType
<1>2. HasHead(piece) => h \in 1..n /\ piece[h][2] = 1
  <2> HIDE DEF piece
  <2> QED BY <1>1, FirstHeadType
<1>3. Filled(piece) = buf \o SubSeq(piece, 1, Copied(len, 3 - Len(buf)))
  BY DEF Filled
<1>4. \A m \in Infos(piece) : m = info \/ (HasHead(piece) /\ m = piece[h][1])
  BY DEF Infos
<1> HIDE DEF piece, h
<1>5. Copied(len, 3 - Len(buf)) = 1
  <2>1. Len(buf) = 2
    BY DEF Half
  <2>2. len \in Nat /\ len >= 1
    BY <1>1, <1>2
  <2> QED BY <2>1, <2>2 DEF Copied
<1>6. one \in Seq(Parts) /\ Len(one) = 1 /\ one[1] = stream[1]
  BY <1>1
<1> HIDE DEF one, len
<1>7. Filled(piece) = <<<<info, 1>>, <<info, 2>>, stream[1]>>
  <2>1. /\ Filled(piece) = buf \o one
        /\ buf \in Seq(Parts) /\ Len(buf) = 2 /\ buf[1] = <<info, 1>> /\ buf[2] = <<info, 2>>
    BY <1>3, <1>5 DEF Half, TypeOK, one
  <2>2. /\ buf \o one \in Seq(Parts) /\ Len(buf \o one) = 3
        /\ (buf \o one)[1] = buf[1] /\ (buf \o one)[2] = buf[2] /\ (buf \o one)[3] = one[1]
    <3>1. /\ buf \o one \in Seq(Parts) /\ Len(buf \o one) = Len(buf) + Len(one)
          /\ \A i \in 1..(Len(buf) + Len(one)) : (buf \o one)[i] =
                IF i <= Len(buf) THEN buf[i] ELSE one[i - Len(buf)]
      BY <1>6, <2>1, ConcatProperties, Zenon
    <3> QED BY <1>6, <2>1, <3>1
  <2>3. SubSeq(buf \o one, 1, 3) = buf \o one
    <3>1. DOMAIN (buf \o one) = 1..3
      BY <2>2
    <3>2. /\ SubSeq(buf \o one, 1, 3) \in Seq(Parts) /\ Len(SubSeq(buf \o one, 1, 3)) = 3
          /\ \A i \in 1..3 : SubSeq(buf \o one, 1, 3)[i] = (buf \o one)[i]
      BY <2>2
    <3> QED BY <2>2, <3>2, SeqEqual
  <2>4. SubSeq(buf \o one, 1, 3) = <<(buf \o one)[1], (buf \o one)[2], (buf \o one)[3]>>
    <3>1. Len(buf \o one) >= 3
      BY <2>2
    <3> QED BY <2>2, <3>1, Triple, Zenon
  <2> QED BY <1>6, <2>1, <2>2, <2>3, <2>4
<1>8. ASSUME NEW m \in Infos(piece), stream[1] = <<m, 3>> PROVE m = info
  <2>1. CASE HasHead(piece) /\ m = piece[h][1]
    <3>1. h \in 1..Len(stream) /\ stream[h][1] = m /\ stream[h][2] = 1 /\ 1 \in 1..Len(stream)
      BY <1>1, <1>2, <2>1
    <3>2. h = 1 => FALSE
      BY <1>8, <3>1
    <3>3. 1 < h => \/ stream[1][1] < stream[h][1]
                   \/ stream[1][1] = stream[h][1] /\ stream[1][2] < stream[h][2]
      BY <3>1 DEF StreamOk
    <3>4. m \in Nat
      <4>1. stream[h] \in Parts
        BY <1>1, <1>2, <2>1
      <4> QED BY <3>1, <4>1, BoundsAssumption DEF Parts, Cmds
    <3>5. 1 < h
      BY <3>1, <3>2
    <3> QED BY <1>8, <3>1, <3>3, <3>4, <3>5
  <2> QED BY <1>4, <2>1
<1> QED BY <1>7, <1>8 DEF piece

(* What a call of dts_recv leaves: nothing, a head, or a whole frame whose *)
(* data it has just read.                                                  *)
LEMMA RecvLeaves ==
  ASSUME FInv, NEW n \in 1..Len(stream), Recv(n)
  PROVE  \/ data' = FALSE /\ buf' = <<>> /\ lpc' = "head" /\ info' \in 0..MaxCmd
         \/ /\ data' = TRUE /\ lpc' = "head" /\ info' \in 1..cmds
            /\ buf' = <<<<info', 1>>, <<info', 2>>>>
            /\ \E h \in 1..n : stream[h][1] = info'
         \/ /\ data' = TRUE /\ lpc' = "post" /\ info' \in 1..cmds
            /\ buf' = Frame(info')
            /\ \E h \in 1..n : stream[h] = <<info', 3>>
<1> DEFINE piece == SubSeq(stream, 1, n)
<1>1. TypeOK /\ StreamOk /\ AsmOk
  BY DEF FInv
<1>2. info' \in Infos(piece) /\ lpc = "recv"
  BY DEF Recv
<1>3. info' \in 0..MaxCmd
  <2>1. /\ piece \in Seq(Parts) /\ Len(piece) = n
        /\ \A i \in 1..n : piece[i] \in Parts
    BY <1>1, PieceType
  <2>2. HasHead(piece) => FirstHead(piece) \in 1..n
    <3> HIDE DEF piece
    <3> QED BY <2>1, FirstHeadType
  <2>3. WholeHead(piece) => HasHead(piece)
    BY DEF WholeHead
  <2>4. info' = info \/ (HasHead(piece) /\ info' = piece[FirstHead(piece)][1])
    <3> HIDE DEF piece
    <3>1. CASE WholeHead(piece)
      BY <1>2, <2>3, <3>1 DEF Infos
    <3>2. CASE ~WholeHead(piece) /\ HasHead(piece)
      BY <1>2, <3>2 DEF Infos
    <3>3. CASE ~WholeHead(piece) /\ ~HasHead(piece)
      BY <1>2, <3>3 DEF Infos
    <3> QED BY <3>1, <3>2, <3>3
  <2>5. info \in 0..MaxCmd
    BY <1>1 DEF TypeOK
  <2> HIDE DEF piece
  <2>6. CASE info' # info
    <3>1. piece[FirstHead(piece)] \in Parts /\ info' = piece[FirstHead(piece)][1]
      BY <2>1, <2>2, <2>4, <2>6
    <3> QED BY <3>1, BoundsAssumption DEF Parts, Cmds
  <2> QED BY <2>5, <2>6
<1>4. CASE data' = FALSE /\ buf' = <<>> /\ lpc' = "head"
  BY <1>3, <1>4
<1>5. CASE /\ WholeHead(piece) \/ data
           /\ data' = (Len(Filled(piece)) # 3 \/ ChecksumOk(Filled(piece), info'))
           /\ buf' = IF data' THEN Filled(piece) ELSE <<>>
           /\ lpc' = IF ChecksumOk(Filled(piece), info') THEN "post" ELSE "head"
  <2>1. CASE WholeHead(piece)
    <3>1. PICK h \in 1..(n - 1), m \in 1..cmds :
             /\ Infos(piece) = {m}
             /\ stream[h] = <<m, 1>>
             /\ \/ Filled(piece) = <<<<m, 1>>, <<m, 2>>>>
                \/ /\ h + 2 <= n /\ stream[h + 2] = <<m, 3>>
                   /\ Filled(piece) = Frame(m)
      BY <1>1, <2>1, FilledWhole
    <3>2. info' = m /\ h \in 1..n
      BY <1>2, <3>1
    <3> HIDE DEF piece
    <3>3. CASE Filled(piece) = <<<<m, 1>>, <<m, 2>>>>
      <4>1. Len(Filled(piece)) = 2
        BY <3>3
      <4>2. ~ChecksumOk(Filled(piece), info')
        BY <4>1 DEF ChecksumOk
      <4>3. data' = TRUE /\ lpc' = "head" /\ buf' = Filled(piece)
        <5>1. Len(Filled(piece)) # 3
          BY <4>1
        <5> QED BY <1>5, <4>2, <5>1, Zenon
      <4>4. stream[h][1] = info'
        BY <3>1, <3>2
      <4> QED BY <3>2, <3>3, <4>3, <4>4
    <3>4. CASE h + 2 <= n /\ stream[h + 2] = <<m, 3>> /\ Filled(piece) = Frame(m)
      <4>1. ChecksumOk(Filled(piece), info')
        BY <3>2, <3>4 DEF ChecksumOk, Frame
      <4>2. data' = TRUE /\ lpc' = "post" /\ buf' = Filled(piece)
        BY <1>5, <4>1
      <4>3. h + 2 \in 1..n
        BY <3>2, <3>4
      <4> QED BY <3>2, <3>4, <4>2, <4>3
    <3> QED BY <3>1, <3>3, <3>4
  <2>2. CASE ~WholeHead(piece)
    <3>1. data /\ Half /\ info \in 1..cmds
      BY <1>1, <1>2, <1>5, <2>2 DEF AsmOk
    <3>2. /\ Filled(piece) = <<<<info, 1>>, <<info, 2>>, stream[1]>>
          /\ stream[1] = <<info', 3>> => info' = info
      BY <1>1, <1>2, <2>2, <3>1, FilledRest
    <3> HIDE DEF piece
    <3>3. Len(Filled(piece)) = 3 /\ Filled(piece)[3] = stream[1]
      BY <3>2
    <3>4. CASE ChecksumOk(Filled(piece), info')
      <4>1. stream[1] = <<info', 3>> /\ info' = info
        BY <3>2, <3>3, <3>4 DEF ChecksumOk
      <4>2. data' = TRUE /\ lpc' = "post" /\ buf' = Filled(piece)
        BY <1>5, <3>4
      <4>3. buf' = Frame(info')
        BY <3>2, <4>1, <4>2 DEF Frame
      <4> QED BY <3>1, <4>1, <4>2, <4>3
    <3>5. CASE ~ChecksumOk(Filled(piece), info')
      BY <1>3, <1>5, <3>3, <3>5
    <3> QED BY <3>4, <3>5
  <2> QED BY <2>1, <2>2
<1> QED BY <1>4, <1>5 DEF Recv

LEMMA RecvF == ASSUME FInv, NEW n \in 1..Len(stream), Recv(n) PROVE FInv'
<1> USE DEF server, asm, pfm, box, chk
<1>1. /\ UNCHANGED <<cmds, gates, peer, closes, item, queue, ppc, cmd, sendLs, quiet, valid,
                      mail, cpc, read, acted, missed, answered>>
      /\ stream' = SubSeq(stream, n + 1, Len(stream))
  BY DEF Recv
<1>2. stream \in Seq(Parts) /\ Len(stream) \in Nat /\ cmds \in 0..MaxCmd
  BY DEF FInv, TypeOK
<1>3. /\ stream' \in Seq(Parts) /\ Len(stream') = Len(stream) - n
      /\ \A i \in 1..Len(stream') : i + n \in 1..Len(stream) /\ stream'[i] = stream[i + n]
  BY <1>1, <1>2
<1>4. /\ AsmOk' /\ data' \in BOOLEAN /\ lpc' \in {"head", "post"}
      /\ info' \in 0..MaxCmd /\ buf' \in Seq(Parts) /\ Len(buf') <= 3
  <2> DEFINE half == <<<<info', 1>>, <<info', 2>>>>
  <2>1. CASE data' = FALSE /\ buf' = <<>> /\ lpc' = "head" /\ info' \in 0..MaxCmd
    <3>1. AsmOk'
      BY <2>1, Zenon DEF AsmOk
    <3>2. <<>> \in Seq(Parts) /\ Len(<<>>) <= 3
      OBVIOUS
    <3> QED BY <2>1, <3>1, <3>2, Zenon
  <2>2. CASE data' = TRUE /\ lpc' = "head" /\ info' \in 1..cmds /\ buf' = half
    <3>1. info' \in 0..MaxCmd /\ buf' \in Seq(Parts) /\ Len(buf') = 2
      BY <1>2, <2>2, BoundsAssumption DEF Parts, Cmds
    <3>2. Half'
      BY <2>2 DEF Half
    <3> QED BY <1>1, <2>2, <3>1, <3>2 DEF AsmOk
  <2>3. CASE data' = TRUE /\ lpc' = "post" /\ info' \in 1..cmds /\ buf' = Frame(info')
    <3>1. info' \in 0..MaxCmd /\ buf' \in Seq(Parts) /\ Len(buf') = 3
      BY <1>2, <2>3, BoundsAssumption DEF Parts, Cmds, Frame
    <3> QED BY <1>1, <2>3, <3>1 DEF AsmOk
  <2> QED BY <2>1, <2>2, <2>3, RecvLeaves
<1>5. TypeOK'
  BY <1>1, <1>3, <1>4, Zenon DEF FInv, TypeOK
<1>6. WorkOk'
  BY <1>1, <1>4 DEF FInv, WorkOk
<1>7. StreamOk'
  <2>1. \A i \in 1..Len(stream') : stream'[i][1] <= cmds'
    BY <1>1, <1>3 DEF FInv, StreamOk
  <2>2. ASSUME NEW i \in 1..Len(stream'), NEW j \in 1..Len(stream'), i < j
        PROVE  \/ stream'[i][1] < stream'[j][1]
               \/ stream'[i][1] = stream'[j][1] /\ stream'[i][2] < stream'[j][2]
    <3>1. i + n < j + n
      BY <2>2
    <3>2. /\ i + n \in 1..Len(stream) /\ stream'[i] = stream[i + n]
          /\ j + n \in 1..Len(stream) /\ stream'[j] = stream[j + n]
      BY <1>3
    <3>3. \/ stream[i + n][1] < stream[j + n][1]
          \/ stream[i + n][1] = stream[j + n][1] /\ stream[i + n][2] < stream[j + n][2]
      BY <3>1, <3>2 DEF FInv, StreamOk
    <3> QED BY <3>2, <3>3
  <2>3. ASSUME NEW i \in 1..Len(stream'), stream'[i][2] < 3
        PROVE  i < Len(stream') /\ stream'[i + 1] = <<stream'[i][1], stream'[i][2] + 1>>
    <3>1. /\ i + n < Len(stream)
          /\ stream[(i + n) + 1] = <<stream[i + n][1], stream[i + n][2] + 1>>
      BY <1>3, <2>3 DEF FInv, StreamOk
    <3>2. i < Len(stream') /\ i + 1 \in 1..Len(stream') /\ (i + 1) + n = (i + n) + 1
      BY <1>2, <1>3, <3>1
    <3> QED BY <1>3, <3>1, <3>2
  <2> QED BY <2>1, <2>2, <2>3 DEF StreamOk
<1>8. FramesWhole'
  BY <1>1, Zenon DEF FInv, FramesWhole
<1> QED BY <1>4, <1>5, <1>6, <1>7, <1>8, Zenon DEF FInv

----------------------------------------------------------------------------
LEMMA NextF == ASSUME FInv, [Next]_vars PROVE FInv'
<1>1. CASE UNCHANGED vars
  <2> USE DEF vars, server, asm, pfm, box, chk
  <2>0. UNCHANGED <<cmds, gates, stream, peer, closes, lpc, item, data, buf, info, queue, ppc, cmd,
                    sendLs, quiet, valid, mail, cpc, read, acted, missed, answered>>
    BY <1>1
  <2>1. TypeOK'
    BY <2>0, Zenon DEF FInv, TypeOK
  <2>2. WorkOk'
    BY <2>0, Zenon DEF FInv, WorkOk
  <2>3. FramesWhole'
    BY <2>0, Zenon DEF FInv, FramesWhole
  <2>4. StreamOk'
    BY <2>0 DEF FInv, StreamOk
  <2>5. AsmOk'
    BY <2>0 DEF FInv, AsmOk, Half
  <2> QED BY <2>1, <2>2, <2>3, <2>4, <2>5 DEF FInv
<1>2. CASE Quiet
  BY <1>2, QuietF
<1>3. CASE Command
  BY <1>3, CommandF
<1>4. CASE Connect
  BY <1>4, ConnectF
<1>5. CASE \E n \in 1..Len(stream) : Recv(n)
  BY <1>5, RecvF
<1>6. CASE Post
  BY <1>6, PostF
<1>7. CASE Del
  BY <1>7, DelF
<1>8. CASE Take
  BY <1>8, TakeF
<1> QED BY <1>1, <1>2, <1>3, <1>4, <1>5, <1>6, <1>7, <1>8, Zenon DEF Next, Link, Pfm, Quiet

LEMMA FramesInductive == Spec => []FInv
<1>1. Init => FInv
  BY InitF
<1>2. FInv /\ [Next]_vars => FInv'
  BY NextF
<1> QED BY <1>1, <1>2, PTL DEF Spec

(* The fields of ltcp_thread, pfm_thread and chk_status_thread keep their  *)
(* types: the buffer of dts_recv holds at most one frame and the queue at  *)
(* most what the kernel allows.                                            *)
THEOREM DownTypeCorrect == Spec => []TypeOK
<1>1. FInv => TypeOK
  BY DEF FInv
<1> QED BY <1>1, FramesInductive, PTL

(* dts_recv passes on whole frames of the server only, however recv cuts   *)
(* the stream, wherever a head is cut and whatever an earlier connection   *)
(* left behind.                                                            *)
THEOREM FramesAreWhole == Spec => []FramesWhole
<1>1. FInv => FramesWhole
  BY DEF FInv
<1> QED BY <1>1, FramesInductive, PTL

----------------------------------------------------------------------------
(* The way of a command.  The numbers that PassOk compares are numbers.    *)
LEMMA Numbers == ASSUME FInv
  PROVE  /\ cmds \in Nat /\ cmd \in Nat /\ info \in Nat
         /\ Len(queue) \in Nat /\ Len(stream) \in Nat
         /\ \A i \in 1..Len(queue) : Num(i) \in 1..cmds
         /\ \A i \in 1..Len(stream) : stream[i][1] \in 1..cmds /\ stream[i][2] \in 1..3
<1>1. /\ cmds \in 0..MaxCmd /\ cmd \in 0..MaxCmd /\ info \in 0..MaxCmd
      /\ queue \in Seq(Seq(Parts)) /\ stream \in Seq(Parts)
  BY DEF FInv, TypeOK
<1>2. DOMAIN queue = 1..Len(queue) /\ Len(queue) \in Nat /\ Len(stream) \in Nat
  BY <1>1
<1>3. ASSUME NEW i \in 1..Len(queue) PROVE Num(i) \in 1..cmds
  <2>1. PICK n \in 1..cmds : queue[i] = Frame(n)
    BY <1>2 DEF FInv, FramesWhole
  <2> QED BY <2>1 DEF Num, Frame
<1>4. ASSUME NEW i \in 1..Len(stream)
      PROVE  stream[i][1] \in 1..cmds /\ stream[i][2] \in 1..3
  <2>1. stream[i] \in Parts /\ stream[i][1] <= cmds
    BY <1>1 DEF FInv, StreamOk
  <2> QED BY <1>1, <2>1, BoundsAssumption DEF Parts, Cmds
<1> QED BY <1>1, <1>2, <1>3, <1>4, BoundsAssumption

LEMMA CommandPass == ASSUME FInv, PassOk, Command PROVE PassOk'
<1> USE DEF server, asm, pfm, box, chk
<1> DEFINE L == Len(stream)
<1>1. /\ cmds' = cmds + 1 /\ stream' = stream \o Frame(cmds + 1)
      /\ UNCHANGED <<lpc, cmd, queue, data, info>>
  BY DEF Command
<1>2. /\ cmds \in Nat /\ cmd \in Nat /\ info \in Nat /\ L \in Nat
      /\ \A i \in 1..Len(queue) : Num(i) \in 1..cmds
  BY Numbers
<1>3. /\ Len(stream') = L + 3
      /\ \A i \in 1..L : stream'[i] = stream[i]
      /\ \A i \in 1..3 : stream'[L + i][1] = cmds + 1
  <2>1. stream \in Seq(Parts) /\ cmds + 1 \in Cmds
    BY BoundsAssumption DEF FInv, TypeOK, Command, Cmds
  <2>2. Frame(cmds + 1) \in Seq(Parts) /\ Len(Frame(cmds + 1)) = 3
    BY <2>1 DEF Frame, Parts
  <2>3. /\ Len(stream') = L + 3
        /\ \A i \in 1..L : stream'[i] = stream[i]
        /\ \A i \in 1..3 : stream'[L + i] = Frame(cmds + 1)[i]
    <3> HIDE DEF Frame
    <3>1. /\ Len(stream') = Len(stream) + Len(Frame(cmds + 1))
          /\ \A i \in 1..(Len(stream) + Len(Frame(cmds + 1))) : stream'[i] =
                IF i <= Len(stream) THEN stream[i] ELSE Frame(cmds + 1)[i - Len(stream)]
      BY <1>1, <2>1, <2>2, ConcatProperties, Zenon
    <3> QED BY <1>2, <2>2, <3>1
  <2> QED BY <2>3 DEF Frame
<1> HIDE DEF L
<1>4. ASSUME NEW i \in 1..Len(stream')
      PROVE  /\ cmd < stream'[i][1]
             /\ \A j \in 1..Len(queue) : Num(j) < stream'[i][1]
             /\ lpc = "post" => info < stream'[i][1]
  <2>1. CASE i \in 1..L
    BY <1>3, <2>1 DEF PassOk, L
  <2>2. CASE i \notin 1..L
    <3>1. PICK k \in 1..3 : i = L + k
      <4>1. i - L \in 1..3 /\ i = L + (i - L)
        BY <1>2, <1>3, <2>2
      <4> QED BY <4>1
    <3>2. stream'[i][1] = cmds + 1
      BY <1>3, <3>1
    <3>3. cmd <= cmds /\ (lpc = "post" => info <= cmds)
      BY <1>2 DEF PassOk, FInv, AsmOk
    <3> QED BY <1>2, <3>2, <3>3
  <2> QED BY <2>1, <2>2
<1>5. cmd <= cmds'
  BY <1>1, <1>2 DEF PassOk
<1> QED BY <1>1, <1>4, <1>5 DEF PassOk, Num

LEMMA RecvPass == ASSUME FInv, PassOk, NEW n \in 1..Len(stream), Recv(n) PROVE PassOk'
<1> USE DEF server, asm, pfm, box, chk
<1>1. UNCHANGED <<cmds, cmd, queue>> /\ stream' = SubSeq(stream, n + 1, Len(stream))
  BY DEF Recv
<1>2. /\ cmds \in Nat /\ Len(stream) \in Nat /\ lpc # "post"
      /\ \A i \in 1..Len(stream) : stream[i][1] \in 1..cmds /\ stream[i][2] \in 1..3
  BY Numbers DEF Recv
<1>3. \A i \in 1..Len(stream') : i + n \in 1..Len(stream) /\ stream'[i] = stream[i + n]
  <2>1. stream \in Seq(Parts)
    BY DEF FInv, TypeOK
  <2> QED BY <1>1, <2>1
<1>4. data' => cmd < info' /\ \A i \in 1..Len(queue) : Num(i) < info'
  <2>1. data' => \E h \in 1..n : stream[h][1] = info'
    <3>1. CASE \E h \in 1..n : stream[h] = <<info', 3>>
      <4>1. PICK h \in 1..n : stream[h] = <<info', 3>>
        BY <3>1
      <4>2. stream[h][1] = info'
        BY <4>1
      <4> QED BY <4>2
    <3> QED BY <3>1, RecvLeaves, Zenon
  <2>2. \A h \in 1..n : h \in 1..Len(stream)
    BY <1>2
  <2> QED BY <2>1, <2>2 DEF PassOk
<1>5. ASSUME lpc' = "post", NEW i \in 1..Len(stream') PROVE info' < stream'[i][1]
  <2>1. PICK h \in 1..n : stream[h] = <<info', 3>>
    BY <1>5, RecvLeaves
  <2>2. h \in 1..Len(stream) /\ i + n \in 1..Len(stream) /\ h < i + n
    BY <1>2, <1>3
  <2>3. \/ stream[h][1] < stream[i + n][1]
        \/ stream[h][1] = stream[i + n][1] /\ stream[h][2] < stream[i + n][2]
    BY <2>2 DEF FInv, StreamOk
  <2>4. stream[i + n][2] \in 1..3 /\ stream[h][2] = 3 /\ stream[h][1] = info'
    BY <1>2, <2>1, <2>2
  <2> QED BY <1>3, <2>3, <2>4
<1>6. ASSUME NEW i \in 1..Len(stream')
      PROVE  cmd < stream'[i][1] /\ \A j \in 1..Len(queue) : Num(j) < stream'[i][1]
  BY <1>3 DEF PassOk
<1> QED BY <1>1, <1>4, <1>5, <1>6 DEF PassOk, Num

LEMMA PostPass == ASSUME FInv, PassOk, Post PROVE PassOk'
<1> USE DEF server, asm, pfm, box, chk
<1> DEFINE L == Len(queue)
           new(i) == queue'[i][1][1]
<1>1. /\ UNCHANGED <<cmds, cmd, stream, info>> /\ data' = FALSE /\ lpc' = "head" /\ lpc = "post"
      /\ queue' = Append(queue, buf)
  BY DEF Post
<1>2. /\ L \in Nat /\ Len(queue') = L + 1
      /\ \A i \in 1..L : queue'[i] = queue[i]
      /\ queue'[L + 1] = buf
  BY <1>1 DEF FInv, TypeOK
<1>3. data /\ buf = Frame(info)
  BY <1>1 DEF FInv, AsmOk
<1>4. buf[1][1] = info
  BY <1>3 DEF Frame
<1>5. \A i \in 1..Len(queue') : i \in 1..L \/ i = L + 1
  BY <1>2
<1>6. (\A i \in 1..L : new(i) = Num(i)) /\ new(L + 1) = info
  BY <1>2, <1>4 DEF Num
<1> HIDE DEF L, new
<1>7. \A i \in 1..Len(queue') : cmd < new(i)
  BY <1>3, <1>5, <1>6 DEF PassOk, L
<1>8. ASSUME NEW i \in 1..Len(queue'), NEW j \in 1..Len(queue'), i < j PROVE new(i) < new(j)
  <2>1. i \in 1..L
    BY <1>2, <1>8
  <2>2. CASE j \in 1..L
    BY <1>6, <1>8, <2>1, <2>2 DEF PassOk, L
  <2>3. CASE j = L + 1
    BY <1>3, <1>6, <2>1, <2>3 DEF PassOk, L
  <2> QED BY <1>5, <2>2, <2>3
<1>9. ASSUME NEW i \in 1..Len(stream), NEW j \in 1..Len(queue') PROVE new(j) < stream[i][1]
  BY <1>1, <1>5, <1>6 DEF PassOk, L
<1> QED BY <1>1, <1>7, <1>8, <1>9 DEF PassOk, Num, new

LEMMA TakePass == ASSUME FInv, PassOk, Take PROVE PassOk' /\ cmd < cmd'
<1> USE DEF server, asm, pfm, box, chk
<1>1. UNCHANGED <<cmds, stream, data, info, lpc>> /\ queue' = Tail(queue)
  BY DEF Take
<1>2. /\ Len(queue) \in Nat /\ Len(queue) > 0 /\ Len(queue') = Len(queue) - 1
      /\ \A i \in 1..Len(queue') : queue'[i] = queue[i + 1]
  <2>1. queue \in Seq(Seq(Parts)) /\ queue # <<>>
    BY DEF FInv, TypeOK, Take
  <2> QED BY <1>1, <2>1
<1>3. cmd' = Num(1) /\ 1 \in 1..Len(queue)
  <2>1. Head(queue) = queue[1]
    BY <1>2 DEF FInv, TypeOK
  <2> QED BY <1>2, <2>1 DEF Take, Num
<1>4. \A i \in 1..Len(queue') : Num(i)' = Num(i + 1) /\ i + 1 \in 1..Len(queue) /\ 1 < i + 1
  BY <1>2 DEF Num
<1>5. cmd' <= cmds
  BY <1>3, Numbers
<1>6. ASSUME NEW i \in 1..Len(queue'), NEW j \in 1..Len(queue'), i < j PROVE Num(i)' < Num(j)'
  <2>1. i + 1 < j + 1
    BY <1>6
  <2> QED BY <1>4, <2>1 DEF PassOk
<1>7. \A i \in 1..Len(queue') : cmd' < Num(i)'
  BY <1>3, <1>4 DEF PassOk
<1>8. data => cmd' < info /\ \A i \in 1..Len(queue') : Num(i)' < info
  BY <1>3, <1>4 DEF PassOk
<1>9. ASSUME NEW i \in 1..Len(stream)
      PROVE  cmd' < stream[i][1] /\ \A j \in 1..Len(queue') : Num(j)' < stream[i][1]
  BY <1>3, <1>4 DEF PassOk
<1>10. PassOk'
  BY <1>1, <1>5, <1>6, <1>7, <1>8, <1>9 DEF PassOk
<1> QED BY <1>3, <1>10 DEF PassOk

LEMMA NextPass == ASSUME FInv, PassOk, [Next]_vars PROVE PassOk'
<1>1. CASE UNCHANGED <<cmds, stream, data, info, queue, cmd>> /\ (lpc' = "post" <=> lpc = "post")
  BY <1>1 DEF PassOk, Num
<1>2. CASE Quiet
  BY <1>1, <1>2, QuietFrames
<1>3. CASE Del \/ UNCHANGED vars
  BY <1>1, <1>3 DEF Del, vars, server, asm, pfm
<1>4. CASE Command
  BY <1>4, CommandPass
<1>5. CASE Connect
  BY <1>5 DEF Connect, PassOk, Num, asm, pfm
<1>6. CASE \E n \in 1..Len(stream) : Recv(n)
  BY <1>6, RecvPass
<1>7. CASE Post
  BY <1>7, PostPass
<1>8. CASE Take
  BY <1>8, TakePass
<1> QED BY <1>2, <1>3, <1>4, <1>5, <1>6, <1>7, <1>8, Zenon DEF Next, Link, Pfm, Quiet

----------------------------------------------------------------------------
(* The way of a reply. *)
LEMMA ReplyNumbers == ASSUME FInv
  PROVE  /\ cmd \in Nat /\ Len(sendLs) \in Nat /\ Len(answered) \in Nat
         /\ sendLs \in Seq(Nat) /\ answered \in Seq(Nat)
         /\ \A i \in 1..Len(sendLs) : sendLs[i] \in Nat
         /\ \A i \in 1..Len(answered) : answered[i] \in Nat
         /\ DOMAIN sendLs = 1..Len(sendLs) /\ DOMAIN answered = 1..Len(answered)
<1>1. sendLs \in Seq(Cmds) /\ answered \in Seq(Cmds) /\ cmd \in 0..MaxCmd
  BY DEF FInv, TypeOK
<1>2. \A n \in Cmds : n \in Nat
  BY BoundsAssumption DEF Cmds
<1>3. sendLs \in Seq(Nat) /\ answered \in Seq(Nat)
  BY <1>1, <1>2
<1> QED BY <1>1, <1>3, BoundsAssumption

SendOrder == ReplyOk /\ RepliesInOrder

(* A step that leaves both lists alone. *)
LEMMA KeepReplies ==
  ASSUME FInv, SendOrder, UNCHANGED <<answered, sendLs, cmd>>,
         lpc = "del" => lpc' = "del", ppc' # "idle" => ppc # "idle"
  PROVE  SendOrder'
<1>1. ReplyOk'
  BY DEF SendOrder, ReplyOk
<1>2. RepliesInOrder'
  BY Zenon DEF SendOrder, RepliesInOrder
<1> QED BY <1>1, <1>2 DEF SendOrder

LEMMA TakeReplies == ASSUME FInv, SendOrder, Take, cmd < cmd' PROVE SendOrder'
<1>1. UNCHANGED <<answered, sendLs, lpc>>
  BY DEF Take
<1>2. cmd' \in Nat
  <2>1. FInv'
    BY TakeF
  <2>2. cmd' \in 0..MaxCmd
    BY <2>1 DEF FInv, TypeOK
  <2> QED BY <2>2, BoundsAssumption
<1>3. \A i \in 1..Len(answered) : answered[i] < cmd'
  BY <1>2, ReplyNumbers DEF SendOrder, ReplyOk
<1>4. \A i \in 1..Len(sendLs) : sendLs[i] < cmd'
  BY <1>2, ReplyNumbers DEF SendOrder, ReplyOk
<1>5. ReplyOk'
  <2>1. \A i \in 1..Len(answered) : answered[i] <= cmd'
    BY <1>2, <1>3, ReplyNumbers
  <2>2. \A i \in 1..Len(sendLs) : sendLs[i] <= cmd'
    BY <1>2, <1>4, ReplyNumbers
  <2> QED BY <1>1, <1>3, <1>4, <2>1, <2>2 DEF SendOrder, ReplyOk
<1>6. RepliesInOrder'
  BY <1>1, Zenon DEF SendOrder, RepliesInOrder
<1> QED BY <1>5, <1>6 DEF SendOrder

LEMMA ReplyReplies == ASSUME FInv, SendOrder, Reply PROVE SendOrder'
<1> USE DEF pfm
<1>1. UNCHANGED <<answered, lpc, cmd>> /\ ppc' = "idle" /\ ppc = "reply"
  BY DEF Reply
<1>2. CASE sendLs' = sendLs
  BY <1>1, <1>2, KeepReplies
<1>3. CASE sendLs' = Append(sendLs, cmd)
  <2> DEFINE L == Len(sendLs)
  <2>1. /\ L \in Nat /\ Len(sendLs') = L + 1 /\ sendLs'[L + 1] = cmd
        /\ \A i \in 1..L : sendLs'[i] = sendLs[i]
    <3>1. sendLs \in Seq(Nat) /\ cmd \in Nat
      BY ReplyNumbers
    <3> QED BY <1>3, <3>1
  <2>2. \A i \in 1..L : sendLs[i] < cmd /\ sendLs[i] <= cmd
    BY <1>1, ReplyNumbers DEF SendOrder, ReplyOk
  <2>3. \A i \in 1..Len(answered) : answered[i] < cmd /\ answered[i] <= cmd
    BY <1>1, ReplyNumbers DEF SendOrder, ReplyOk
  <2>4. \A i \in 1..Len(sendLs') : i \in 1..L \/ i = L + 1
    BY <2>1
  <2>5. cmd \in Nat
    BY ReplyNumbers
  <2> HIDE DEF L
  <2>6. \A i \in 1..Len(sendLs') : sendLs'[i] <= cmd
    BY <2>1, <2>2, <2>4, <2>5
  <2>7. ASSUME NEW i \in 1..Len(sendLs'), NEW j \in 1..Len(sendLs'), i < j
        PROVE  sendLs'[i] < sendLs'[j]
    <3>1. i \in 1..L
      BY <2>1, <2>7
    <3>2. CASE j \in 1..L
      BY <2>1, <2>7, <3>1, <3>2 DEF SendOrder, ReplyOk, L
    <3>3. CASE j = L + 1
      BY <2>1, <2>2, <3>1, <3>3
    <3> QED BY <2>4, <3>2, <3>3
  <2>8. ASSUME NEW i \in 1..Len(answered), NEW j \in 1..Len(sendLs'), j > 1 \/ lpc # "del"
        PROVE  answered[i] < sendLs'[j]
    <3>1. CASE j \in 1..L
      BY <2>1, <2>8, <3>1 DEF SendOrder, ReplyOk, L
    <3>2. CASE j = L + 1
      BY <2>1, <2>3, <3>2
    <3> QED BY <2>4, <3>1, <3>2
  <2>9. ReplyOk'
    BY <1>1, <2>3, <2>6, <2>7, <2>8 DEF ReplyOk
  <2>10. RepliesInOrder'
    BY <1>1, Zenon DEF SendOrder, RepliesInOrder
  <2> QED BY <2>9, <2>10 DEF SendOrder
<1> QED BY <1>2, <1>3 DEF Reply, ListAddTail

LEMMA SendReplies == ASSUME FInv, SendOrder, SendItem PROVE SendOrder'
<1> USE DEF pfm
<1>1. UNCHANGED <<sendLs, cmd, ppc>> /\ lpc = "send" /\ lpc' = "del"
  BY DEF SendItem
<1>2. CASE answered' = answered
  BY <1>1, <1>2, KeepReplies
<1>3. CASE answered' = Append(answered, item)
  <2> DEFINE L == Len(answered)
  <2>1. Len(sendLs) > 0 /\ item = sendLs[1] /\ 1 \in 1..Len(sendLs) /\ item \in Nat
    BY <1>1, ReplyNumbers DEF FInv, WorkOk
  <2>2. /\ L \in Nat /\ Len(answered') = L + 1 /\ answered'[L + 1] = item
        /\ \A i \in 1..L : answered'[i] = answered[i]
        /\ DOMAIN answered' = 1..(L + 1)
    <3>1. answered \in Seq(Nat)
      BY ReplyNumbers
    <3> QED BY <1>3, <2>1, <3>1
  <2>3. \A i \in 1..L : answered[i] < item
    BY <1>1, <2>1 DEF SendOrder, ReplyOk
  <2>4. \A i \in 1..(L + 1) : i \in 1..L \/ i = L + 1
    BY <2>2
  <2> HIDE DEF L
  <2>5. ASSUME NEW i \in 1..Len(answered')
        PROVE  answered'[i] <= cmd /\ (ppc # "idle" => answered'[i] < cmd)
    <3>1. CASE i \in 1..L
      BY <2>2, <3>1 DEF SendOrder, ReplyOk, L
    <3>2. CASE i = L + 1
      BY <2>1, <2>2, <3>2 DEF SendOrder, ReplyOk
    <3> QED BY <2>2, <2>4, <3>1, <3>2
  <2>6. ASSUME NEW i \in 1..Len(answered'), NEW j \in 1..Len(sendLs), j > 1
        PROVE  answered'[i] < sendLs[j]
    <3>1. CASE i \in 1..L
      BY <2>2, <2>6, <3>1 DEF SendOrder, ReplyOk, L
    <3>2. CASE i = L + 1
      BY <2>1, <2>2, <2>6, <3>2 DEF SendOrder, ReplyOk
    <3> QED BY <2>2, <2>4, <3>1, <3>2
  <2>7. ReplyOk'
    <3>1. /\ \A i \in 1..Len(sendLs) : sendLs[i] <= cmd /\ (ppc # "idle" => sendLs[i] < cmd)
          /\ \A i, j \in 1..Len(sendLs) : i < j => sendLs[i] < sendLs[j]
      BY DEF SendOrder, ReplyOk
    <3> QED BY <1>1, <2>5, <2>6, <3>1 DEF ReplyOk
  <2>8. ASSUME NEW i \in 1..(L + 1), NEW j \in 1..(L + 1), i < j
        PROVE  answered'[i] < answered'[j]
    <3>1. i \in 1..L
      BY <2>2, <2>8
    <3>2. CASE j \in 1..L
      <4>1. answered[i] < answered[j]
        BY <2>8, <3>1, <3>2, ReplyNumbers DEF SendOrder, RepliesInOrder, L
      <4> QED BY <2>2, <3>1, <3>2, <4>1
    <3>3. CASE j = L + 1
      BY <2>2, <2>3, <3>1, <3>3
    <3> QED BY <2>4, <3>2, <3>3
  <2>9. RepliesInOrder'
    BY <2>2, <2>8 DEF RepliesInOrder
  <2> QED BY <2>7, <2>9 DEF SendOrder
<1> QED BY <1>2, <1>3 DEF SendItem

(* The item that dts_send_del takes out is still the head of the list. *)
LEMMA DelReplies == ASSUME FInv, SendOrder, Del PROVE SendOrder'
<1> USE DEF pfm
<1>1. UNCHANGED <<answered, cmd, ppc>> /\ lpc = "del" /\ lpc' = "beat" /\ sendLs' = ListDel(item)
  BY DEF Del
<1>2. Len(sendLs) > 0 /\ item = sendLs[1] /\ 1 \in DOMAIN sendLs
  BY <1>1, ReplyNumbers DEF FInv, WorkOk
<1>3. \A i \in DOMAIN sendLs : sendLs[i] = item => i = 1
  <2>1. ASSUME NEW i \in 1..Len(sendLs), 1 < i PROVE sendLs[i] # item
    <3>1. sendLs[1] < sendLs[i]
      BY <1>2, <2>1, ReplyNumbers DEF SendOrder, ReplyOk
    <3> QED BY <1>2, <3>1, ReplyNumbers
  <2> QED BY <2>1, ReplyNumbers
<1>4. /\ Len(sendLs') = Len(sendLs) - 1
      /\ \A i \in 1..Len(sendLs') : i + 1 \in 1..Len(sendLs) /\ sendLs'[i] = sendLs[i + 1]
  <2>1. (CHOOSE i \in DOMAIN sendLs : sendLs[i] = item) = 1
    BY <1>2, <1>3
  <2>2. sendLs' = SubSeq(sendLs, 1, 0) \o SubSeq(sendLs, 2, Len(sendLs))
    <3>1. sendLs' = SubSeq(sendLs, 1, 1 - 1) \o SubSeq(sendLs, 1 + 1, Len(sendLs))
      BY <1>1, <2>1, Zenon DEF ListDel
    <3>2. 1 - 1 = 0 /\ 1 + 1 = 2
      OBVIOUS
    <3> QED BY <3>1, <3>2, Zenon
  <2>3. sendLs \in Seq(Nat) /\ Len(sendLs) \in Nat
    BY ReplyNumbers
  <2>4. SubSeq(sendLs, 1, 0) = <<>> /\ SubSeq(sendLs, 2, Len(sendLs)) \in Seq(Nat)
    BY <2>3
  <2>5. sendLs' = SubSeq(sendLs, 2, Len(sendLs))
    BY <2>2, <2>4, ConcatEmptySeq
  <2>6. CASE Len(sendLs) = 1
    <3>1. sendLs' = <<>>
      BY <2>3, <2>5, <2>6
    <3>2. Len(sendLs') = 0
      BY <3>1
    <3> QED BY <2>6, <3>2
  <2>7. CASE Len(sendLs) >= 2
    <3>1. /\ Len(SubSeq(sendLs, 2, Len(sendLs))) = Len(sendLs) - 1
          /\ \A i \in 1..(Len(sendLs) - 1) : SubSeq(sendLs, 2, Len(sendLs))[i] = sendLs[i + 1]
      BY <2>3, <2>7
    <3>2. \A i \in 1..(Len(sendLs) - 1) : i + 1 \in 1..Len(sendLs)
      BY <2>3
    <3> QED BY <2>5, <3>1, <3>2
  <2>8. Len(sendLs) = 1 \/ Len(sendLs) >= 2
    <3>1. Len(sendLs) \in Nat /\ Len(sendLs) > 0
      BY <1>2, <2>3, Zenon
    <3>2. \A k \in Nat : k > 0 => k = 1 \/ k >= 2
      OBVIOUS
    <3> QED BY <3>1, <3>2, Zenon
  <2> QED BY <2>6, <2>7, <2>8
<1>5. ASSUME NEW i \in 1..Len(sendLs'), NEW j \in 1..Len(sendLs'), i < j
      PROVE  sendLs'[i] < sendLs'[j]
  <2>1. i + 1 < j + 1
    BY <1>5
  <2> QED BY <1>4, <2>1 DEF SendOrder, ReplyOk
<1>6. ASSUME NEW i \in 1..Len(answered), NEW j \in 1..Len(sendLs') PROVE answered[i] < sendLs'[j]
  <2>1. j + 1 > 1
    OBVIOUS
  <2> QED BY <1>4, <2>1 DEF SendOrder, ReplyOk
<1>7. \A i \in 1..Len(sendLs') : sendLs'[i] <= cmd /\ (ppc # "idle" => sendLs'[i] < cmd)
  BY <1>4 DEF SendOrder, ReplyOk
<1>8. ReplyOk'
  BY <1>1, <1>5, <1>6, <1>7 DEF SendOrder, ReplyOk
<1>9. RepliesInOrder'
  BY <1>1, Zenon DEF SendOrder, RepliesInOrder
<1> QED BY <1>8, <1>9 DEF SendOrder

LEMMA NextReplies == ASSUME FInv, PassOk, SendOrder, [Next]_vars PROVE SendOrder'
<1> USE DEF server, pfm, chk
<1>1. CASE Take
  BY <1>1, TakePass, TakeReplies
<1>2. CASE Reply
  BY <1>2, ReplyReplies
<1>3. CASE SendItem
  BY <1>3, SendReplies
<1>4. CASE Del
  BY <1>4, DelReplies
<1>5. CASE Command \/ PeerClose \/ Tick \/ GateFlag \/ GateFields \/ UNCHANGED vars
  <2>1. UNCHANGED <<answered, sendLs, cmd, lpc>> /\ (ppc' # "idle" => ppc # "idle")
    BY <1>5 DEF Command, PeerClose, Tick, GateFlag, GateFields, vars
  <2> QED BY <2>1, KeepReplies
<1>6. CASE Chk
  <2>1. UNCHANGED <<answered, sendLs, cmd, lpc, ppc>>
    BY <1>6 DEF Chk, ChkPoll, ChkClear, ChkRead, ChkAct
  <2> QED BY <2>1, KeepReplies
<1>7. CASE Connect \/ Post \/ Timeout \/ Closed \/ GetHead \/ Beat
  <2>1. UNCHANGED <<answered, sendLs, cmd, ppc>> /\ lpc # "del"
    BY <1>7 DEF Connect, Post, Timeout, Closed, GetHead, Beat
  <2> QED BY <2>1, KeepReplies
<1>8. CASE \E n \in 1..Len(stream) : Recv(n)
  <2>1. UNCHANGED <<answered, sendLs, cmd, ppc>> /\ lpc # "del"
    BY <1>8 DEF Recv
  <2> QED BY <2>1, KeepReplies
<1> QED BY <1>1, <1>2, <1>3, <1>4, <1>5, <1>6, <1>7, <1>8, Zenon DEF Next, Link, Pfm

(* The replies reach the server in the order of its commands, each at most *)
(* once, however connections and threads interleave: a command never       *)
(* overtakes another on its way through stream, dts_recv, queue and list.  *)
THEOREM RepliesAreInOrder == Spec => []RepliesInOrder
<1>1. Init => RInv
  <2> SUFFICES ASSUME Init PROVE RInv
    OBVIOUS
  <2>1. FInv
    BY InitF
  <2>2. PassOk
    BY DEF Init, PassOk
  <2>3. ReplyOk
    BY DEF Init, ReplyOk
  <2>4. RepliesInOrder
    BY DEF Init, RepliesInOrder
  <2> QED BY <2>1, <2>2, <2>3, <2>4 DEF RInv
<1>2. RInv /\ [Next]_vars => RInv'
  BY NextF, NextPass, NextReplies, Zenon DEF RInv, SendOrder
<1>3. RInv => RepliesInOrder
  BY DEF RInv
<1> QED BY <1>1, <1>2, <1>3, PTL DEF Spec
=============================================================================
