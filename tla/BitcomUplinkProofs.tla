------------------------- MODULE BitcomUplinkProofs -------------------------
(* Theorems about BitcomUplink, for any number of records and commands and *)
(* any length of the queue.                                                *)
EXTENDS BitcomUplink, SequenceTheorems, TLAPS

(* What the two senders hold, and how a record they are done with stands.  *)
Held ==
  /\ pc["pfm"] = "idle" => msg["pfm"] = NoMsg
  /\ \A r \in full : pc["pfm"] = "done" /\ msg["pfm"] = Record(r)
                       => r \in reported \union table \union lost
  /\ pc["resend"] # "idle" => \E r \in Recs : msg["resend"] = Record(r)
  /\ \A r \in Recs : pc["resend"] = "done" /\ msg["resend"] = Record(r) => r \in reported
  /\ full \subseteq 1..made /\ (dpc = "post" => made \in Recs)
  /\ \A r \in Recs : InQueue(r) \/ msg["pfm"] = Record(r) => r <= made

IInv == TypeOK /\ Held /\ FullAccounted

(* A record of the queue is told from the other messages. *)
LEMMA MessageFacts ==
  /\ \A r : Record(r).func = "record" /\ Record(r).n = r
  /\ \A n : Control(n).func = "control" /\ Control(n).n = n
  /\ Beat.func = "heartbeat" /\ NoMsg.func = "none"
  /\ \A r \in Recs : Record(r) \in Messages
  /\ \A n \in 1..MaxControl : Control(n) \in Messages
  /\ Beat \in Messages
  /\ \A m \in Messages : m.func = "record" => m.n \in Recs /\ m = Record(m.n)
  /\ \A m \in Messages : m.func = "control" => m.n \in 1..MaxControl
  /\ NoMsg \notin Messages
<1>1. /\ \A r : Record(r).func = "record" /\ Record(r).n = r
      /\ \A n : Control(n).func = "control" /\ Control(n).n = n
      /\ Beat.func = "heartbeat" /\ NoMsg.func = "none"
  BY DEF Record, Control, Beat, NoMsg
<1>2. ASSUME NEW m \in Messages
      PROVE  \/ \E r \in Recs : m = Record(r)
             \/ \E n \in 1..MaxControl : m = Control(n)
             \/ m = Beat
  BY DEF Messages
<1>3. /\ \A r \in Recs : Record(r) \in Messages
      /\ \A n \in 1..MaxControl : Control(n) \in Messages
      /\ Beat \in Messages
  BY DEF Messages
<1>4. \A m \in Messages : m.func = "record" => m.n \in Recs /\ m = Record(m.n)
  BY <1>1, <1>2
<1>5. \A m \in Messages : m.func = "control" => m.n \in 1..MaxControl
  BY <1>1, <1>2
<1>6. NoMsg \notin Messages
  BY <1>1, <1>2
<1> QED BY <1>1, <1>3, <1>4, <1>5, <1>6

LEMMA InitInv == Init => IInv
<1> SUFFICES ASSUME Init PROVE IInv
  OBVIOUS
<1>1. TypeOK
  <2>1. queue \in Seq(Messages) /\ Len(queue) = 0
    BY EmptySeq DEF Init
  <2>2. /\ made \in 0..MaxRec /\ controls \in 0..MaxControl /\ tries \in 0..2
        /\ Len(queue) <= QueueMax
    BY <2>1, BoundsAssumption DEF Init
  <2>3. /\ pc \in [Threads -> {"idle", "send", "sent", "wait", "failed", "done"}]
        /\ msg \in [Threads -> Messages \union {NoMsg}]
    BY DEF Init
  <2>4. /\ full \subseteq Recs /\ handled \subseteq 1..MaxControl
        /\ table \subseteq full /\ reported \subseteq Recs /\ lost \subseteq full
        /\ refused \subseteq full
    BY DEF Init
  <2>5. /\ dpc \in {"idle", "post", "ftp"}
        /\ sock \in BOOLEAN /\ alive \in BOOLEAN /\ rcvd \in BOOLEAN
    BY Zenon DEF Init
  <2> QED BY <2>1, <2>2, <2>3, <2>4, <2>5, Zenon DEF TypeOK
<1>2. Held
  <2>1. \A r : ~InQueue(r)
    BY DEF Init, InQueue
  <2>2. \A r \in Recs : NoMsg # Record(r)
    BY MessageFacts
  <2> QED BY <2>1, <2>2 DEF Init, Held, Threads
<1>3. FullAccounted
  BY DEF Init, FullAccounted
<1> QED BY <1>1, <1>2, <1>3 DEF IInv

(* Appending a message adds it to the ones that wait. *)
LEMMA AppendKeeps ==
  ASSUME NEW q \in Seq(Messages), NEW m \in Messages, NEW x
  PROVE  /\ Append(q, m) \in Seq(Messages)
         /\ Len(Append(q, m)) = Len(q) + 1
         /\ (\E i \in DOMAIN Append(q, m) : Append(q, m)[i] = x)
              <=> x = m \/ \E i \in DOMAIN q : q[i] = x
<1>1. /\ Append(q, m) \in Seq(Messages) /\ Len(Append(q, m)) = Len(q) + 1
      /\ DOMAIN q = 1..Len(q) /\ DOMAIN Append(q, m) = 1..(Len(q) + 1)
      /\ Len(q) \in Nat
      /\ \A i \in 1..Len(q) : Append(q, m)[i] = q[i]
      /\ Append(q, m)[Len(q) + 1] = m
  OBVIOUS
<1>2. (\E i \in 1..Len(q) : q[i] = x) => \E i \in 1..(Len(q) + 1) : Append(q, m)[i] = x
  BY <1>1
<1>3. x = m => \E i \in 1..(Len(q) + 1) : Append(q, m)[i] = x
  BY <1>1
<1>4. ASSUME NEW i \in 1..(Len(q) + 1), Append(q, m)[i] = x
      PROVE  x = m \/ \E j \in 1..Len(q) : q[j] = x
  <2>1. i \in 1..Len(q) \/ i = Len(q) + 1
    BY <1>1
  <2> QED BY <1>1, <1>4, <2>1
<1> QED BY <1>1, <1>2, <1>3, <1>4

(* Taking the first message leaves the others. *)
LEMMA TailKeeps ==
  ASSUME NEW q \in Seq(Messages), q # <<>>, NEW x
  PROVE  /\ Tail(q) \in Seq(Messages) /\ Len(Tail(q)) <= Len(q)
         /\ Head(q) \in Messages
         /\ (\E i \in DOMAIN q : q[i] = x)
              <=> Head(q) = x \/ \E i \in DOMAIN Tail(q) : Tail(q)[i] = x
<1>1. /\ Tail(q) \in Seq(Messages) /\ Len(Tail(q)) = Len(q) - 1 /\ Head(q) \in Messages
      /\ Head(q) = q[1] /\ Len(q) \in Nat \ {0}
      /\ DOMAIN q = 1..Len(q) /\ DOMAIN Tail(q) = 1..(Len(q) - 1)
      /\ \A i \in 1..(Len(q) - 1) : Tail(q)[i] = q[i + 1]
  BY HeadTailProperties, EmptySeq
<1>2. ASSUME NEW i \in DOMAIN q, q[i] = x, Head(q) # x
      PROVE  \E j \in DOMAIN Tail(q) : Tail(q)[j] = x
  <2>1. i - 1 \in 1..(Len(q) - 1) /\ (i - 1) + 1 = i
    BY <1>1, <1>2
  <2>2. Tail(q)[i - 1] = x
    BY <1>1, <1>2, <2>1
  <2> QED BY <1>1, <2>1, <2>2
<1>3. ASSUME NEW j \in DOMAIN Tail(q), Tail(q)[j] = x
      PROVE  \E i \in DOMAIN q : q[i] = x
  <2>1. j + 1 \in DOMAIN q /\ q[j + 1] = x
    BY <1>1, <1>3
  <2> QED BY <2>1
<1>4. Head(q) = x => \E i \in DOMAIN q : q[i] = x
  <2>1. 1 \in DOMAIN q /\ Head(q) = q[1]
    BY <1>1
  <2> QED BY <2>1
<1> QED BY <1>1, <1>2, <1>3, <1>4

(* The connection is not part of the invariant. *)
LEMMA LinkInv == IInv /\ (Connect \/ Receive \/ Close \/ Drop) => IInv'
<1> SUFFICES ASSUME IInv, Connect \/ Receive \/ Close \/ Drop PROVE IInv'
  OBVIOUS
<1>1. UNCHANGED <<records, queue, controls, senders, outcome>>
  BY Zenon DEF Connect, Receive, Close, Drop
<1>2. sock' \in BOOLEAN /\ alive' \in BOOLEAN /\ rcvd' \in BOOLEAN
  BY Zenon DEF Connect, Receive, Close, Drop, IInv, TypeOK
<1>3. UNCHANGED <<full, made, dpc, queue, controls, pc, msg, tries, handled, table, reported, lost, refused>>
  BY <1>1 DEF records, senders, outcome
<1>4. TypeOK'
  BY <1>2, <1>3, Zenon DEF IInv, TypeOK
<1>5. Held'
  BY <1>3 DEF IInv, Held, InQueue
<1>6. FullAccounted'
  BY <1>3 DEF IInv, FullAccounted, InQueue
<1> QED BY <1>4, <1>5, <1>6 DEF IInv

(* The result thread: a new record, its message in the queue, its picture. *)
LEMMA ResultInv == IInv /\ (Simple \/ Full \/ Post \/ Refuse \/ FtpPicture) => IInv'
<1> SUFFICES ASSUME IInv, Simple \/ Full \/ Post \/ Refuse \/ FtpPicture PROVE IInv'
  OBVIOUS
<1>0. MaxRec \in Nat /\ made \in 0..MaxRec
  BY BoundsAssumption DEF IInv, TypeOK
<1>1. UNCHANGED <<controls, link, senders, outcome>>
  BY Zenon DEF Simple, Full, Post, Refuse, FtpPicture
<1>2. UNCHANGED <<controls, sock, alive, rcvd, pc, msg, tries, handled, table, reported, lost>>
  BY <1>1 DEF link, senders, outcome
<1>3. CASE Simple \/ Full
  <2>1. /\ dpc = "idle" /\ dpc' = "post" /\ made' = made + 1 /\ made + 1 \in Recs
        /\ queue' = queue /\ refused' = refused
        /\ full' = full \/ full' = full \union {made + 1}
    BY <1>0, <1>3 DEF Simple, Full, Recs
  <2>2. TypeOK'
    <3>1. made' \in 0..MaxRec
      BY <1>0, <2>1 DEF Recs
    <3>2. /\ full' \subseteq Recs /\ table' \subseteq full' /\ lost' \subseteq full'
          /\ refused' \subseteq full'
      BY <1>2, <2>1 DEF IInv, TypeOK
    <3> QED BY <1>2, <2>1, <3>1, <3>2, Zenon DEF IInv, TypeOK
  <2>3. Held'
    <3>0. full \subseteq 1..made
      BY DEF IInv, Held
    <3>1. full' \subseteq 1..made'
      <4>1. 1..made \subseteq 1..(made + 1) /\ made + 1 \in 1..(made + 1)
        BY <1>0
      <4>2. full' \subseteq 1..(made + 1)
        BY <2>1, <3>0, <4>1, Zenon
      <4> QED BY <2>1, <4>2, Zenon
    <3>2. ASSUME NEW r \in full', pc["pfm"] = "done", msg["pfm"] = Record(r)
          PROVE  r \in reported \union table \union lost
      <4>1. CASE r \in full
        BY <3>2, <4>1 DEF IInv, Held
      <4>2. CASE r = made + 1
        <5>1. FALSE
          BY <1>0, <2>1, <3>2, <4>2 DEF IInv, Held
        <5> QED BY <5>1
      <4> QED BY <2>1, <4>1, <4>2
    <3>3. \A r \in Recs : InQueue(r)' \/ msg["pfm"] = Record(r) => r <= made'
      BY <1>0, <2>1 DEF IInv, Held, InQueue, Recs
    <3> QED BY <1>2, <2>1, <3>1, <3>2, <3>3 DEF IInv, Held
  <2>4. FullAccounted'
    BY <1>2, <2>1 DEF IInv, FullAccounted, InQueue
  <2> QED BY <2>2, <2>3, <2>4 DEF IInv
<1>4. CASE Post
  <2>1. /\ dpc = "post" /\ dpc' \in {"ftp", "idle"} /\ full' = full /\ made' = made
        /\ refused' = refused
        /\ queue' = Append(queue, Record(made)) /\ Len(queue) < QueueMax
    BY <1>4 DEF Post, Posted, QueueRoom
  <2>2. made \in Recs
    BY <2>1 DEF IInv, Held
  <2>3. queue \in Seq(Messages) /\ Record(made) \in Messages
    BY <2>2, MessageFacts DEF IInv, TypeOK
  <2>4. \A r : InQueue(r)' <=> Record(r) = Record(made) \/ InQueue(r)
    BY <2>1, <2>3, AppendKeeps DEF InQueue
  <2>5. \A r : Record(r) = Record(made) <=> r = made
    BY MessageFacts
  <2>6. TypeOK'
    <3>1. queue' \in Seq(Messages) /\ Len(queue') <= QueueMax
      <4>1. Len(queue) \in Nat /\ QueueMax \in Nat
        BY <2>3, BoundsAssumption
      <4>2. queue' \in Seq(Messages) /\ Len(queue') = Len(queue) + 1
        BY <2>1, <2>3, AppendKeeps
      <4> QED BY <2>1, <4>1, <4>2
    <3> QED BY <1>2, <2>1, <3>1, Zenon DEF IInv, TypeOK
  <2>7. Held'
    <3>1. \A r \in Recs : InQueue(r)' \/ msg["pfm"] = Record(r) => r <= made
      BY <1>0, <2>4, <2>5 DEF IInv, Held
    <3> QED BY <1>2, <2>1, <3>1 DEF IInv, Held
  <2>8. FullAccounted'
    BY <1>2, <2>1, <2>4 DEF IInv, FullAccounted
  <2> QED BY <2>6, <2>7, <2>8 DEF IInv
<1>5. CASE Refuse
  <2>1. /\ dpc = "post" /\ dpc' \in {"ftp", "idle"} /\ full' = full /\ made' = made
        /\ queue' = queue /\ refused' = refused \union ({made} \intersect full)
    BY <1>5 DEF Refuse, Posted
  <2>2. TypeOK'
    <3>1. refused' \subseteq full'
      BY <2>1 DEF IInv, TypeOK
    <3> QED BY <1>2, <2>1, <3>1, Zenon DEF IInv, TypeOK
  <2>3. Held'
    BY <1>2, <2>1 DEF IInv, Held, InQueue
  <2>4. FullAccounted'
    BY <1>2, <2>1 DEF IInv, FullAccounted, InQueue
  <2> QED BY <2>2, <2>3, <2>4 DEF IInv
<1>6. CASE FtpPicture
  <2>1. /\ dpc = "ftp" /\ dpc' = "idle" /\ full' = full /\ made' = made
        /\ queue' = queue /\ refused' = refused
    BY <1>6 DEF FtpPicture
  <2>2. TypeOK'
    BY <1>2, <2>1, Zenon DEF IInv, TypeOK
  <2>3. Held'
    BY <1>2, <2>1 DEF IInv, Held, InQueue
  <2>4. FullAccounted'
    BY <1>2, <2>1 DEF IInv, FullAccounted, InQueue
  <2> QED BY <2>2, <2>3, <2>4 DEF IInv
<1> QED BY <1>3, <1>4, <1>5, <1>6

(* The other threads that fill the queue. *)
LEMMA PostInv == IInv /\ (PostControl \/ PostBeat) => IInv'
<1> SUFFICES ASSUME IInv, PostControl \/ PostBeat PROVE IInv'
  OBVIOUS
<1>1. UNCHANGED <<full, made, dpc, sock, alive, rcvd, pc, msg, tries, handled, table, reported, lost, refused>>
  BY DEF PostControl, PostBeat, records, link, senders, outcome
<1>2. /\ Len(queue) < QueueMax
      /\ \/ /\ queue' = Append(queue, Control(controls + 1)) /\ controls < MaxControl
            /\ controls' = controls + 1
         \/ queue' = Append(queue, Beat) /\ controls' = controls
  BY DEF PostControl, PostBeat, QueueRoom
<1>3. controls' \in 0..MaxControl
  BY <1>2, BoundsAssumption DEF IInv, TypeOK
<1>4. PICK m \in Messages : m.func # "record" /\ queue' = Append(queue, m)
  <2>1. CASE queue' = Append(queue, Beat)
    BY <2>1, MessageFacts
  <2>2. CASE queue' = Append(queue, Control(controls + 1)) /\ controls < MaxControl
    <3>1. controls + 1 \in 1..MaxControl
      BY <2>2, BoundsAssumption DEF IInv, TypeOK
    <3> QED BY <2>2, <3>1, MessageFacts
  <2> QED BY <1>2, <2>1, <2>2
<1>5. queue \in Seq(Messages) /\ Len(queue) \in Nat /\ QueueMax \in Nat
  BY BoundsAssumption DEF IInv, TypeOK
<1>6. queue' \in Seq(Messages) /\ Len(queue') <= QueueMax
  <2>1. queue' \in Seq(Messages) /\ Len(queue') = Len(queue) + 1
    BY <1>4, <1>5, AppendKeeps
  <2> QED BY <1>2, <1>5, <2>1
<1>7. \A r : InQueue(r)' <=> InQueue(r)
  <2>1. \A r : Record(r) # m
    BY <1>4, MessageFacts
  <2> QED BY <1>4, <1>5, <2>1, AppendKeeps DEF InQueue
<1>8. TypeOK'
  BY <1>1, <1>3, <1>6, Zenon DEF IInv, TypeOK
<1>9. Held'
  BY <1>1, <1>7 DEF IInv, Held
<1>10. FullAccounted'
  BY <1>1, <1>7 DEF IInv, FullAccounted
<1> QED BY <1>8, <1>9, <1>10 DEF IInv

(* The steps of send_s, of either thread. *)
LEMMA SendInv ==
  ASSUME IInv, NEW t \in Threads, Send(t) \/ Clear(t) \/ Wait(t)
  PROVE  IInv'
<1>1. UNCHANGED <<full, made, dpc, queue, controls, sock, alive, msg, tries, handled, table, lost, refused>>
  BY DEF Send, Clear, Wait, records, link, outcome
<1>2. PICK x \in {"sent", "failed", "wait", "done"} :
        pc[t] \in {"send", "sent", "wait"} /\ pc' = [pc EXCEPT ![t] = x]
  BY DEF Send, Clear, Wait
<1>3. rcvd' \in BOOLEAN
  BY Zenon DEF Send, Clear, Wait, link, IInv, TypeOK
<1>4. /\ reported \subseteq reported'
      /\ reported' = reported \/ (msg[t].func = "record" /\ reported' = reported \union {msg[t].n})
  BY DEF Send, Clear, Wait, outcome
<1>5. x = "done" => (msg[t].func = "record" => msg[t].n \in reported')
  BY <1>2 DEF Send, Clear, Wait, IInv, TypeOK
<1>6. /\ pc \in [Threads -> {"idle", "send", "sent", "wait", "failed", "done"}]
      /\ msg \in [Threads -> Messages \union {NoMsg}]
  BY DEF IInv, TypeOK
<1>7. msg[t].func = "record" => msg[t].n \in Recs
  BY <1>6, MessageFacts
<1>8. reported' \subseteq Recs
  BY <1>4, <1>7 DEF IInv, TypeOK
<1>9. /\ pc' \in [Threads -> {"idle", "send", "sent", "wait", "failed", "done"}]
      /\ pc'[t] = x /\ x # "idle" /\ pc[t] # "idle"
      /\ \A u \in Threads : u # t => pc'[u] = pc[u]
  BY <1>2, <1>6
<1>10. TypeOK'
  BY <1>1, <1>3, <1>8, <1>9, Zenon DEF IInv, TypeOK
<1>11. "pfm" \in Threads /\ "resend" \in Threads
  BY DEF Threads
<1>12. \A r : pc'["pfm"] = "done" /\ msg["pfm"] = Record(r) /\ r \in full
               => r \in reported' \union table \union lost
  <2>1. CASE t = "pfm"
    BY <1>5, <1>9, <2>1, MessageFacts
  <2>2. CASE t # "pfm"
    BY <1>4, <1>9, <1>11, <2>2 DEF IInv, Held
  <2> QED BY <2>1, <2>2
<1>13. \A r \in Recs : pc'["resend"] = "done" /\ msg["resend"] = Record(r) => r \in reported'
  <2>1. CASE t = "resend"
    BY <1>5, <1>9, <2>1, MessageFacts
  <2>2. CASE t # "resend"
    BY <1>4, <1>9, <1>11, <2>2 DEF IInv, Held
  <2> QED BY <2>1, <2>2
<1>14. /\ pc'["pfm"] = "idle" => pc["pfm"] = "idle"
       /\ pc'["resend"] # "idle" => pc["resend"] # "idle"
  BY <1>9, <1>11
<1>15. Held'
  BY <1>1, <1>12, <1>13, <1>14 DEF IInv, Held, InQueue
<1>16. FullAccounted'
  BY <1>1, <1>4 DEF IInv, FullAccounted, InQueue
<1> QED BY <1>10, <1>15, <1>16 DEF IInv

(* pfm_thread takes a message: a record moves from the queue to the thread. *)
LEMMA TakeInv == IInv /\ Take => IInv'
<1> SUFFICES ASSUME IInv, Take PROVE IInv'
  OBVIOUS
<1>1. UNCHANGED <<full, made, dpc, controls, sock, alive, rcvd, table, reported, lost, refused>>
  BY DEF Take, records, link, outcome
<1>2. queue # <<>> /\ queue' = Tail(queue) /\ tries' = 0 /\ pc["pfm"] = "idle"
  BY DEF Take
<1>3. \/ /\ Head(queue).func = "control" /\ handled' = handled \union {Head(queue).n}
         /\ msg' = msg /\ pc' = pc
      \/ /\ handled' = handled /\ msg' = [msg EXCEPT !["pfm"] = Head(queue)]
         /\ pc' = [pc EXCEPT !["pfm"] = "send"]
  BY DEF Take
<1>4. /\ queue \in Seq(Messages) /\ Len(queue) <= QueueMax
      /\ pc \in [Threads -> {"idle", "send", "sent", "wait", "failed", "done"}]
      /\ msg \in [Threads -> Messages \union {NoMsg}]
      /\ "pfm" \in Threads /\ "resend" \in Threads
  BY DEF IInv, TypeOK, Threads
<1>5. Tail(queue) \in Seq(Messages) /\ Len(Tail(queue)) <= Len(queue) /\ Head(queue) \in Messages
  BY <1>2, <1>4, TailKeeps
<1>6. ASSUME NEW r
      PROVE  InQueue(r) <=> Head(queue) = Record(r) \/ InQueue(r)'
  <2>1. (\E i \in DOMAIN queue : queue[i] = Record(r))
          <=> Head(queue) = Record(r) \/ \E i \in DOMAIN Tail(queue) : Tail(queue)[i] = Record(r)
    BY <1>2, <1>4, TailKeeps, Zenon
  <2>2. InQueue(r)' <=> \E i \in DOMAIN Tail(queue) : Tail(queue)[i] = Record(r)
    BY <1>2, Zenon DEF InQueue
  <2> QED BY <2>1, <2>2, Zenon DEF InQueue
<1>7. TypeOK'
  <2>1. queue' \in Seq(Messages) /\ Len(queue') <= QueueMax
    BY <1>2, <1>4, <1>5, BoundsAssumption
  <2>2. handled' \subseteq 1..MaxControl
    <3>1. Head(queue).func = "control" => Head(queue).n \in 1..MaxControl
      BY <1>5, MessageFacts, Zenon
    <3> QED BY <1>3, <3>1, Zenon DEF IInv, TypeOK
  <2>3. /\ pc' \in [Threads -> {"idle", "send", "sent", "wait", "failed", "done"}]
        /\ msg' \in [Threads -> Messages \union {NoMsg}]
    BY <1>3, <1>4, <1>5
  <2>4. tries' \in 0..2
    BY <1>2
  <2> QED BY <1>1, <2>1, <2>2, <2>3, <2>4, Zenon DEF IInv, TypeOK
<1>8. msg["pfm"] = NoMsg /\ \A r : NoMsg # Record(r)
  BY <1>2, MessageFacts DEF IInv, Held
<1>9. /\ pc'["pfm"] = "idle" => msg'["pfm"] = NoMsg
      /\ pc'["pfm"] # "done"
      /\ pc'["resend"] = pc["resend"] /\ msg'["resend"] = msg["resend"]
  <2>1. CASE msg' = msg /\ pc' = pc
    BY <1>2, <1>8, <2>1
  <2>2. CASE /\ msg' = [msg EXCEPT !["pfm"] = Head(queue)]
             /\ pc' = [pc EXCEPT !["pfm"] = "send"]
    BY <1>4, <2>2
  <2> QED BY <1>3, <2>1, <2>2
<1>10. \A r : InQueue(r)' \/ msg'["pfm"] = Record(r) <=> InQueue(r) \/ msg["pfm"] = Record(r)
  <2>1. CASE Head(queue).func = "control" /\ msg' = msg
    <3>1. \A r : Head(queue) # Record(r)
      BY <2>1, MessageFacts
    <3> QED BY <1>6, <2>1, <3>1
  <2>2. CASE msg' = [msg EXCEPT !["pfm"] = Head(queue)]
    <3>1. msg'["pfm"] = Head(queue)
      BY <1>4, <2>2
    <3> QED BY <1>6, <1>8, <3>1
  <2> QED BY <1>3, <2>1, <2>2
<1>11. Held'
  BY <1>1, <1>9, <1>10 DEF IInv, Held
<1>12. FullAccounted'
  BY <1>1, <1>10 DEF IInv, FullAccounted
<1> QED BY <1>7, <1>11, <1>12 DEF IInv

(* A failed record is tried again. *)
LEMMA RetryInv == IInv /\ Retry => IInv'
<1> SUFFICES ASSUME IInv, Retry PROVE IInv'
  OBVIOUS
<1>1. UNCHANGED <<full, made, dpc, queue, controls, sock, alive, rcvd, msg, handled, table, reported, lost, refused>>
  BY DEF Retry, records, link, outcome
<1>2. tries < 2 /\ tries' = tries + 1 /\ pc' = [pc EXCEPT !["pfm"] = "send"]
  BY DEF Retry, MoreTries
<1>3. /\ tries' \in 0..2
      /\ pc' \in [Threads -> {"idle", "send", "sent", "wait", "failed", "done"}]
      /\ pc'["pfm"] = "send" /\ pc'["resend"] = pc["resend"]
  BY <1>2 DEF IInv, TypeOK, Threads
<1>4. TypeOK'
  BY <1>1, <1>3, Zenon DEF IInv, TypeOK
<1>5. Held'
  BY <1>1, <1>3 DEF IInv, Held, InQueue
<1>6. FullAccounted'
  BY <1>1 DEF IInv, FullAccounted, InQueue
<1> QED BY <1>4, <1>5, <1>6 DEF IInv

(* After the last attempt a full record is in the table or given up. *)
LEMMA GiveUpInv == IInv /\ (GiveUp \/ NoText) => IInv'
<1> SUFFICES ASSUME IInv, GiveUp \/ NoText PROVE IInv'
  OBVIOUS
<1> DEFINE m == msg["pfm"]
<1>1. UNCHANGED <<full, made, dpc, queue, controls, sock, alive, rcvd, msg, tries, handled, reported, refused>>
  BY DEF GiveUp, NoText, records, link
<1>2. pc' = [pc EXCEPT !["pfm"] = "done"]
  BY DEF GiveUp, NoText
<1>3. /\ table \union lost \subseteq table' \union lost'
      /\ m.func = "record" /\ m.n \in full => m.n \in table' \union lost'
      /\ table' \union lost' \subseteq table \union lost \union full
  BY DEF GiveUp, NoText, Keeps
<1>4. /\ pc' \in [Threads -> {"idle", "send", "sent", "wait", "failed", "done"}]
      /\ pc'["pfm"] = "done" /\ pc'["resend"] = pc["resend"]
  BY <1>2 DEF IInv, TypeOK, Threads
<1>5. TypeOK'
  <2>1. table' \subseteq full /\ lost' \subseteq full
    BY <1>3 DEF IInv, TypeOK
  <2> QED BY <1>1, <1>4, <2>1, Zenon DEF IInv, TypeOK
<1>6. \A r \in full : m = Record(r) => r \in reported \union table' \union lost'
  BY <1>3, MessageFacts
<1>7. Held'
  BY <1>1, <1>4, <1>6 DEF IInv, Held, InQueue
<1>8. FullAccounted'
  BY <1>1, <1>3 DEF IInv, FullAccounted, InQueue
<1> QED BY <1>5, <1>7, <1>8 DEF IInv

(* pfm_thread is done with its message. *)
LEMMA FinishInv == IInv /\ Finish => IInv'
<1> SUFFICES ASSUME IInv, Finish PROVE IInv'
  OBVIOUS
<1>1. UNCHANGED <<full, made, dpc, queue, controls, sock, alive, rcvd, tries, handled, table, reported, lost, refused>>
  BY DEF Finish, records, link, outcome
<1>2. /\ pc["pfm"] = "done" /\ pc' = [pc EXCEPT !["pfm"] = "idle"]
      /\ msg' = [msg EXCEPT !["pfm"] = NoMsg]
  BY DEF Finish
<1>3. /\ pc' \in [Threads -> {"idle", "send", "sent", "wait", "failed", "done"}]
      /\ msg' \in [Threads -> Messages \union {NoMsg}]
      /\ pc'["pfm"] = "idle" /\ pc'["resend"] = pc["resend"]
      /\ msg'["pfm"] = NoMsg /\ msg'["resend"] = msg["resend"]
  BY <1>2 DEF IInv, TypeOK, Threads
<1>4. TypeOK'
  BY <1>1, <1>3, Zenon DEF IInv, TypeOK
<1>5. \A r : NoMsg # Record(r)
  BY MessageFacts
<1>6. Held'
  BY <1>1, <1>3, <1>5 DEF IInv, Held, InQueue
<1>7. FullAccounted'
  BY <1>1, <1>2, <1>3, <1>5 DEF IInv, FullAccounted, Held, InQueue
<1> QED BY <1>4, <1>6, <1>7 DEF IInv

(* The retransmission thread takes a row ... *)
LEMMA PickInv == IInv /\ Pick => IInv'
<1> SUFFICES ASSUME IInv, Pick PROVE IInv'
  OBVIOUS
<1>1. UNCHANGED <<full, made, dpc, queue, controls, sock, alive, rcvd, tries, handled, table, reported, lost, refused>>
  BY DEF Pick, records, link, outcome
<1>2. PICK r \in table : /\ msg' = [msg EXCEPT !["resend"] = Record(r)]
                        /\ pc' = [pc EXCEPT !["resend"] = "send"]
  BY DEF Pick
<1>3. r \in Recs /\ Record(r) \in Messages
  BY MessageFacts DEF IInv, TypeOK
<1>4. /\ pc' \in [Threads -> {"idle", "send", "sent", "wait", "failed", "done"}]
      /\ msg' \in [Threads -> Messages \union {NoMsg}]
      /\ pc'["pfm"] = pc["pfm"] /\ pc'["resend"] = "send"
      /\ msg'["pfm"] = msg["pfm"] /\ msg'["resend"] = Record(r)
  BY <1>2, <1>3 DEF IInv, TypeOK, Threads
<1>5. TypeOK'
  BY <1>1, <1>4, Zenon DEF IInv, TypeOK
<1>6. Held'
  BY <1>1, <1>3, <1>4 DEF IInv, Held, InQueue
<1>7. FullAccounted'
  BY <1>1, <1>4 DEF IInv, FullAccounted, InQueue
<1> QED BY <1>5, <1>6, <1>7 DEF IInv

(* ... or deletes one it cannot read. *)
LEMMA UnreadableInv == IInv /\ Unreadable => IInv'
<1> SUFFICES ASSUME IInv, Unreadable PROVE IInv'
  OBVIOUS
<1>1. UNCHANGED <<full, made, dpc, queue, controls, sock, alive, rcvd, pc, msg, tries, handled, reported, refused>>
  BY DEF Unreadable, records, link, senders
<1>2. table' \union lost' = table \union lost /\ table' \subseteq table
  BY DEF Unreadable
<1>3. TypeOK'
  <2>1. table' \subseteq full /\ lost' \subseteq full
    BY <1>2 DEF IInv, TypeOK
  <2> QED BY <1>1, <2>1, Zenon DEF IInv, TypeOK
<1>4. Held'
  BY <1>1, <1>2 DEF IInv, Held, InQueue
<1>5. FullAccounted'
  BY <1>1, <1>2 DEF IInv, FullAccounted, InQueue
<1> QED BY <1>3, <1>4, <1>5 DEF IInv

(* The round ends: only a row that counts as sent is deleted. *)
LEMMA RoundOverInv == IInv /\ RoundOver => IInv'
<1> SUFFICES ASSUME IInv, RoundOver PROVE IInv'
  OBVIOUS
<1>1. UNCHANGED <<full, made, dpc, queue, controls, sock, alive, rcvd, tries, handled, reported, lost, refused>>
  BY DEF RoundOver, records, link
<1>2. /\ pc["resend"] # "idle"
      /\ pc' = [pc EXCEPT !["resend"] = "idle"] /\ msg' = [msg EXCEPT !["resend"] = NoMsg]
      /\ table' = table \/ (pc["resend"] = "done" /\ table' = table \ {msg["resend"].n})
  BY DEF RoundOver, Unlocked
<1>3. PICK r \in Recs : msg["resend"] = Record(r)
  BY <1>2 DEF IInv, Held
<1>4. table' \subseteq table /\ table \subseteq table' \union reported
  BY <1>2, <1>3, MessageFacts DEF IInv, Held
<1>5. /\ pc' \in [Threads -> {"idle", "send", "sent", "wait", "failed", "done"}]
      /\ msg' \in [Threads -> Messages \union {NoMsg}]
      /\ pc'["pfm"] = pc["pfm"] /\ pc'["resend"] = "idle" /\ msg'["pfm"] = msg["pfm"]
  BY <1>2 DEF IInv, TypeOK, Threads
<1>6. TypeOK'
  <2>1. table' \subseteq full
    BY <1>4 DEF IInv, TypeOK
  <2> QED BY <1>1, <1>5, <2>1, Zenon DEF IInv, TypeOK
<1>7. Held'
  BY <1>1, <1>4, <1>5 DEF IInv, Held, InQueue
<1>8. FullAccounted'
  BY <1>1, <1>4, <1>5 DEF IInv, FullAccounted, InQueue
<1> QED BY <1>6, <1>7, <1>8 DEF IInv

LEMMA StutterInv == IInv /\ UNCHANGED vars => IInv'
<1> SUFFICES ASSUME IInv, UNCHANGED vars PROVE IInv'
  OBVIOUS
<1>1. UNCHANGED <<full, made, dpc, queue, controls, sock, alive, rcvd, pc, msg, tries, handled,
                  table, reported, lost, refused>>
  BY DEF vars, records, link, senders, outcome
<1>2. TypeOK'
  BY <1>1, Zenon DEF IInv, TypeOK
<1>3. Held'
  BY <1>1 DEF IInv, Held, InQueue
<1>4. FullAccounted'
  BY <1>1 DEF IInv, FullAccounted, InQueue
<1> QED BY <1>2, <1>3, <1>4 DEF IInv

LEMMA Inductive == Spec => []IInv
<1>1. IInv /\ [Next]_vars => IInv'
  <2> SUFFICES ASSUME IInv, [Next]_vars PROVE IInv'
    OBVIOUS
  <2>1. "pfm" \in Threads /\ "resend" \in Threads
    BY DEF Threads
  <2>2. CASE PfmStep \/ GiveUp \/ NoText
    BY <2>1, <2>2, SendInv, TakeInv, RetryInv, GiveUpInv, FinishInv, Zenon DEF PfmStep
  <2>3. CASE ResendStep \/ Pick \/ Unreadable
    BY <2>1, <2>3, SendInv, PickInv, UnreadableInv, RoundOverInv, Zenon DEF ResendStep
  <2> QED BY <2>2, <2>3, LinkInv, ResultInv, PostInv, StutterInv, Zenon DEF Next
<1> QED BY InitInv, <1>1, PTL DEF Spec

(* The threads, the queue and the table keep their types: at most three    *)
(* attempts for a record, and only full records in the table (pfm_thread). *)
THEOREM UplinkTypeCorrect == Spec => []TypeOK
<1>1. IInv => TypeOK
  BY DEF IInv
<1> QED BY Inductive, <1>1, PTL

(* No full record that got into the queue is just gone, and one that did   *)
(* not was refused there by malloc or msgsnd: for any number of records,   *)
(* any length of the queue and any behaviour of the connection             *)
(* (platform_send_rg_records, pfm_thread, send_s, http_resend_pthread).    *)
THEOREM FullRecordsAccounted == Spec => []FullAccounted
<1>1. IInv => FullAccounted
  BY DEF IInv
<1> QED BY Inductive, <1>1, PTL
=============================================================================
