-------------------------- MODULE ParkLightProofs ---------------------------
(* Theorems about ParkLight, for any lights and any length of the queue.   *)
EXTENDS ParkLight, TLAPS

(* A light that was asked for is not the empty entry of the table. *)
LEMMA LightValues ==
  ASSUME NEW l \in Lights
  PROVE  /\ l # NoLight
         /\ \A c \in Colour : l[c] \in {"off", "on", "flash"}
<1>1. l \in Light
  BY LightsAssumption
<1>2. l["red"] # "none" /\ NoLight["red"] = "none"
  BY <1>1 DEF Light, NoLight, Colour
<1> QED BY <1>1, <1>2 DEF Light

(* What a request carries. *)
LEMMA RequestFields ==
  ASSUME NEW m \in Request
  PROVE  /\ m.prio \in Prio /\ m.light \in Lights \cup {NoLight}
         /\ m.type \in {"get", "start", "stop"}
         /\ m.type = "stop" => m.light = NoLight
         /\ m.type = "start" => m.light \in Lights
BY DEF Request, Get, Start, Stop, Prio

(* The requests that are made. *)
LEMMA RequestsMade ==
  /\ Get \in Request
  /\ \A p \in Prio : Stop(p) \in Request
  /\ \A p \in Prio, l \in Lights : Start(p, l) \in Request
BY DEF Request

(* msgsnd keeps the queue's type. *)
LEMMA PutType ==
  ASSUME LightTypeOK, NEW m \in Request, Put(m)
  PROVE  queue' \in Seq(Request) /\ Len(queue') <= QueueMax
<1>1. Len(queue) < QueueMax
  BY LightsAssumption DEF LightTypeOK, Put, Room
<1> QED BY <1>1, LightsAssumption DEF LightTypeOK, Put

(* So does msgrcv. *)
LEMMA TailType ==
  ASSUME LightTypeOK, queue # <<>>
  PROVE  /\ Head(queue) \in Request
         /\ Tail(queue) \in Seq(Request) /\ Len(Tail(queue)) <= QueueMax
BY LightsAssumption DEF LightTypeOK

-----------------------------------------------------------------------------
(* The lamp that the flash thread has lit is still the first of the list. *)
LitNode == fpc = "lit" => nodes # <<>>

LEMMA InitType == Init => TypeOK /\ LitNode
<1> SUFFICES ASSUME Init PROVE TypeOK /\ LitNode
  OBVIOUS
<1>1. queue \in Seq(Request) /\ Len(queue) <= QueueMax
  BY LightsAssumption DEF Init, LightInit
<1>2. nodes \in Seq(Prio \X Colour)
  BY DEF Init, LightInit
<1>3. list \in [Prio -> Lights \cup {NoLight}]
  BY DEF Init, LightInit
<1>4. lamp \in [Colour -> BOOLEAN] /\ pwm \in BOOLEAN /\ hasFlash \in BOOLEAN
  BY Zenon DEF Init, LightInit
<1>5. req \in Request /\ i \in 1..4
  BY RequestsMade DEF Init, LightInit
<1>6. LightTypeOK
  BY <1>1, <1>2, <1>3, <1>4, <1>5 DEF Init, LightInit, LightTypeOK
<1> QED BY <1>6 DEF Init, LightInit, TypeOK, LitNode

(* The two threads of the light. *)
LEMMA LightType ==
  ASSUME LightTypeOK, LitNode, Ctl \/ FlashThread
  PROVE  LightTypeOK' /\ LitNode'
<1> USE DEF LitNode
<1>1. CASE TakeGet
  BY <1>1, TailType DEF TakeGet, LightTypeOK, tabVars, flashVars, hwVars
<1>2. CASE TakeSet
  BY <1>2, TailType DEF TakeSet, LightTypeOK, tabVars, flashVars, hwVars
<1>9. CASE Answer
  BY <1>9 DEF Answer, LightTypeOK, tabVars, flashVars, hwVars
<1>3. CASE Copied
  <2>1. req.prio \in Prio /\ req.light \in Lights \cup {NoLight}
    BY RequestFields DEF LightTypeOK
  <2>2. list' \in [Prio -> Lights \cup {NoLight}]
    BY <1>3, <2>1 DEF Copied, LightTypeOK
  <2>3. pc' \in {"idle", "stop", "on"}
    BY <1>3 DEF Copied, AfterSelect
  <2> QED BY <1>3, <2>2, <2>3, RequestsMade
          DEF Copied, LightTypeOK, flashVars, hwVars
<1>4. CASE FlashStop
  <2>1. nodes' \in Seq(Prio \X Colour)
    BY <1>4 DEF FlashStop
  <2> QED BY <1>4, <2>1 DEF FlashStop, LightTypeOK, hwVars
<1>5. CASE TurnOn
  <2>1. i' \in 1..4 /\ pc' \in {"on", "off"}
    BY <1>5 DEF TurnOn, NextColour, Colours, LightTypeOK
  <2>2. Colours[i] \in Colour /\ ActivePrio \in Prio
    BY DEF LightTypeOK, Colours, Colour, ActivePrio, Prio
  <2>3. /\ nodes' \in Seq(Prio \X Colour) /\ hasFlash' \in BOOLEAN
        /\ lamp' \in [Colour -> BOOLEAN] /\ pwm' \in BOOLEAN
    <3>1. CASE Set(Colours[i], TRUE) /\ UNCHANGED <<nodes, hasFlash>>
      BY <2>2, <3>1 DEF Set, LightTypeOK
    <3>2. CASE /\ nodes' = Append(nodes, <<ActivePrio, Colours[i]>>)
               /\ hasFlash' = TRUE /\ UNCHANGED hwVars
      BY <2>2, <3>2 DEF LightTypeOK, hwVars
    <3>3. CASE UNCHANGED <<nodes, hasFlash, hwVars>>
      BY <3>3 DEF LightTypeOK, hwVars
    <3> QED BY <1>5, <3>1, <3>2, <3>3 DEF TurnOn
  <2> QED BY <1>5, <2>1, <2>3 DEF TurnOn, LightTypeOK
<1>6. CASE TurnOff
  <2>1. lamp' \in [Colour -> BOOLEAN]
    BY <1>6 DEF TurnOff, LightTypeOK
  <2> QED BY <1>6, <2>1 DEF TurnOff, LightTypeOK, tabVars, flashVars
<1>7. CASE FlashOn
  <2>1. PICK c \in {"red", Head(nodes)[2]}, on \in BOOLEAN : Set(c, on)
    <3>1. PICK l \in Versions(Head(nodes)[1]), k \in Versions(Head(nodes)[1]) :
            Set(Ident(l, Head(nodes)[2]), Shines(k, Head(nodes)[2]))
      BY <1>7 DEF FlashOn
    <3>2. Shines(k, Head(nodes)[2]) \in BOOLEAN
      BY DEF Shines
    <3>3. Ident(l, Head(nodes)[2]) \in {"red", Head(nodes)[2]}
      BY DEF Ident
    <3> QED BY <3>1, <3>2, <3>3
  <2>2. c \in Colour
    BY <1>7 DEF FlashOn, LightTypeOK, Colour
  <2>3. lamp' \in [Colour -> BOOLEAN] /\ pwm' \in BOOLEAN
    BY <2>1, <2>2 DEF Set, LightTypeOK
  <2> QED BY <1>7, <2>3 DEF FlashOn, LightTypeOK, ctlVars, tabVars
<1>8. CASE FlashOff
  <2>1. lamp' \in [Colour -> BOOLEAN] /\ nodes' \in Seq(Prio \X Colour)
    <3>1. PICK c \in {"red", Head(nodes)[2]} : lamp' = [lamp EXCEPT ![c] = FALSE]
      BY <1>8 DEF FlashOff, Ident
    <3>2. nodes # <<>> /\ nodes \in Seq(Prio \X Colour)
      BY <1>8 DEF FlashOff, LightTypeOK
    <3>3. Head(nodes) \in Prio \X Colour /\ Tail(nodes) \in Seq(Prio \X Colour)
      BY <3>2
    <3>4. c \in Colour
      BY <3>3 DEF Colour
    <3>5. Append(Tail(nodes), Head(nodes)) \in Seq(Prio \X Colour)
      BY <3>3
    <3>6. lamp' \in [Colour -> BOOLEAN]
      BY <3>1, <3>4, Zenon DEF LightTypeOK
    <3> QED BY <1>8, <3>5, <3>6 DEF FlashOff
  <2> QED BY <1>8, <2>1 DEF FlashOff, LightTypeOK, ctlVars, tabVars
<1> QED BY <1>1, <1>2, <1>3, <1>4, <1>5, <1>6, <1>7, <1>8, <1>9
        DEF Ctl, FlashThread

(* A client puts a request into the queue and leaves the light alone. *)
LEMMA ClientType ==
  ASSUME LightTypeOK, LitNode, NEW m \in Request, Put(m),
         reply' \in {"none", reply},
         UNCHANGED <<pc, req, i, tabVars, flashVars, hwVars>>
  PROVE  LightTypeOK' /\ LitNode'
<1>1. queue' \in Seq(Request) /\ Len(queue') <= QueueMax
  BY PutType
<1> QED BY <1>1 DEF LightTypeOK, LitNode, tabVars, flashVars, hwVars

LEMMA SameType ==
  ASSUME LightTypeOK, LitNode, UNCHANGED lightVars
  PROVE  LightTypeOK' /\ LitNode'
BY DEF LightTypeOK, LitNode, lightVars, ctlVars, tabVars, flashVars, hwVars

(* The clients, one by one. *)
LEMMA NextType ==
  ASSUME TypeOK, LitNode, [Next]_vars
  PROVE  TypeOK' /\ LitNode'
<1> USE DEF TypeOK
<1>0. {"vd", "platform"} = Prio
  BY DEF Prio
<1>1. CASE CameraLight
  <2>1. PICK l \in VdLights : Put(Start("vd", l))
    BY <1>1 DEF CameraLight
  <2>2. Start("vd", l) \in Request
    BY <1>0, ClientsAssumption, RequestsMade
  <2>3. LightTypeOK' /\ LitNode'
    BY <1>1, <2>1, <2>2, ClientType DEF CameraLight, ctlOnly, ctlVars
  <2> QED BY <1>1, <2>3 DEF CameraLight, diskVars, resVars, cmdVars
<1>2. CASE Result
  BY <1>2, SameType DEF Result, diskVars, cmdVars
<1>3. CASE ResultStop
  <2>1. LightTypeOK' /\ LitNode'
    BY <1>0, <1>3, RequestsMade, ClientType DEF ResultStop, ctlOnly, ctlVars
  <2> QED BY <1>3, <2>1 DEF ResultStop, diskVars, cmdVars
<1>4. CASE ResultLast
  BY <1>4, SameType DEF ResultLast, cmdVars
<1>5. CASE FlashCommand
  <2>1. LightTypeOK' /\ LitNode'
    BY <1>5, RequestsMade, ClientType DEF FlashCommand, ctlOnly, ctlVars
  <2> QED BY <1>5, <2>1 DEF FlashCommand, Overlaps, diskVars, resVars
<1>6. CASE FlashStart
  <2>1. Start("platform", IF reply = "lit" THEN Blue ELSE Black) \in Request
    BY <1>0, ClientsAssumption, RequestsMade
  <2>2. LightTypeOK' /\ LitNode'
    BY <1>6, <2>1, ClientType DEF FlashStart
  <2> QED BY <1>6, <2>2 DEF FlashStart, diskVars, resVars
<1>7. CASE FlashFlag
  BY <1>7, SameType DEF FlashFlag, resVars
<1>8. CASE ResetCommand
  <2>1. LightTypeOK' /\ LitNode'
    BY <1>0, <1>8, RequestsMade, ClientType DEF ResetCommand, ctlOnly, ctlVars
  <2> QED BY <1>8, <2>1 DEF ResetCommand, diskVars, resVars
<1>9. CASE ResetDone
  BY <1>9, SameType DEF ResetDone, resVars
<1>10. CASE FirstStatus
  <2>1. CASE Put(Get)
    <3>1. LightTypeOK' /\ LitNode'
      BY <1>10, <2>1, RequestsMade, ClientType DEF FirstStatus, ctlOnly, ctlVars
    <3> QED BY <1>10, <3>1 DEF FirstStatus, Overlaps, resVars
  <2>2. CASE UNCHANGED queue
    <3>1. LightTypeOK' /\ LitNode'
      BY <1>10, <2>2, SameType DEF FirstStatus, ctlOnly, lightVars
    <3> QED BY <1>10, <3>1 DEF FirstStatus, Overlaps, resVars
  <2> QED BY <1>10, <2>1, <2>2 DEF FirstStatus
<1>11. CASE Resent
  <2>1. LightTypeOK' /\ LitNode'
    BY <1>0, <1>11, RequestsMade, ClientType DEF Resent, ctlOnly, ctlVars
  <2> QED BY <1>11, <2>1 DEF Resent, diskVars, resVars, cmdVars
<1>12. CASE LightStep
  BY <1>12, LightType DEF LightStep, diskVars, resVars, cmdVars
<1>13. CASE UNCHANGED vars
  BY <1>13, SameType DEF vars, diskVars, resVars, cmdVars
<1> QED BY <1>1, <1>2, <1>3, <1>4, <1>5, <1>6, <1>7, <1>8, <1>9, <1>10,
           <1>11, <1>12, <1>13 DEF Next

(* Every variable keeps its type, and the loop over the colours stays in    *)
(* the table (LightCtlFun, light_flash_thread and their clients).           *)
THEOREM LightTypeCorrect == Spec => []TypeOK
<1>1. TypeOK /\ LitNode /\ [Next]_vars => (TypeOK /\ LitNode)'
  BY NextType
<1> QED BY <1>1, InitType, PTL DEF Spec

-----------------------------------------------------------------------------
(* What the control thread has shown of the active light: the colours its   *)
(* loop has passed, or all of them.                                         *)
Done == IF pc = "on" THEN {Colours[j] : j \in 1..(i - 1)} ELSE Colour
Flashing(S) == {c \in S : Active[c] = "flash"}

(* The first N places of a list: what they hold, and that each differs.     *)
Held(f, N)  == {f[n] : n \in 1..N}
Apart(f, N) == \A n, k \in 1..N : f[n] = f[k] => n = k

Shown(S) ==
  /\ \A c \in S : Active[c] = "on" => lamp[c]
  /\ Held(nodes, Len(nodes)) = {<<ActivePrio, c>> : c \in Flashing(S)}
  /\ Apart(nodes, Len(nodes))
  /\ (Flashing(S) = {} /\ \E c \in S \ {"white"} : Active[c] = "on") => pwm

Resting == pc \in {"idle", "answer"}
Lit == pc \in {"on", "off"} \/ (Resting /\ ~Dark(Active))

(* Settled is the end of a loop that flash_stop has prepared: has_light_    *)
(* flash covers every node, and each colour that was passed is as the       *)
(* active light wants it.                                                   *)
Showing ==
  /\ nodes # <<>> => hasFlash
  /\ pc \in {"stop", "on", "off"} => ~Dark(Active)
  /\ pc = "stop" => i = 1
  /\ Lit => Shown(Done)
  /\ (Resting /\ ~Dark(Active)) =>
       \A c \in Colour : Active[c] = "off" => ~lamp[c]

(* An active light that is not dark is one that was asked for. *)
LEMMA ActiveIs ==
  ASSUME LightTypeOK, ~Dark(Active)
  PROVE  /\ Active \in Lights /\ Active # NoLight
         /\ Active = list[ActivePrio] /\ ActivePrio \in Prio
<1>1. Dark(NoLight)
  BY DEF Dark, NoLight, Colour
<1>2. Active = list[ActivePrio] /\ ActivePrio \in Prio
  BY DEF Active, ActivePrio, Prio
<1> QED BY <1>1, <1>2 DEF LightTypeOK

(* Shifting the places by one, the first becoming the last. *)
Shifted(f, g, N) ==
  /\ N \in Nat \ {0} /\ g[N] = f[1]
  /\ \A n \in 1..(N - 1) : g[n] = f[n + 1]

LEMMA Shift ==
  ASSUME NEW N, NEW f, NEW g, Shifted(f, g, N)
  PROVE  Held(g, N) = Held(f, N) /\ (Apart(f, N) => Apart(g, N))
<1> USE DEF Shifted, Held, Apart
<1> DEFINE to(n) == IF n = N THEN 1 ELSE n + 1
<1>1. \A n \in 1..N : to(n) \in 1..N /\ g[n] = f[to(n)]
  OBVIOUS
<1>2. \A n, k \in 1..N : to(n) = to(k) => n = k
  OBVIOUS
<1>3. \A k \in 1..N : \E n \in 1..N : k = to(n)
  <2> TAKE k \in 1..N
  <2>1. CASE k = 1
    <3>1. N \in 1..N /\ to(N) = k
      BY <2>1
    <3> QED BY <3>1
  <2>2. CASE k # 1
    <3>1. k - 1 \in 1..N /\ to(k - 1) = k
      BY <2>2
    <3> QED BY <3>1
  <2> QED BY <2>1, <2>2
<1> HIDE DEF to
<1>4. \A k \in 1..N : \E n \in 1..N : f[k] = g[n]
  BY <1>1, <1>3
<1>5. {g[n] : n \in 1..N} = {f[n] : n \in 1..N}
  BY <1>1, <1>4
<1>6. ASSUME \A n, k \in 1..N : f[n] = f[k] => n = k
      PROVE  \A n, k \in 1..N : g[n] = g[k] => n = k
  BY <1>1, <1>2, <1>6
<1> QED BY <1>5, <1>6

(* list_move_tail keeps the nodes and keeps them apart. *)
LEMMA Rotation ==
  ASSUME NEW S, NEW s \in Seq(S), s # <<>>,
         NEW t, t = Append(Tail(s), Head(s))
  PROVE  /\ t # <<>>
         /\ Held(t, Len(t)) = Held(s, Len(s))
         /\ Apart(s, Len(s)) => Apart(t, Len(t))
<1>1. Len(s) \in Nat \ {0} /\ Head(s) = s[1] /\ Tail(s) \in Seq(S)
  OBVIOUS
<1>2. Len(Tail(s)) = Len(s) - 1 /\ \A n \in 1..(Len(s) - 1) : Tail(s)[n] = s[n + 1]
  BY <1>1
<1>3. Len(t) = Len(s) /\ t[Len(s)] = s[1]
  BY <1>1, <1>2
<1>4. \A n \in 1..(Len(s) - 1) : t[n] = s[n + 1]
  BY <1>1, <1>2
<1>5. t # <<>>
  BY <1>1, <1>3
<1>6. Shifted(s, t, Len(s))
  BY <1>1, <1>3, <1>4 DEF Shifted
<1> QED BY <1>3, <1>5, <1>6, Shift

(* list_add_tail of a node that is not in the list. *)
LEMMA Addition ==
  ASSUME NEW S, NEW s \in Seq(S), NEW x \in S, NEW t, t = Append(s, x),
         x \notin Held(s, Len(s)), Apart(s, Len(s))
  PROVE  Held(t, Len(t)) = Held(s, Len(s)) \cup {x} /\ Apart(t, Len(t))
<1>1. Len(s) \in Nat /\ Len(t) = Len(s) + 1 /\ t[Len(t)] = x
  OBVIOUS
<1>2. \A n \in 1..Len(s) : t[n] = s[n]
  OBVIOUS
<1>3. \A n \in 1..Len(t) : n = Len(t) \/ n \in 1..Len(s)
  BY <1>1
<1>4. 1..Len(s) \subseteq 1..Len(t) /\ Len(t) \in 1..Len(t)
  BY <1>1
<1>5. \A n \in 1..Len(s) : s[n] # x
  BY DEF Held
<1>6. Held(t, Len(t)) = Held(s, Len(s)) \cup {x}
  BY <1>1, <1>2, <1>3, <1>4 DEF Held
<1>7. Apart(t, Len(t))
  BY <1>1, <1>2, <1>3, <1>5 DEF Apart
<1> QED BY <1>6, <1>7

-----------------------------------------------------------------------------
LEMMA InitShowing == Init => Showing
<1> SUFFICES ASSUME Init PROVE Showing
  OBVIOUS
<1>1. nodes = <<>> /\ pc = "idle" /\ Active = NoLight
  BY DEF Init, LightInit, Active, Prio
<1>2. Dark(Active)
  BY <1>1 DEF Dark, NoLight, Colour
<1> QED BY <1>1, <1>2 DEF Showing, Lit, Resting

(* A step that touches neither the lamps, nor the list, nor the table. *)
LEMMA SameShowing ==
  ASSUME Showing, UNCHANGED <<pc, i, list, hasFlash, nodes, lamp, pwm>>
  PROVE  Showing'
BY DEF Showing, Lit, Resting, Done, Shown, Flashing, Held, Apart, Active, ActivePrio,
       Dark

(* An empty list shows nothing yet. *)
LEMMA NothingShown ==
  ASSUME nodes' = <<>> PROVE Shown({})'
<1>1. Held(nodes, Len(nodes))' = {} /\ Apart(nodes, Len(nodes))'
  BY DEF Held, Apart
<1>2. Flashing({})' = {}
  BY DEF Flashing
<1> QED BY <1>1, <1>2 DEF Shown

(* The loop over the colours adds the one it is at. *)
LEMMA OneMore ==
  ASSUME LightTypeOK, pc = "on", NextColour
  PROVE  /\ Done \cup {Colours[i]} = Done' /\ Colours[i] \notin Done
         /\ Colours[i] \in Colour /\ Done \subseteq Colour
         /\ pc' \in {"on", "off"}
<1>1. i \in 1..4
  BY DEF LightTypeOK
<1>2. CASE i = 1
  BY <1>2 DEF NextColour, Done, Colours, Colour
<1>3. CASE i = 2
  BY <1>3 DEF NextColour, Done, Colours, Colour
<1>4. CASE i = 3
  BY <1>4 DEF NextColour, Done, Colours, Colour
<1>5. CASE i = 4
  BY <1>5 DEF NextColour, Done, Colours, Colour
<1> QED BY <1>1, <1>2, <1>3, <1>4, <1>5

LEMMA TakeShowing ==
  ASSUME Showing, TakeGet \/ Answer \/ TakeSet
  PROVE  Showing'
<1>0. UNCHANGED <<i, list, hasFlash, nodes, lamp, pwm>>
  BY DEF TakeGet, Answer, TakeSet, tabVars, flashVars, hwVars
<1>1. CASE Resting /\ Resting'
  <2>1. Done' = Done /\ Lit' = Lit
    BY <1>0, <1>1 DEF Resting, Done, Lit, Active, Dark
  <2> QED BY <1>0, <1>1, <2>1
          DEF Resting, Showing, Shown, Flashing, Held, Apart, Active, ActivePrio, Dark
<1>2. CASE pc' \in {"dead", "copy"}
  BY <1>0, <1>2 DEF Showing, Lit, Resting
<1> QED BY <1>1, <1>2 DEF TakeGet, Answer, TakeSet, Resting

(* The loop starts with an empty list: it was empty, or flash_stop ran. *)
LEMMA CopiedShowing ==
  ASSUME Showing, Copied
  PROVE  Showing'
<1>1. nodes' = nodes /\ hasFlash' = hasFlash /\ i' = 1
  BY DEF Copied, flashVars
<1>2. nodes' # <<>> => hasFlash'
  BY <1>1 DEF Showing
<1>3. CASE Dark(Active)'
  <2>1. pc' = "idle"
    BY <1>3 DEF Copied
  <2> QED BY <1>2, <1>3, <2>1 DEF Showing, Lit, Resting
<1>4. CASE ~Dark(Active)' /\ hasFlash
  <2>1. pc' = "stop"
    BY <1>4 DEF Copied, AfterSelect
  <2> QED BY <1>1, <1>2, <1>4, <2>1 DEF Showing, Lit, Resting
<1>5. CASE ~Dark(Active)' /\ ~hasFlash
  <2>1. pc' = "on" /\ nodes' = <<>>
    BY <1>1, <1>2, <1>5 DEF Copied, AfterSelect
  <2>2. Done' = {}
    BY <1>1, <2>1 DEF Done
  <2>3. Shown(Done)'
    BY <2>1, <2>2, NothingShown
  <2> QED BY <1>2, <1>5, <2>1, <2>3 DEF Showing, Lit, Resting
<1> QED BY <1>3, <1>4, <1>5

LEMMA StopShowing ==
  ASSUME Showing, FlashStop
  PROVE  Showing'
<1>1. pc' = "on" /\ nodes' = <<>> /\ i' = 1 /\ ~Dark(Active)'
  BY DEF Showing, FlashStop, Dark, Active
<1>2. Done' = {}
  BY <1>1 DEF Done
<1>3. Shown(Done)'
  BY <1>1, <1>2, NothingShown
<1> QED BY <1>1, <1>3 DEF Showing, Lit, Resting

LEMMA TurnOnShowing ==
  ASSUME LightTypeOK, Showing, TurnOn
  PROVE  Showing'
<1> DEFINE c == Colours[i]
<1>1. /\ Active' = Active /\ ActivePrio' = ActivePrio /\ Dark(Active)' = Dark(Active)
      /\ pc = "on" /\ ~Dark(Active) /\ NextColour
  BY DEF TurnOn, Active, ActivePrio, Dark, Showing
<1>2. /\ Done \cup {c} = Done' /\ c \notin Done /\ c \in Colour
      /\ Done \subseteq Colour /\ pc' \in {"on", "off"}
  BY <1>1, OneMore
<1>3. Shown(Done)
  BY <1>1 DEF Showing, Lit, Resting
<1> HIDE DEF c
<1>4. Shown(Done)' /\ (nodes' # <<>> => hasFlash')
  <2>1. CASE Active[c] = "on" /\ Set(c, TRUE) /\ UNCHANGED <<nodes, hasFlash>>
    <3>1. Flashing(Done)' = Flashing(Done)
      BY <1>1, <1>2, <2>1 DEF Flashing
    <3>2. /\ lamp' = [lamp EXCEPT ![c] = TRUE]
          /\ pwm' = (pwm \/ c # "white")
      BY <2>1 DEF Set
    <3>3. \A d \in Done' : Active'[d] = "on" => lamp'[d]
      BY <1>1, <1>2, <1>3, <3>2 DEF Shown, LightTypeOK
    <3>4. (Flashing(Done)' = {} /\ \E d \in Done' \ {"white"} : Active'[d] = "on")
            => pwm'
      BY <1>1, <1>2, <1>3, <3>1, <3>2 DEF Shown
    <3> QED BY <1>1, <1>3, <2>1, <3>1, <3>3, <3>4 DEF Shown, Held, Apart, Showing
  <2>2. CASE /\ Active[c] = "flash" /\ nodes' = Append(nodes, <<ActivePrio, c>>)
             /\ hasFlash' = TRUE /\ UNCHANGED hwVars
    <3>1. Flashing(Done)' = Flashing(Done) \cup {c} /\ c \notin Flashing(Done)
      BY <1>1, <1>2, <2>2 DEF Flashing
    <3>2. <<ActivePrio, c>> \notin Held(nodes, Len(nodes))
      BY <1>3, <3>1 DEF Shown
    <3>3. <<ActivePrio, c>> \in Prio \X Colour /\ nodes \in Seq(Prio \X Colour)
      BY <1>1, <1>2, ActiveIs DEF LightTypeOK
    <3>4. /\ Held(nodes', Len(nodes')) = Held(nodes, Len(nodes)) \cup {<<ActivePrio, c>>}
          /\ Apart(nodes', Len(nodes'))
      BY <1>3, <2>2, <3>2, <3>3, Addition DEF Shown
    <3>5. Held(nodes', Len(nodes')) = {<<ActivePrio, d>> : d \in Flashing(Done) \cup {c}}
      BY <1>3, <3>4 DEF Shown
    <3>6. Held(nodes, Len(nodes))' = {<<ActivePrio', d>> : d \in Flashing(Done)'}
      BY <1>1, <3>1, <3>5
    <3>7. \A d \in Done' : Active'[d] = "on" => lamp'[d]
      BY <1>1, <1>2, <1>3, <2>2 DEF Shown, hwVars
    <3> QED BY <2>2, <3>1, <3>4, <3>6, <3>7 DEF Shown
  <2>3. CASE Active[c] = "off" /\ UNCHANGED <<nodes, hasFlash, hwVars>>
    <3>1. Flashing(Done)' = Flashing(Done)
      BY <1>1, <1>2, <2>3 DEF Flashing
    <3>2. \A d \in Done' : Active'[d] = "on" => lamp'[d] /\ d \in Done
      BY <1>1, <1>2, <1>3, <2>3 DEF Shown, hwVars
    <3> QED BY <1>1, <1>3, <2>3, <3>1, <3>2 DEF Shown, Held, Apart, Showing, hwVars
  <2> QED BY <2>1, <2>2, <2>3 DEF TurnOn, c
<1> QED BY <1>1, <1>2, <1>4 DEF Showing, Lit, Resting

LEMMA TurnOffShowing ==
  ASSUME LightTypeOK, Showing, TurnOff
  PROVE  Showing'
<1>1. /\ Active' = Active /\ ActivePrio' = ActivePrio /\ Dark(Active)' = Dark(Active)
      /\ pc = "off" /\ pc' = "idle" /\ ~Dark(Active)
      /\ UNCHANGED <<nodes, hasFlash, pwm>>
  BY DEF TurnOff, Active, ActivePrio, Dark, Showing, tabVars, flashVars
<1>2. Done = Colour /\ Done' = Colour /\ Shown(Colour)
  BY <1>1 DEF Done, Showing, Lit, Resting
<1>3. /\ \A c \in Colour : Active'[c] = "on" => lamp'[c]
      /\ \A c \in Colour : Active'[c] = "off" => ~lamp'[c]
  BY <1>1, <1>2 DEF TurnOff, Shown
<1>4. Shown(Colour)'
  BY <1>1, <1>2, <1>3 DEF Shown, Flashing, Held, Apart
<1> QED BY <1>1, <1>2, <1>3, <1>4 DEF Showing, Lit, Resting

(* While a light is shown, the node that the flash thread reads is one of   *)
(* that light's flashing colours, and nobody is overwriting it.             *)
LEMMA NodeShown ==
  ASSUME LightTypeOK, Showing, Lit, nodes # <<>>
  PROVE  LET c == Head(nodes)[2] IN
         /\ c \in Flashing(Done) /\ c \in Colour
         /\ \A l \in Versions(Head(nodes)[1]) : Ident(l, c) = c /\ Shines(l, c)
<1>1. Head(nodes) \in Held(nodes, Len(nodes)) /\ Head(nodes) \in Prio \X Colour
  <2>1. nodes \in Seq(Prio \X Colour)
    BY DEF LightTypeOK
  <2>2. Len(nodes) \in Nat \ {0} /\ Head(nodes) = nodes[1]
    BY <2>1
  <2>3. 1 \in 1..Len(nodes)
    BY <2>2
  <2> QED BY <2>1, <2>2, <2>3 DEF Held
<1>2. PICK c \in Flashing(Done) : Head(nodes) = <<ActivePrio, c>>
  BY <1>1 DEF Showing, Shown
<1>3. ~Dark(Active) /\ pc # "copy"
  BY DEF Showing, Lit, Resting
<1>4. Versions(Head(nodes)[1]) = {Active} /\ Active # NoLight
  BY <1>2, <1>3, ActiveIs DEF Versions
<1>5. Active[c] = "flash" /\ c \in Colour
  BY <1>1, <1>2 DEF Flashing
<1> QED BY <1>2, <1>4, <1>5 DEF Ident, Shines

(* Both steps of the flash thread touch a flashing lamp only. *)
LEMMA FlashShowing ==
  ASSUME LightTypeOK, LitNode, Showing, FlashThread
  PROVE  Showing'
<1>1. /\ UNCHANGED <<pc, i, list, hasFlash>> /\ Active' = Active
      /\ ActivePrio' = ActivePrio /\ Dark(Active)' = Dark(Active)
      /\ Lit' = Lit /\ Done' = Done /\ Resting' = Resting
  BY DEF FlashThread, FlashOn, FlashOff, ctlVars, tabVars, Active, ActivePrio,
         Dark, Lit, Resting, Done
<1>2. nodes # <<>> /\ hasFlash /\ nodes \in Seq(Prio \X Colour)
  BY DEF FlashThread, FlashOn, FlashOff, LitNode, Showing, LightTypeOK
<1>3. /\ Held(nodes, Len(nodes))' = Held(nodes, Len(nodes))
      /\ Apart(nodes, Len(nodes)) => Apart(nodes, Len(nodes))'
  <2>1. CASE FlashOn
    BY <2>1 DEF FlashOn, Held, Apart
  <2>2. CASE FlashOff
    <3>1. nodes' = Append(Tail(nodes), Head(nodes))
      BY <2>2 DEF FlashOff
    <3> QED BY <1>2, <3>1, Rotation
  <2> QED BY <2>1, <2>2 DEF FlashThread
<1>4. CASE ~Lit
  BY <1>1, <1>2, <1>4 DEF Showing, Lit, Resting
<1>5. CASE Lit
  <2> DEFINE c == Head(nodes)[2]
  <2>1. /\ c \in Flashing(Done) /\ c \in Colour
        /\ \A l \in Versions(Head(nodes)[1]) : Ident(l, c) = c /\ Shines(l, c)
    BY <1>2, <1>5, NodeShown
  <2>2. \E on \in BOOLEAN : lamp' = [lamp EXCEPT ![c] = on]
    <3>1. CASE FlashOn
      BY <2>1, <3>1 DEF FlashOn, Set
    <3>2. CASE FlashOff
      BY <2>1, <3>2 DEF FlashOff
    <3> QED BY <3>1, <3>2 DEF FlashThread
  <2>3. Active[c] = "flash" /\ Done \subseteq Colour
    BY <2>1 DEF Flashing, Done, Colours, Colour, LightTypeOK
  <2> HIDE DEF c
  <2>4. \A d \in Colour : Active[d] # "flash" => lamp'[d] = lamp[d]
    BY <2>2, <2>3 DEF LightTypeOK
  <2>5. Flashing(Done)' = Flashing(Done) /\ Flashing(Done) # {}
    BY <1>1, <2>1 DEF Flashing
  <2>6. Shown(Done)
    BY <1>5 DEF Showing
  <2>7. \A d \in Done' : Active'[d] = "on" => lamp'[d]
    BY <1>1, <2>3, <2>4, <2>6 DEF Shown
  <2>8. Shown(Done)'
    BY <1>1, <1>3, <2>5, <2>6, <2>7 DEF Shown
  <2>9. (Resting /\ ~Dark(Active)) =>
          \A d \in Colour : Active'[d] = "off" => ~lamp'[d]
    BY <1>1, <2>4 DEF Showing
  <2> QED BY <1>1, <1>2, <2>8, <2>9 DEF Showing
<1> QED BY <1>4, <1>5

LEMMA NextShowing ==
  ASSUME TypeOK, LitNode, Showing, [Next]_vars
  PROVE  Showing'
<1> USE DEF TypeOK
<1>1. CASE LightStep
  BY <1>1, TakeShowing, CopiedShowing, StopShowing, TurnOnShowing,
     TurnOffShowing, FlashShowing DEF LightStep, Ctl
<1>2. CASE ~LightStep
  <2>1. UNCHANGED <<pc, i, list, hasFlash, nodes, lamp, pwm>>
    BY <1>2 DEF Next, vars, lightVars, ctlVars, tabVars, flashVars, hwVars,
       ctlOnly, CameraLight, Result, ResultStop, ResultLast, FlashCommand,
       FlashStart, FlashFlag, ResetCommand, ResetDone, FirstStatus, Resent
  <2> QED BY <2>1, SameShowing
<1> QED BY <1>1, <1>2

LEMMA ShowingSettles ==
  ASSUME LightTypeOK, Showing
  PROVE  Settled
<1> SUFFICES ASSUME pc = "idle", ~Dark(Active) PROVE Settled
  BY DEF Settled
<1>1. Shown(Colour)
  BY DEF Showing, Lit, Resting, Done
<1>2. Active \in Lights
  BY ActiveIs
<1>3. \E c \in Colour \ {"white"} : Active[c] \in {"on", "flash"}
  BY <1>2, LightValues DEF Dark
<1>4. Flashing(Colour) = {} => pwm
  BY <1>1, <1>3 DEF Shown, Flashing
<1>5. \A c \in Colour : Active[c] = "off" => ~lamp[c]
  BY DEF Showing, Resting
<1> QED BY <1>1, <1>4, <1>5 DEF Settled, Shown, Flashing, Held, Apart

(* Between two requests the lamps and the flash list show the active light, *)
(* however light_flash_thread was interleaved with LightCtlFun.             *)
THEOREM LampsSettled == Spec => []Settled
<1>1. Init => TypeOK /\ LitNode /\ Showing
  BY InitType, InitShowing
<1>2. TypeOK /\ LitNode /\ Showing /\ [Next]_vars
        => (TypeOK /\ LitNode /\ Showing)'
  BY NextType, NextShowing
<1>3. TypeOK /\ LitNode /\ Showing => Settled
  BY ShowingSettles DEF TypeOK
<1> QED BY <1>1, <1>2, <1>3, PTL DEF Spec

-----------------------------------------------------------------------------
(* Will the platform's light be on once the control thread has read the     *)
(* queue?  It is now and nothing in the queue ends it, or something in the  *)
(* queue starts it and nothing after that ends it.                          *)
Starts(m) == m.type = "start" /\ m.prio = "platform"
Ends(m)   == m.type = "stop" /\ m.prio = "platform"

Will(on, f, N) ==
  \/ on /\ \A n \in 1..N : ~Ends(f[n])
  \/ \E n \in 1..N : Starts(f[n]) /\ \A k \in 1..N : k > n => ~Ends(f[k])

Now == IF pc = "copy" /\ req.prio = "platform" THEN req.light # NoLight
       ELSE list["platform"] # NoLight

WillBeOn == Will(Now, queue, Len(queue))

(* The platform's light is owned by somebody who will take it back: the     *)
(* flag says so or is about to, and after a car has left, with no command   *)
(* at work, nothing will turn it on.                                        *)
Owned ==
  /\ WillBeOn => flag \/ hpc = "flag"
  /\ hpc = "unflag" => ~WillBeOn
  /\ (~raced /\ ~car /\ res # "idle") => hpc \in {"idle", "unflag"}
  /\ (~raced /\ ~car /\ (res = "last" \/ (res = "idle" /\ ~lastIn)))
       => hpc \in {"idle", "unflag"} /\ ~WillBeOn

(* A request at the end of the queue that starts nothing. *)
LEMMA WillAppend ==
  ASSUME NEW N \in Nat, NEW f, NEW g, NEW on, \A n \in 1..N : g[n] = f[n],
         ~Starts(g[N + 1]), Will(on, g, N + 1)
  PROVE  Will(on, f, N) /\ ~Ends(g[N + 1])
<1>1. 1..N \subseteq 1..(N + 1) /\ N + 1 \in 1..(N + 1)
  OBVIOUS
<1>2. CASE on /\ \A n \in 1..(N + 1) : ~Ends(g[n])
  BY <1>1, <1>2 DEF Will
<1>3. CASE \E n \in 1..(N + 1) :
             Starts(g[n]) /\ \A k \in 1..(N + 1) : k > n => ~Ends(g[k])
  <2>1. PICK n \in 1..(N + 1) :
          Starts(g[n]) /\ \A k \in 1..(N + 1) : k > n => ~Ends(g[k])
    BY <1>3
  <2>2. n \in 1..N /\ N + 1 > n
    <3>1. n # N + 1
      BY <2>1
    <3> QED BY <3>1
  <2>3. Starts(f[n]) /\ \A k \in 1..N : k > n => ~Ends(f[k])
    BY <1>1, <2>1, <2>2
  <2> QED BY <1>1, <2>1, <2>2, <2>3 DEF Will
<1> QED BY <1>2, <1>3 DEF Will

(* The first request leaves the queue. *)
LEMMA WillTail ==
  ASSUME NEW N \in Nat \ {0}, NEW f, NEW g, NEW on, NEW now,
         \A n \in 1..(N - 1) : g[n] = f[n + 1],
         on => Starts(f[1]) \/ (now /\ ~Ends(f[1])),
         Will(on, g, N - 1)
  PROVE  Will(now, f, N)
<1>1. \A k \in 1..N : k # 1 => k - 1 \in 1..(N - 1) /\ f[k] = g[k - 1]
  OBVIOUS
<1>2. CASE on /\ \A n \in 1..(N - 1) : ~Ends(g[n])
  <2>1. \A k \in 1..N : k # 1 => ~Ends(f[k])
    BY <1>1, <1>2
  <2>2. 1 \in 1..N /\ \A k \in 1..N : k > 1 => k # 1
    OBVIOUS
  <2> QED BY <1>2, <2>1, <2>2 DEF Will
<1>3. CASE \E n \in 1..(N - 1) :
             Starts(g[n]) /\ \A k \in 1..(N - 1) : k > n => ~Ends(g[k])
  <2>1. PICK n \in 1..(N - 1) :
          Starts(g[n]) /\ \A k \in 1..(N - 1) : k > n => ~Ends(g[k])
    BY <1>3
  <2>2. n + 1 \in 1..N /\ Starts(f[n + 1])
    BY <2>1
  <2>3. ASSUME NEW k \in 1..N, k > n + 1
        PROVE  ~Ends(f[k])
    <3>1. k # 1 /\ k - 1 > n
      BY <2>3
    <3> QED BY <1>1, <2>1, <3>1
  <2> QED BY <2>2, <2>3 DEF Will
<1> QED BY <1>2, <1>3 DEF Will

LEMMA PutWill ==
  ASSUME LightTypeOK, NEW m, m \in Request, Put(m), ~Starts(m),
         UNCHANGED <<pc, req, list>>, WillBeOn'
  PROVE  WillBeOn /\ ~Ends(m)
<1>1. Now' = Now
  BY DEF Now
<1>2. /\ Len(queue) \in Nat /\ Len(queue') = Len(queue) + 1
      /\ queue'[Len(queue) + 1] = m
      /\ \A n \in 1..Len(queue) : queue'[n] = queue[n]
  BY DEF Put, LightTypeOK
<1>3. Will(Now, queue', Len(queue) + 1)
  BY <1>1, <1>2 DEF WillBeOn
<1> QED BY <1>2, <1>3, WillAppend DEF WillBeOn

(* The light's own threads turn on nothing that nobody asked for. *)
LEMMA LightWill ==
  ASSUME LightTypeOK, Ctl \/ FlashThread, WillBeOn'
  PROVE  WillBeOn
<1>1. CASE queue # <<>> /\ queue' = Tail(queue) /\ (TakeGet \/ TakeSet)
  <2>1. queue \in Seq(Request) /\ Head(queue) \in Request
    BY <1>1, TailType DEF LightTypeOK
  <2>2. /\ Len(queue) \in Nat \ {0} /\ Len(queue') = Len(queue) - 1
        /\ Head(queue) = queue[1]
        /\ \A n \in 1..(Len(queue) - 1) : queue'[n] = queue[n + 1]
    BY <1>1, <2>1
  <2>3. Now' => Starts(queue[1]) \/ (Now /\ ~Ends(queue[1]))
    <3>1. CASE TakeGet
      BY <2>2, <3>1 DEF TakeGet, Now, Ends, tabVars
    <3>2. CASE TakeSet
      <4>1. /\ pc = "idle" /\ pc' = "copy" /\ req' = queue[1] /\ list' = list
            /\ queue[1].type # "get"
        BY <2>2, <3>2 DEF TakeSet, tabVars
      <4>2. /\ queue[1].type \in {"start", "stop"}
            /\ queue[1].type = "stop" => queue[1].light = NoLight
        BY <2>1, <2>2, <4>1, RequestFields
      <4> QED BY <4>1, <4>2 DEF Now, Starts, Ends
    <3> QED BY <1>1, <3>1, <3>2
  <2>4. Will(Now', queue', Len(queue) - 1)
    BY <2>2 DEF WillBeOn
  <2> QED BY <2>2, <2>3, <2>4, WillTail DEF WillBeOn
<1>2. CASE queue' = queue /\ Now' = Now
  BY <1>2 DEF WillBeOn
<1>3. CASE Copied
  <2>1. req.prio \in Prio /\ list \in [Prio -> Lights \cup {NoLight}]
    BY RequestFields DEF LightTypeOK
  <2>2. /\ pc = "copy" /\ pc' # "copy" /\ queue' = queue
        /\ list' = [list EXCEPT ![req.prio] = req.light]
    BY <1>3 DEF Copied, AfterSelect
  <2>3. Now' = Now
    BY <2>1, <2>2 DEF Now, Prio
  <2> QED BY <1>2, <2>2, <2>3
<1>4. CASE Answer \/ FlashStop \/ TurnOn \/ TurnOff \/ FlashThread
  <2>1. queue' = queue /\ list' = list /\ req' = req
    BY <1>4 DEF Answer, FlashStop, TurnOn, TurnOff, FlashThread, FlashOn, FlashOff,
                ctlVars, tabVars
  <2>2. pc' = "copy" <=> pc = "copy"
    BY <1>4 DEF Answer, FlashStop, TurnOn, NextColour, TurnOff, FlashThread, FlashOn,
                FlashOff, ctlVars
  <2> QED BY <1>2, <2>1, <2>2 DEF Now
<1> QED BY <1>1, <1>3, <1>4 DEF Ctl, TakeGet, TakeSet

(* The requests of the clients, but FlashStart's, start nothing.  *)
LEMMA NotStarts ==
  /\ ~Starts(Get) /\ ~Ends(Get)
  /\ ~Starts(Stop("platform")) /\ Ends(Stop("platform"))
  /\ \A l \in VdLights : ~Starts(Start("vd", l))
BY DEF Starts, Ends, Get, Stop, Start

LEMMA InitOwned == Init => Owned
<1> SUFFICES ASSUME Init PROVE Owned
  OBVIOUS
<1>1. ~Now /\ queue = <<>>
  BY DEF Init, LightInit, Now, Prio
<1>2. ~WillBeOn
  BY <1>1 DEF WillBeOn, Will
<1> QED BY <1>2 DEF Init, Owned

(* A step that turns nothing on and changes nothing else Owned looks at. *)
LEMMA SameOwned ==
  ASSUME Owned, WillBeOn' => WillBeOn,
         UNCHANGED <<car, res, lastIn, flag, hpc, raced>>
  PROVE  Owned'
BY DEF Owned

LEMMA SameWill ==
  ASSUME UNCHANGED lightVars
  PROVE  WillBeOn' = WillBeOn
BY DEF WillBeOn, Will, Now, lightVars, ctlVars, tabVars

LEMMA NextOwned ==
  ASSUME TypeOK, Owned, [Next]_vars
  PROVE  Owned'
<1> USE DEF TypeOK
<1>0. {"vd", "platform"} = Prio
  BY DEF Prio
<1>1. CASE CameraLight
  <2>1. PICK l \in VdLights : Put(Start("vd", l))
    BY <1>1 DEF CameraLight
  <2>2. Start("vd", l) \in Request
    BY <1>0, ClientsAssumption, RequestsMade
  <2>3. WillBeOn' => WillBeOn
    BY <1>1, <2>1, <2>2, NotStarts, PutWill DEF CameraLight, ctlOnly, ctlVars,
       tabVars
  <2> QED BY <1>1, <2>3, SameOwned DEF CameraLight, diskVars, resVars, cmdVars
<1>2. CASE Result
  <2>1. WillBeOn' = WillBeOn
    BY <1>2, SameWill DEF Result
  <2> QED BY <1>2, <2>1 DEF Result, Stops, Owned, diskVars, cmdVars
<1>3. CASE ResultStop
  <2>1. ~WillBeOn'
    BY <1>0, <1>3, RequestsMade, NotStarts, PutWill DEF ResultStop, ctlOnly,
       ctlVars, tabVars
  <2> QED BY <1>3, <2>1 DEF ResultStop, Owned, diskVars, cmdVars
<1>4. CASE ResultLast
  <2>1. WillBeOn' = WillBeOn
    BY <1>4, SameWill DEF ResultLast
  <2> QED BY <1>4, <2>1 DEF ResultLast, Owned, cmdVars
<1>5. CASE FlashCommand
  <2>1. WillBeOn' => WillBeOn
    BY <1>5, RequestsMade, NotStarts, PutWill DEF FlashCommand, ctlOnly,
       ctlVars, tabVars
  <2> QED BY <1>5, <2>1 DEF FlashCommand, Overlaps, Owned, diskVars, resVars
<1>6. CASE FlashStart
  BY <1>6 DEF FlashStart, Owned, diskVars, resVars
<1>7. CASE FlashFlag
  <2>1. WillBeOn' = WillBeOn
    BY <1>7, SameWill DEF FlashFlag
  <2> QED BY <1>7, <2>1 DEF FlashFlag, Owned, resVars
<1>8. CASE ResetCommand
  <2>1. ~WillBeOn'
    BY <1>0, <1>8, RequestsMade, NotStarts, PutWill DEF ResetCommand, ctlOnly,
       ctlVars, tabVars
  <2> QED BY <1>8, <2>1 DEF ResetCommand, Owned, diskVars, resVars
<1>9. CASE ResetDone
  <2>1. WillBeOn' = WillBeOn
    BY <1>9, SameWill DEF ResetDone
  <2> QED BY <1>9, <2>1 DEF ResetDone, Owned, resVars
<1>10. CASE FirstStatus
  <2>1. CASE raced' = (raced \/ ~car) /\ Put(Get)
    <3>1. WillBeOn' => WillBeOn
      BY <1>10, <2>1, RequestsMade, NotStarts, PutWill DEF FirstStatus,
         ctlOnly, ctlVars, tabVars
    <3> QED BY <1>10, <2>1, <3>1 DEF FirstStatus, Owned, resVars
  <2>2. CASE UNCHANGED <<queue, hpc, raced>>
    <3>1. WillBeOn' = WillBeOn
      BY <1>10, <2>2, SameWill DEF FirstStatus, ctlOnly, lightVars
    <3> QED BY <1>10, <2>2, <3>1, SameOwned DEF FirstStatus, resVars
  <2> QED BY <1>10, <2>1, <2>2 DEF FirstStatus
<1>11. CASE Resent
  <2>1. WillBeOn' => WillBeOn
    BY <1>0, <1>11, RequestsMade, NotStarts, PutWill DEF Resent, ctlOnly,
       ctlVars, tabVars
  <2> QED BY <1>11, <2>1, SameOwned DEF Resent, diskVars, resVars, cmdVars
<1>12. CASE LightStep
  <2>1. WillBeOn' => WillBeOn
    BY <1>12, LightWill DEF LightStep
  <2> QED BY <1>12, <2>1, SameOwned DEF LightStep, diskVars, resVars, cmdVars
<1>13. CASE UNCHANGED vars
  BY <1>13, SameWill, SameOwned DEF vars, diskVars, resVars, cmdVars
<1> QED BY <1>1, <1>2, <1>3, <1>4, <1>5, <1>6, <1>7, <1>8, <1>9, <1>10,
           <1>11, <1>12, <1>13 DEF Next

(* With the queue read, what will be on is what is on. *)
LEMMA OwnedRestores ==
  ASSUME Owned
  PROVE  LightRestored
<1> SUFFICES ASSUME ~car, ~lastIn, res = "idle", queue = <<>>, pc = "idle",
                    ~raced
             PROVE  list["platform"] = NoLight
  BY DEF LightRestored
<1>1. ~WillBeOn
  BY DEF Owned
<1>2. WillBeOn <=> Now
  BY DEF WillBeOn, Will
<1> QED BY <1>1, <1>2 DEF Now

(* "when this car leave, should restore the light" (record_notify and       *)
(* info_notify): with no command at work meanwhile, and no first status     *)
(* after it, the platform's light is gone when the result that the car has  *)
(* left has been handled.                                                   *)
THEOREM LightIsRestored == Spec => []LightRestored
<1>1. Init => TypeOK /\ LitNode /\ Owned
  BY InitType, InitOwned
<1>2. TypeOK /\ LitNode /\ Owned /\ [Next]_vars
        => (TypeOK /\ LitNode /\ Owned)'
  BY NextType, NextOwned
<1>3. Owned => LightRestored
  BY OwnedRestores
<1> QED BY <1>1, <1>2, <1>3, PTL DEF Spec
=============================================================================
