------------------------------ MODULE LightCtl ------------------------------
(***************************************************************************)
(* The indicator light of a parking space (light_ctl.c).  The control      *)
(* thread takes requests from one message queue, keeps the last light that *)
(* each priority asked for, and shows that of the highest; the flash       *)
(* thread blinks the lamps of a list that the control thread fills.  The   *)
(* list holds pointers into the table of lights, which the control thread  *)
(* overwrites without the mutex.                                           *)
(*                                                                         *)
(* A light gives each colour "off", "on" or "flash" (brightness 0, steady, *)
(* with an interval); how bright it is, and how long the interval, is left *)
(* out.  The red, blue and green lamps share one switch.                   *)
(***************************************************************************)
EXTENDS Naturals, Sequences

CONSTANTS
  Lights,    \* the lights a client may ask for
  QueueMax   \* requests the queue takes

Colours == <<"red", "blue", "green", "white">>
Colour  == {"red", "blue", "green", "white"}
Light   == [Colour -> {"off", "on", "flash"}]
NoLight == [c \in Colour |-> "none"]      \* LIGHT_PRIO_NULL
Prio    == {"vd", "platform"}

ASSUME LightsAssumption == Lights \subseteq Light /\ QueueMax \in Nat \ {0}

VARIABLES
  queue,     \* the requests in the queue 0x4C494748
  reply,     \* the answer to a "get": is a coloured lamp on in it? or "none"
  pc,        \* where the control thread is; "dead": it has crashed
  req,       \* the request it handles
  i,         \* the colour its loops are at
  list,      \* the light each priority asked for
  hasFlash,  \* has_light_flash
  nodes,     \* light_flash_list: entries of the table of lights
  fpc,       \* the flash thread: "wait", or "lit": it holds the mutex
  lamp,      \* the lamps that are switched on
  pwm        \* is the switch of the coloured lamps in PWM mode?

ctlVars   == <<reply, pc, req, i>>
tabVars   == <<list, hasFlash>>
flashVars == <<nodes, fpc>>
hwVars    == <<lamp, pwm>>
lightVars == <<queue, ctlVars, tabVars, flashVars, hwVars>>

Get == [type |-> "get", prio |-> "vd", light |-> NoLight]
Start(p, l) == [type |-> "start", prio |-> p, light |-> l]
Stop(p) == [type |-> "stop", prio |-> p, light |-> NoLight]
Request == {Get} \cup {Start(p, l) : p \in Prio, l \in Lights}
                 \cup {Stop(p) : p \in Prio}

(* light_ctl and get_light_state: msgsnd waits for room.  The answer to a   *)
(* "get" has a type of its own and takes its place in the same queue.       *)
Room == Len(queue) + (IF reply = "none" THEN 0 ELSE 1) < QueueMax
Put(m) == Room /\ queue' = Append(queue, m)

(* All three coloured lamps off. *)
Dark(l) == \A c \in Colour \ {"white"} : l[c] \in {"off", "none"}

(* select_light_action_prio_list: the highest priority that has a light.    *)
Active == IF list["platform"] # NoLight THEN list["platform"] ELSE list["vd"]

ActivePrio == IF list["platform"] # NoLight THEN "platform" ELSE "vd"

(* red_light_set and the others. *)
Set(c, on) ==
  /\ lamp' = [lamp EXCEPT ![c] = on]
  /\ pwm' = (pwm \/ (on /\ c # "white"))

-----------------------------------------------------------------------------
(* LightCtlFun: a request that asks for the state is answered from the      *)
(* active light; without one, memcpy reads through a null pointer ...       *)
TakeGet ==
  /\ pc = "idle" /\ queue # <<>> /\ Head(queue).type = "get"
  /\ queue' = Tail(queue)
  /\ pc' = IF Active = NoLight THEN "dead" ELSE "answer"
  /\ UNCHANGED <<reply, req, i, tabVars, flashVars, hwVars>>

(* ... and msgsnd waits for room in the queue that only this thread reads:  *)
(* when the clients have filled it meanwhile, it waits for ever.            *)
Answer ==
  /\ pc = "answer" /\ Room
  /\ reply' = IF Dark(Active) THEN "dark" ELSE "lit"
  /\ pc' = "idle"
  /\ UNCHANGED <<queue, req, i, tabVars, flashVars, hwVars>>

(* put_current_light_state: the request is being copied into the table ...  *)
TakeSet ==
  /\ pc = "idle" /\ queue # <<>> /\ Head(queue).type # "get"
  /\ queue' = Tail(queue) /\ req' = Head(queue) /\ pc' = "copy"
  /\ UNCHANGED <<reply, i, tabVars, flashVars, hwVars>>

(* ... and has been; then the active light is selected.  Without one, or    *)
(* with one that would leave no coloured lamp on, nothing more is done.     *)
FlashKept == "on"
AfterSelect == IF hasFlash THEN "stop" ELSE "on"

Copied ==
  /\ pc = "copy"
  /\ list' = [list EXCEPT ![req.prio] = req.light]
  /\ pc' = IF Dark(Active') THEN "idle" ELSE AfterSelect
  /\ i' = 1 /\ req' = Get                     \* it is not looked at again
  /\ UNCHANGED <<queue, reply, hasFlash, flashVars, hwVars>>

(* light_flash_stop, under the mutex. *)
FlashStop ==
  /\ pc = "stop" /\ fpc = "wait"
  /\ nodes' = <<>> /\ hasFlash' = FALSE /\ pc' = "on"
  /\ UNCHANGED <<queue, reply, req, i, list, fpc, hwVars>>

(* The lamps that are on are switched on first: light_set_list for a steady *)
(* one, light_flash_start, under the mutex, for a flashing one (whose       *)
(* malloc is assumed to succeed) ...                                        *)
NextColourLate ==
  IF i <= Len(Colours) THEN i' = i + 1 /\ pc' = "on"
                       ELSE i' = 1 /\ pc' = "off"

NextColour ==
  IF i < Len(Colours) THEN i' = i + 1 /\ pc' = "on"
                      ELSE i' = 1 /\ pc' = "off"

TurnOn ==
  LET c == Colours[i] IN
  /\ pc = "on"
  /\ \/ Active[c] = "on" /\ Set(c, TRUE) /\ UNCHANGED <<nodes, hasFlash>>
     \/ /\ Active[c] = "flash" /\ fpc = "wait"
        /\ nodes' = Append(nodes, <<ActivePrio, c>>) /\ hasFlash' = TRUE
        /\ UNCHANGED hwVars
     \/ Active[c] = "off" /\ UNCHANGED <<nodes, hasFlash, hwVars>>
  /\ NextColour
  /\ UNCHANGED <<queue, reply, req, list, fpc>>

(* ... then those that are off are switched off.  Nobody else touches one   *)
(* of these, so the loop is one step.                                       *)
TurnOff ==
  /\ pc = "off"
  /\ lamp' = [c \in Colour |-> lamp[c] /\ Active[c] # "off"]
  /\ pc' = "idle"
  /\ UNCHANGED <<queue, reply, req, i, tabVars, flashVars, pwm>>

Ctl == TakeGet \/ Answer \/ TakeSet \/ Copied \/ FlashStop \/ TurnOn \/ TurnOff

-----------------------------------------------------------------------------
(* What the flash thread may read through a node: the identifier of the     *)
(* lamp (a deleted entry is all zero, and 0 is red) and whether it is to    *)
(* shine.  While the entry is being overwritten each is the old or the new. *)
Ident(l, c) == IF l = NoLight THEN "red" ELSE c
Shines(l, c) == l[c] \in {"on", "flash"}
Versions(p) ==
  {list[p]} \cup (IF pc = "copy" /\ req.prio = p THEN {req.light} ELSE {})

(* light_flash_thread: takes the mutex and lights the first lamp of the     *)
(* list ...                                                                 *)
FlashOn ==
  /\ fpc = "wait" /\ nodes # <<>>
  /\ \E l, k \in Versions(Head(nodes)[1]) :
       LET c == Head(nodes)[2] IN Set(Ident(l, c), Shines(k, c))
  /\ fpc' = "lit"
  /\ UNCHANGED <<queue, ctlVars, tabVars, nodes>>

(* ... and after the interval switches it off, together with the switch of  *)
(* all lamps, and, an interval later, moves on and gives up the mutex.      *)
FlashOff ==
  /\ fpc = "lit"
  /\ \E l \in Versions(Head(nodes)[1]) :
       lamp' = [lamp EXCEPT ![Ident(l, Head(nodes)[2])] = FALSE]
  /\ pwm' = FALSE
  /\ nodes' = Append(Tail(nodes), Head(nodes))
  /\ fpc' = "wait"
  /\ UNCHANGED <<queue, ctlVars, tabVars>>

FlashThread == FlashOn \/ FlashOff

(* light_init, and the two threads before their first step. *)
LightInit ==
  /\ queue = <<>> /\ reply = "none" /\ pc = "idle" /\ req = Get /\ i = 1
  /\ list = [p \in Prio |-> NoLight] /\ hasFlash = FALSE
  /\ nodes = <<>> /\ fpc = "wait"
  /\ lamp = [c \in Colour |-> FALSE] /\ pwm = FALSE

-----------------------------------------------------------------------------
LightTypeOK ==
  /\ queue \in Seq(Request) /\ Len(queue) <= QueueMax
  /\ reply \in {"none", "dark", "lit"}
  /\ pc \in {"idle", "answer", "copy", "stop", "on", "off", "dead"}
  /\ req \in Request /\ i \in 1..4
  /\ list \in [Prio -> Lights \cup {NoLight}] /\ hasFlash \in BOOLEAN
  /\ nodes \in Seq(Prio \X Colour) /\ fpc \in {"wait", "lit"}
  /\ lamp \in [Colour -> BOOLEAN] /\ pwm \in BOOLEAN

(* Between two requests the lamps show the active light, whatever the flash *)
(* thread did in the meantime with the light shown before: what is off is   *)
(* off, what is steady is on, the list holds what flashes, each once, and   *)
(* the switch is on unless something flashes.  (A dark light is not shown.) *)
Settled ==
  (pc = "idle" /\ ~Dark(Active)) =>
    LET flashing == {c \in Colour : Active[c] = "flash"} IN
    /\ \A c \in Colour : Active[c] = "off" => ~lamp[c]
    /\ \A c \in Colour : Active[c] = "on" => lamp[c]
    /\ {nodes[n] : n \in 1..Len(nodes)} = {<<ActivePrio, c>> : c \in flashing}
    /\ \A n, k \in 1..Len(nodes) : nodes[n] = nodes[k] => n = k
    /\ flashing = {} => pwm
=============================================================================
