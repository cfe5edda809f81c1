----------------------------- MODULE ParkLight ------------------------------
(***************************************************************************)
(* Who asks for the light of a parking space: the camera, and the zehin    *)
(* platform, which marks a car that owes charges with a flashing blue      *)
(* light.  Threads: the one that handles results (storage/                 *)
(* park_records_process.cpp, CParkZehin::notify), the main thread of the   *)
(* zehin platform (light_control, tpzehin_status_handler), its reget       *)
(* thread, and those of LightCtl.                                          *)
(***************************************************************************)
EXTENDS LightCtl

CONSTANT VdLights    \* the lights the camera asks for

Blue  == [c \in Colour |-> IF c = "blue" THEN "flash" ELSE "off"]
Black == [c \in Colour |-> "off"]

ASSUME ClientsAssumption == VdLights \cup {Blue, Black} \subseteq Lights

VARIABLES
  car,       \* does the camera see a car?
  res,       \* where the result thread is; it handles the result "car"
  lastIn,    \* the lastmsg table: objectState = 1 (on disk)
  file,      \* does light.txt exist (on disk)?
  flag,      \* g_light_controlled_by_platform
  first,     \* first_status
  hpc,       \* where the platform's main thread is
  raced      \* history: a command overlapped the result that a car has left,
             \* or the first status lit the light of an empty space

diskVars == <<lastIn, file>>
resVars  == <<car, res>>
cmdVars  == <<flag, first, hpc>>
vars == <<lightVars, diskVars, resVars, cmdVars, raced>>

ctlOnly == <<ctlVars, tabVars, flashVars, hwVars>>   \* all but the queue

(* process_park_light. *)
CameraLight ==
  /\ pc # "dead"
  /\ \E l \in VdLights : Put(Start("vd", l))
  /\ UNCHANGED <<ctlOnly, diskVars, resVars, cmdVars, raced>>

-----------------------------------------------------------------------------
(* process_park_records and process_park_leave_info: the platform is        *)
(* notified; record_notify and info_notify look at the flag ...             *)
StopsIn(in) == flag /\ in
Stops(in) == flag

Result ==
  /\ pc # "dead" /\ res = "idle"
  /\ car' = ~car
  /\ res' = IF Stops(~car) THEN "stop" ELSE "last"
  /\ raced' = IF car THEN hpc \notin {"idle", "unflag"} ELSE raced
  /\ UNCHANGED <<lightVars, diskVars, cmdVars>>

(* ... and take the platform's light back. *)
ResultStop ==
  /\ pc # "dead" /\ res = "stop" /\ Put(Stop("platform")) /\ res' = "last"
  /\ UNCHANGED <<ctlOnly, diskVars, car, cmdVars, raced>>

(* The lastmsg table is rewritten after all platforms have been notified    *)
(* (between its deletion and its insertion it names no car either).         *)
ResultLast ==
  /\ pc # "dead" /\ res = "last" /\ res' = "idle" /\ lastIn' = car
  /\ UNCHANGED <<lightVars, file, car, cmdVars, raced>>

-----------------------------------------------------------------------------
(* light_control, command "bf", with a car in the space: the state of the   *)
(* light is asked for ...                                                   *)
Overlaps == raced \/ (res # "idle" /\ ~car)

FlashCommand ==
  /\ pc # "dead" /\ hpc = "idle" /\ lastIn
  /\ Put(Get) /\ hpc' = "get" /\ raced' = Overlaps
  /\ UNCHANGED <<ctlOnly, diskVars, resVars, flag, first>>

(* ... a flashing blue light, as bright as what is on, replaces it, ...     *)
FlashStart ==
  /\ pc # "dead" /\ hpc = "get" /\ reply # "none"
  /\ Put(Start("platform", IF reply = "lit" THEN Blue ELSE Black))
  /\ reply' = "none" /\ hpc' = "flag"
  /\ UNCHANGED <<pc, req, i, tabVars, flashVars, hwVars, diskVars, resVars,
                 flag, first, raced>>

(* ... and the file (which is there if the light comes back after a reboot) *)
(* and then the flag say so.                                                *)
FlashFlag ==
  /\ pc # "dead" /\ hpc = "flag"
  /\ file' = TRUE /\ flag' = TRUE /\ hpc' = "idle"
  /\ UNCHANGED <<lightVars, lastIn, resVars, first, raced>>

(* light_control, command "reset". *)
ResetCommand ==
  /\ pc # "dead" /\ hpc = "idle" /\ lastIn
  /\ Put(Stop("platform")) /\ hpc' = "unflag"
  /\ UNCHANGED <<ctlOnly, diskVars, resVars, flag, first, raced>>

ResetDone ==
  /\ pc # "dead" /\ hpc = "unflag"
  /\ flag' = FALSE /\ file' = FALSE /\ hpc' = "idle"
  /\ UNCHANGED <<lightVars, lastIn, resVars, first, raced>>

(* tpzehin_status_handler, the first status after a reboot: the light comes *)
(* back if its plate is that of the last record, else the file is deleted.  *)
(* Neither says that a car is there: the status may have waited in the      *)
(* queue while the car left, and two empty plates are equal too.            *)
FirstStatus ==
  /\ pc # "dead" /\ hpc = "idle" /\ first /\ first' = FALSE
  /\ \/ ~file /\ UNCHANGED <<queue, file, hpc, raced>>
     \/ file /\ Put(Get) /\ hpc' = "get" /\ raced' = (raced \/ ~car)
        /\ UNCHANGED file
     \/ file /\ file' = FALSE /\ UNCHANGED <<queue, hpc, raced>>
  /\ UNCHANGED <<ctlOnly, lastIn, resVars, flag>>

(* tpzehin_msg_reget: after any stored message has been sent. *)
Resent ==
  /\ pc # "dead" /\ flag /\ Put(Stop("platform"))
  /\ UNCHANGED <<ctlOnly, diskVars, resVars, cmdVars, raced>>

-----------------------------------------------------------------------------
(* The device boots, with a car in the space or not, and what the disk      *)
(* holds from before.                                                       *)
Init ==
  /\ LightInit
  /\ car \in BOOLEAN /\ lastIn \in BOOLEAN /\ file \in BOOLEAN
  /\ res = "idle" /\ flag = FALSE /\ first = TRUE /\ hpc = "idle"
  /\ raced = FALSE

LightStep ==
  /\ Ctl \/ FlashThread
  /\ UNCHANGED <<diskVars, resVars, cmdVars, raced>>

Next ==
  \/ CameraLight \/ Result \/ ResultStop \/ ResultLast
  \/ FlashCommand \/ FlashStart \/ FlashFlag \/ ResetCommand \/ ResetDone
  \/ FirstStatus \/ Resent \/ LightStep

Spec == Init /\ [][Next]_vars

-----------------------------------------------------------------------------
TypeOK ==
  /\ LightTypeOK
  /\ {car, lastIn, file, flag, first, raced} \subseteq BOOLEAN
  /\ res \in {"idle", "stop", "last"}
  /\ hpc \in {"idle", "get", "flag", "unflag"}

(* "when this car leave, should restore the light": when the result that a  *)
(* car has left has been handled and nobody is at work, the platform's      *)
(* light is off, unless a command of the platform overlapped that result or *)
(* the first status after the reboot was handled later than it.             *)
LightRestored ==
  (/\ ~car /\ ~lastIn /\ res = "idle" /\ hpc = "idle"
   /\ queue = <<>> /\ pc = "idle" /\ ~raced)
    => list["platform"] = NoLight
=============================================================================
