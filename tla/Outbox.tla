------------------------------- MODULE Outbox -------------------------------
(***************************************************************************)
(* What a retransmission table promises to the code that puts records into *)
(* it, without tables, files, mutexes and threads.  Records are numbered   *)
(* in the order they are made.  A record that cannot be delivered at once  *)
(* enters the outbox; making room for it may cost the oldest held records, *)
(* and only as many as the limit asks for.  A held record otherwise leaves *)
(* only after it was delivered.  A crash can lose the record that is just  *)
(* entering, or leave it torn, a row without its picture, which may be     *)
(* dropped later; it loses nothing that was held before.                   *)
(***************************************************************************)
EXTENDS Integers, FiniteSets

CONSTANT MaxLimit      \* largest limit that can be configured

VARIABLES
  made,       \* number of records made so far
  limit,      \* how many records the outbox should hold
  held,       \* the records in the outbox
  entering,   \* the record on its way into it, 0: none
  done,       \* the records that were delivered
  torn        \* the held records whose picture is missing

vars == <<made, limit, held, entering, done, torn>>

Init ==
  /\ made = 0 /\ entering = 0
  /\ limit \in 0..MaxLimit
  /\ held = {} /\ done = {} /\ torn = {}

(* A record is made, and delivered directly or sent on to the outbox. *)
Offer ==
  /\ entering = 0
  /\ made' = made + 1
  /\ \/ done' = done \cup {made'} /\ UNCHANGED entering
     \/ entering' = made' /\ UNCHANGED done
  /\ UNCHANGED <<limit, held, torn>>

(* Room is made: the oldest records go, and limit - 1 others stay. *)
Evict ==
  /\ entering # 0
  /\ \E gone \in SUBSET held :
        /\ \A r \in gone, q \in held \ gone : r < q
        /\ Cardinality(held \ gone) >= limit - 1
        /\ held' = held \ gone
        /\ torn' = torn \ gone
  /\ UNCHANGED <<made, limit, entering, done>>

Store ==
  /\ entering # 0
  /\ held' = held \cup {entering}
  /\ entering' = 0
  /\ UNCHANGED <<made, limit, done, torn>>

(* Something is delivered under the name of a held record.  A torn record  *)
(* has left the table by then.                                             *)
Deliver ==
  /\ \E r \in held :
        /\ done' = done \cup {r}
        /\ \E gone \in SUBSET ({r} \cap torn) :
              held' = held \ gone /\ torn' = torn \ gone
  /\ UNCHANGED <<made, limit, entering>>

(* A record leaves: it was delivered, or there is no picture to deliver. *)
Retire ==
  /\ \E r \in held \cap (done \cup torn) :
        held' = held \ {r} /\ torn' = torn \ {r}
  /\ UNCHANGED <<made, limit, entering, done>>

Crash ==
  /\ entering' = 0
  /\ limit' \in 0..MaxLimit
  /\ \E gone \in SUBSET torn, new \in SUBSET ({entering} \ {0}) :
        /\ held' = (held \ gone) \cup new
        /\ torn' = (torn \ gone) \cup new
  /\ UNCHANGED <<made, done>>

Next == Offer \/ Evict \/ Store \/ Deliver \/ Retire \/ Crash

Spec == Init /\ [][Next]_vars
=============================================================================
