---------------------------- MODULE BitcomOutbox ----------------------------
(***************************************************************************)
(* A retransmission table of BitcomResend is an Outbox: the refinement     *)
(* mapping for one of the tables, as long as SQLite statements and file    *)
(* writes succeed and no link is half open.                                *)
(***************************************************************************)
EXTENDS BitcomResend

CONSTANT Watched      \* the table that is looked at

ASSUME WatchedAssumption == Watched \in Kinds

(* The record whose picture is still being written has not arrived yet;    *)
(* the one the thread is sending is still held, even if the ftp thread has *)
(* deleted its row already because its picture cannot be read.             *)
Held ==
  (IF putPc[Watched] = "write" THEN table[Watched] \ {putRec[Watched]}
                               ELSE table[Watched])
  \cup (IF thrPc[Watched] = "send" THEN {thrRec[Watched]} ELSE {})

Torn == {r \in Held : HasPic(Watched) /\ file[Watched][r] # "full"}

Box == INSTANCE Outbox WITH
  made     <- next[Watched] - 1,
  limit    <- nr,
  held     <- Held,
  entering <- putRec[Watched],
  done     <- {r \in Rec : arrived[Watched][r] > 0},
  torn     <- Torn

(* Put, eviction, the retransmission thread and a restart between any two  *)
(* of their steps do to a table no more than the outbox allows: a record   *)
(* is given up only at the old end and only for want of room, leaves       *)
(* otherwise only once it was delivered, and a restart costs at most the   *)
(* record that was being put.                                              *)
IsOutbox == Box!Spec
=============================================================================
