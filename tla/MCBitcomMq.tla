----------------------------- MODULE MCBitcomMq -----------------------------
(* BitcomMq for TLC: more texts than slots, so that the array fills up. *)
EXTENDS BitcomMq
=============================================================================
