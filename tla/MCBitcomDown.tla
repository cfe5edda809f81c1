---------------------------- MODULE MCBitcomDown ----------------------------
(* The downlink with a few commands and closed connections. *)
EXTENDS BitcomDown
=============================================================================
