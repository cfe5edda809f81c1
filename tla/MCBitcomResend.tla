--------------------------- MODULE MCBitcomResend ---------------------------
(* Instances of BitcomResend, and of its refinement of Outbox, for TLC.    *)
EXTENDS BitcomOutbox
=============================================================================
