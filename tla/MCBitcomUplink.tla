--------------------------- MODULE MCBitcomUplink ---------------------------
(* BitcomUplink for TLC; all its parameters are bounds given in the configurations. *)
EXTENDS BitcomUplink
=============================================================================
