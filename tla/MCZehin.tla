------------------------------ MODULE MCZehin ------------------------------
(* Instances of Zehin for TLC. *)
EXTENDS Zehin
=============================================================================
