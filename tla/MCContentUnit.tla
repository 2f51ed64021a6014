--------------------------- MODULE MCContentUnit ---------------------------
(* One unit, two source versions, a few bodies. *)
EXTENDS ContentUnit, TLC
=============================================================================
