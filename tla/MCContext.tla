----------------------------- MODULE MCContext ------------------------------
(* Instances of RTContext for TLC. *)
EXTENDS RTContext
CONSTANTS main, a, b
=============================================================================
