------------------------------- MODULE MCQueue ------------------------------
(* Instances of RTQueue for TLC. *)
EXTENDS RTQueue
CONSTANTS x, y
=============================================================================
