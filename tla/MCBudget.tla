------------------------------ MODULE MCBudget ------------------------------
(* MCThreads, with the count of the processor time. *)
EXTENDS MCThreads, RTBudget
=============================================================================
