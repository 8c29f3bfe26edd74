------------------------- MODULE MCDurabilityWorker -------------------------
(* Model-checking instance of DurabilityWorker. *)
EXTENDS DurabilityWorker

CONSTANTS w1
=============================================================================
