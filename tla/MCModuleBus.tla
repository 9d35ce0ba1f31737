----------------------------- MODULE MCModuleBus -----------------------------
(* Instances of ModuleBus for TLC. *)
EXTENDS ModuleBus
=============================================================================
