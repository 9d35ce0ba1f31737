----------------------------- MODULE MCWarehouse -----------------------------
(* Instances of Warehouse for TLC. *)
EXTENDS Warehouse, TLC

Symmetry == Permutations(Online)
=============================================================================
