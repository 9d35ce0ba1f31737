------------------------------ MODULE MCPairing ------------------------------
(* Instances of HapPairing for TLC. *)
EXTENDS HapPairing, TLC

Symmetry == Permutations(Ids) \cup Permutations(Socks)
==============================================================================
