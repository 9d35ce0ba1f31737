---------------------------- MODULE MCHapObjects ----------------------------
(* Three addresses of accessories for one primary and two bridged ones. *)
EXTENDS HapObjects
Symmetric == Permutations(Accs)
=============================================================================
