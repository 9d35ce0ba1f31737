------------------------------ MODULE MCOnline ------------------------------
(* Instances of Online for TLC. *)
EXTENDS Online
=============================================================================
