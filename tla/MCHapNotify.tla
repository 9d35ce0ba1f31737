----------------------------- MODULE MCHapNotify -----------------------------
(* Instances of HapNotify for TLC. *)
EXTENDS HapNotify
=============================================================================
