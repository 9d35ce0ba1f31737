---------------------------- MODULE MCHapDatabase ----------------------------
(* Instances of HapDatabase for TLC. *)
EXTENDS HapDatabase
=============================================================================
