--------------------------- MODULE MCSecureSession ---------------------------
(* Instances of SecureSession for TLC. *)
EXTENDS SecureSession
=============================================================================
