----------------------------- MODULE MCUartQueue -----------------------------
(* Instances of UartQueue for TLC. *)
EXTENDS UartQueue
=============================================================================
