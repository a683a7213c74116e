------------------------------- MODULE MCUart -------------------------------
(* Instances of Uart for TLC. *)
EXTENDS Uart

(* Zero, and bits that say nothing is pending but pulse the line. *)
SomeGarbage == {{}, {"none", "other"}}

=============================================================================
