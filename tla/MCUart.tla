------------------------------- MODULE MCUart -------------------------------
(***************************************************************************)
(* The instances of the UART driver that TLC checks.                       *)
(***************************************************************************)
EXTENDS Uart
============================================================================
