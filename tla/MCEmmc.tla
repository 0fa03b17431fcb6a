------------------------------- MODULE MCEmmc -------------------------------
(***************************************************************************)
(* The instance of the SD card that TLC checks.                            *)
(***************************************************************************)
EXTENDS EmmcProperties, Bitwise

BitOr(a, b) == a | b
=============================================================================
