----------------------------- MODULE MCKernel ------------------------------
(***************************************************************************)
(* The instances of the kernel that TLC checks: each .cfg picks the number *)
(* of processes, the calls its programs make and the habits they keep.     *)
(***************************************************************************)
EXTENDS KernelProperties
============================================================================
