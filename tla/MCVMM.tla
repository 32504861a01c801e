------------------------------- MODULE MCVMM -------------------------------
(***************************************************************************)
(* VMM with two slots of two pages each, and three frames of which two are *)
(* below four megabytes.                                                   *)
(***************************************************************************)
EXTENDS VMM
=============================================================================
