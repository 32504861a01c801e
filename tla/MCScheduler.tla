---------------------------- MODULE MCScheduler ----------------------------
(***************************************************************************)
(* The scheduler with a table of three places and one task too many.       *)
(***************************************************************************)
EXTENDS Scheduler
=============================================================================
