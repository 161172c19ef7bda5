----------------------------- MODULE MCScheduler -----------------------------
(***************************************************************************)
(* Bounded instances of Scheduler.                                         *)
(***************************************************************************)
EXTENDS Scheduler
=============================================================================
