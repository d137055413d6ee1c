----------------------- MODULE MCSchedulerLifecycle -----------------------
(***************************************************************************)
(* SchedulerLifecycle for TLC; the configurations give the bounds.         *)
(***************************************************************************)
EXTENDS SchedulerLifecycle
=============================================================================
