---------------------------- MODULE MCScheduler ----------------------------
(* Scheduler on a small instance: bounds on the clock and on the loops made. *)
EXTENDS Scheduler

CONSTANTS MaxClock, MaxLoops

MCNext == SchedulerNext /\ now' <= MaxClock /\ sched'.lastId <= MaxLoops

MCSpec == SchedulerInit /\ [][MCNext]_<<sched, now>>
=============================================================================
