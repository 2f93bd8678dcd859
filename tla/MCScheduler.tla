---------------------------- MODULE MCScheduler ----------------------------
(* Scheduler on two tasks, one of which has an xstate. *)
EXTENDS Scheduler

CONSTANTS t1, t2

MCTask  == {t1, t2}
MCXTask == {t1}
============================================================================
