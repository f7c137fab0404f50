---------------------------- MODULE MCScheduler ----------------------------
(* Two users, tasks of a short and a long interval. *)
EXTENDS Scheduler

CONSTANTS u1, u2
=============================================================================
