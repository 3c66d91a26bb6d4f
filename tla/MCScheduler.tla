----------------------------- MODULE MCScheduler ------------------------------
(* Two schedules seeded and one that an admin may create: more than a pass     *)
(* takes, and two of them come due at every tick.                              *)
EXTENDS Scheduler

CONSTANTS index, drain, daily

Intervals == [s \in Schedules |-> IF s = daily THEN 2 ELSE 1]
============================================================================
