---------------------------- MODULE MCScheduler ----------------------------
(* Three slots; weights below TASK_WEIGHT_MIN and above TASK_WEIGHT_MAX.     *)
EXTENDS Scheduler

MCWeightArgs == {0, 4}
============================================================================
