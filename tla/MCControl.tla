----------------------------- MODULE MCControl ------------------------------
(* Lists of no, one or two frames, the last one full or not, a task number   *)
(* that is too high and none, and two requests that wait.                    *)
EXTENDS Control

MCBoot == {0, 1}

\* The first number that is no slot.
MCTargets == {MaxTasks}

=============================================================================
