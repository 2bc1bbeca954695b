---------------------------- MODULE MCSemaphore ----------------------------
(* Three tasks, a free semaphore and a taken one, counts saturating at two. *)
EXTENDS Semaphore

MCInitCount == [s \in {"a", "b"} |-> IF s = "a" THEN 1 ELSE 0]
============================================================================
