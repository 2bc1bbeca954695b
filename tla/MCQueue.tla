------------------------------ MODULE MCQueue ------------------------------
(* Three tasks that send and receive two values through a ring of two.     *)
EXTENDS Queue

MCSems == {"slots", "items"}
MCInitCount == [s \in MCSems |-> IF s = "slots" THEN 2 ELSE 0]
============================================================================
