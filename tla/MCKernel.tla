----------------------------- MODULE MCKernel ------------------------------
(* xsh with weight 2, b and c with weight 1 in three slots; a queue of one. *)
EXTENDS Kernel

MCSems == {"slots", "items"}
MCInitCount == [s \in MCSems |-> IF s = "slots" THEN 1 ELSE 0]
MCWeightOf == [p \in {"xsh", "b", "c"} |-> IF p = "xsh" THEN 2 ELSE 1]
============================================================================
