------------------------------- MODULE MCVdp -------------------------------
(* Three addresses: the cell at 0x1800 where task_b draws, one whose low    *)
(* byte looks like a register number, and the last of the video memory.     *)
EXTENDS Vdp

MCCells == {6144, 6304, 16383}
=============================================================================
