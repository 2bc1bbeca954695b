------------------------------- MODULE MCZbus -------------------------------
(* Two tasks on two TTYs with rings of one frame and one byte; a tick sends *)
(* one frame, so that the rings fill up and writes are refused.             *)
EXTENDS Zbus

MCRxLens == {1}
=============================================================================
