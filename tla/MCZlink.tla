------------------------------ MODULE MCZlink ------------------------------
(* A kernel TTY and one more.  TxChunk and FrameBudget are the code's; the  *)
(* sequence counter turns after 2, 3 or 4 frames instead of 256.            *)
EXTENDS Zlink
=============================================================================
