------------------------------- MODULE MCHeap -------------------------------
(* A heap that holds up to five of the smallest blocks; the requests are    *)
(* odd and even, too big, and the one that wraps.                           *)
EXTENDS Heap

MCRequests == {0, 1, 4, 11, 40, 63}
=============================================================================
