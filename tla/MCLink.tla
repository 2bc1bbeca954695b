------------------------------- MODULE MCLink -------------------------------
(* Bytes of eight values, one of them a start; the numbers pass through all  *)
(* of them, and so do the CRCs, in another order.                            *)
EXTENDS Link

MCCrc == [seq \in Values |-> (3 * seq + 2) % ByteMod]

\* One or two bytes, with a start among them or not.
MCPayloads == {<<0>>, <<Sof>>, <<0, 1>>, <<0, Sof>>}

=============================================================================
