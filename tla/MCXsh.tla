------------------------------- MODULE MCXsh -------------------------------
(* Two names with a common beginning and one longer than the line, which    *)
(* has four characters, bursts of two and a TTY of two frames.              *)
EXTENDS Xsh

MCNames == {<<"s", "t">>, <<"s", "s">>, <<"t", "s", "t", "s", "t">>}
=============================================================================
