-------------------------------- MODULE MCLog --------------------------------
(* A small instance of Log: two threads that log. *)
EXTENDS Log

CONSTANTS w1, w2

TwoWriters == {w1, w2}
=============================================================================
