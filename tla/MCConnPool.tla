----------------------------- MODULE MCConnPool -----------------------------
(* A small instance of ConnPool: fewer connections than threads. *)
EXTENDS ConnPool

CONSTANTS w1, w2, w3, m1, m2

ThreeThreads == {w1, w2, w3}
TwoConns == {m1, m2}
=============================================================================
