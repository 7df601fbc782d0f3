---------------------------- MODULE MCBlockQueue ----------------------------
(* A small instance of BlockQueue: three threads, two items. *)
EXTENDS BlockQueue

CONSTANTS t1, t2, t3, a, b

ThreeThreads == {t1, t2, t3}
TwoItems == {a, b}
=============================================================================
