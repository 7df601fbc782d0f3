---------------------------- MODULE MCThreadPool ----------------------------
(* A small instance of ThreadPool: producers, workers and tasks are model values. *)
EXTENDS ThreadPool

CONSTANTS p1, p2, w1, w2, t1, t2

MCProducers == {p1, p2}
MCWorkers == {w1, w2}
MCTasks == {t1, t2}
=============================================================================
