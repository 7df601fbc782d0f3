---- MODULE MCTimerList ----
(* Model values and symmetry for the runs of TimerList. *)
EXTENDS TimerList, TLC

CONSTANTS t1, t2, t3, t4

MCTimers == {t1, t2, t3, t4}

\* Timers are compared by their time only.
Sym == Permutations(MCTimers)
====
