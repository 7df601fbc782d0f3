---- MODULE MCUserTable ----
(* Symmetry for the runs of UserTable. *)
EXTENDS UserTable, TLC

Sym == Permutations(Threads)
====
