---- MODULE MCHttpWrite ----
(* A small and a large file, and a header of five bytes, for the runs of HttpWrite. *)
EXTENDS HttpWrite

CONSTANTS small, large

MCFiles == {small, large}
MCSize == [f \in MCFiles |-> IF f = small THEN 2 ELSE 8]
====
