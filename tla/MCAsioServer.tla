---------------------------- MODULE MCAsioServer ----------------------------
(* Two io_contexts, and either a client with one request beside a silent one or one
   client with two requests. *)
EXTENDS AsioServer

CONSTANTS c1, c2

TwoConns == {c1, c2}
OneAndNone == [c \in TwoConns |-> IF c = c1 THEN 1 ELSE 0]
TwoAlone == [c \in TwoConns |-> IF c = c1 THEN 2 ELSE None]
EitherLoad == {OneAndNone, TwoAlone}
=============================================================================
