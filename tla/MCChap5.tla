------------------------------- MODULE MCChap5 -------------------------------
(* Small instances of Chap5. *)
EXTENDS Chap5

CONSTANTS c1, c2, f1, f2, w1

TwoConns == {c1, c2}
TwoFds == {f1, f2}

\* users[f2] follows users[f1].
Next1 == [fd \in Fds |-> IF fd = f1 THEN Fds \ {f1} ELSE {}]

OneWorker == {w1}
Level == {[actormodel |-> 0, LISTENTrigmode |-> 0, CONNTrigmode |-> 0]}
Either == BOOLEAN
All == {"more", "answer", "fail"}

Get(page, linger) == [page |-> page, linger |-> linger, head |-> 1, body |-> 0]
Post(page, linger, body) == [page |-> page, linger |-> linger, head |-> 1, body |-> body]

Pair(p, q) == [c \in TwoConns |-> IF c = c1 THEN p ELSE q]
Stopped == Pair(<<Get("forbidden", TRUE)>>, <<>>)
MCPlans == {Pair(<<Get("file", TRUE), Get("empty", FALSE)>>, <<>>),
            Pair(<<Post("file", TRUE, 2)>>, <<>>),
            Pair(<<Get("malformed", TRUE)>>, <<Get("missing", FALSE)>>),
            Stopped}
WhenStopped == {Stopped}
Thrice == [c \in TwoConns |-> IF c = c1 THEN 3 ELSE 1]
=============================================================================
