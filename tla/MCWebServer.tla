---------------------------- MODULE MCWebServer ----------------------------
(* Small instances of WebServer. *)
EXTENDS WebServer, TLC

CONSTANTS c1, c2, f1, f2, w1, w2

TwoConns == {c1, c2}
OneFd == {f1}
TwoFds == {f1, f2}
OneWorker == {w1}
TwoWorkers == {w1, w2}

NoOverrun == [fd \in Fds |-> {}]

Proactor == [actormodel |-> 0, LISTENTrigmode |-> 0, CONNTrigmode |-> 0]
ReactorLT == [actormodel |-> 1, LISTENTrigmode |-> 0, CONNTrigmode |-> 0]
ReactorET == [actormodel |-> 1, LISTENTrigmode |-> 1, CONNTrigmode |-> 1]
LevelModes == {Proactor, ReactorLT}
MixedModes == {Proactor, ReactorET}

Served == {"more", "answer"}
AnyOutcome == {"more", "answer", "fail"}
AnswersAndFailures == {"answer", "fail"}
EitherLinger == BOOLEAN
Close == {FALSE}

OneEach == [c \in TwoConns |-> 1]
TwoAndOne == [c \in TwoConns |-> IF c = c1 THEN 2 ELSE 1]

\* Descriptors and workers are interchangeable, and connections that send equally much.
Sym == Permutations(TwoFds) \cup Permutations(TwoWorkers)
SymConns == Permutations(TwoConns) \cup Permutations(TwoWorkers)
=============================================================================
