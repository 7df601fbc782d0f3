----------------------------- MODULE TaskQueue -----------------------------
(***************************************************************************)
(* What the thread pool promises to the code that calls append():  a       *)
(* bounded FIFO of tasks.  A call either is answered true and its task     *)
(* joins the end of the queue, or is answered false because the queue is   *)
(* full; every task leaves the queue once, from the front, to one worker.  *)
(* ThreadPool.tla is the code that implements it, with its mutex and its   *)
(* semaphore.                                                              *)
(***************************************************************************)
EXTENDS Naturals, Sequences

CONSTANTS
    Tasks,      \* the requests given to append(), T* in the template
    Producers,  \* threads that call append()
    Workers,    \* threads of the pool
    Limit,      \* length at which append() refuses
    NoTask      \* a worker that holds no task

VARIABLES
    queue,   \* tasks accepted and not yet taken
    answer,  \* answer[p]: what append() last told p; "none" during a call
    held     \* held[w]: the task worker w runs, or NoTask

vars == <<queue, answer, held>>

Init == /\ queue = <<>>
        /\ answer = [p \in Producers |-> "none"]
        /\ held = [w \in Workers |-> NoTask]

Call(p) == /\ answer' = [answer EXCEPT ![p] = "none"]
           /\ UNCHANGED <<queue, held>>

Accept(p, t) == /\ Len(queue) < Limit
                /\ queue' = Append(queue, t)
                /\ answer' = [answer EXCEPT ![p] = "true"]
                /\ UNCHANGED held

Refuse(p) == /\ Len(queue) >= Limit
             /\ answer' = [answer EXCEPT ![p] = "false"]
             /\ UNCHANGED <<queue, held>>

Take(w) == /\ queue # <<>>
           /\ held[w] = NoTask
           /\ held' = [held EXCEPT ![w] = Head(queue)]
           /\ queue' = Tail(queue)
           /\ UNCHANGED answer

Finish(w) == /\ held[w] # NoTask
             /\ held' = [held EXCEPT ![w] = NoTask]
             /\ UNCHANGED <<queue, answer>>

Next == \/ \E p \in Producers : \/ Call(p)
                                \/ Refuse(p)
                                \/ \E t \in Tasks : Accept(p, t)
        \/ \E w \in Workers : Take(w) \/ Finish(w)

Spec == Init /\ [][Next]_vars

\* The tasks keep moving: while a worker is free and a task waits, some worker
\* takes one, and every worker finishes what it took.
FairSpec == /\ Spec
            /\ WF_vars(\E w \in Workers : Take(w))
            /\ \A w \in Workers : WF_vars(Finish(w))
=============================================================================
