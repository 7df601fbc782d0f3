----------------------------- MODULE ThreadPool -----------------------------
(***************************************************************************)
(* threadpool<T>: append()/append_p() called by producers, run() executed  *)
(* by the detached worker threads.  The queue is guarded by the mutex      *)
(* m_queuelocker; the semaphore m_queuestat counts the wake-ups.  post()   *)
(* comes after unlock(), and wait() before lock(), so that a task may be   *)
(* in the queue before its wake-up exists and a worker may be awake and    *)
(* not yet have its task.                                                  *)
(*                                                                         *)
(* sem_wait() also returns when a signal handler has run in the thread     *)
(* (EINTR), without taking a unit: SIGALRM and SIGTERM are caught without  *)
(* SA_RESTART and no thread masks them.  run() ignores the result of       *)
(* wait(), and it is the re-test of m_workqueue.empty() that saves it.     *)
(***************************************************************************)
EXTENDS Naturals, Sequences, FiniteSets

CONSTANTS
    Tasks,        \* requests: pointers to http_conn
    Producers,    \* threads calling append(); in the server the main thread
    Workers,      \* m_thread_number worker threads
    MaxRequests,  \* m_max_requests
    Version,      \* "Webserver" or "chap.5": the test for a full queue differs
    MaxSpare,     \* bound: interrupted waits that no worker has made up for yet
    NoTask,       \* no request in a local variable
    Unlocked      \* m_queuelocker is free

ASSUME FiniteThreads == IsFiniteSet(Producers) /\ IsFiniteSet(Workers)
ASSUME DistinctThreads == /\ Producers \cap Workers = {}
                          /\ Unlocked \notin Producers \cup Workers
ASSUME PositiveSizes == MaxRequests \in Nat \ {0} /\ MaxSpare \in Nat
ASSUME KnownVersion == Version \in {"Webserver", "chap.5"}
ASSUME NullIsNoTask == NoTask \notin Tasks

VARIABLES
    m_workqueue,    \* std::list<T*>
    m_queuelocker,  \* the thread holding the mutex, or Unlocked
    m_queuestat,    \* value of the semaphore
    ppc,            \* ppc[p]: where p is in append()
    arg,            \* arg[p]: the request p passed
    result,         \* result[p]: what append() returned to p
    wpc,            \* wpc[w]: where w is in run()
    request,        \* request[w]: the local variable of run()
    spare           \* history: interrupted waits, less the times the list was found empty

pvars == <<ppc, arg, result>>
wvars == <<wpc, request, spare>>
vars == <<m_workqueue, m_queuelocker, m_queuestat, pvars, wvars>>

Threads == Producers \cup Workers

Init == /\ m_workqueue = <<>>
        /\ m_queuelocker = Unlocked
        /\ m_queuestat = 0
        /\ ppc = [p \in Producers |-> "out"]
        /\ arg = [p \in Producers |-> NoTask]
        /\ result = [p \in Producers |-> "none"]
        /\ wpc = [w \in Workers |-> "wait"]
        /\ request = [w \in Workers |-> NoTask]
        /\ spare = 0

-----------------------------------------------------------------------------
(* m_workqueue.size() >= m_max_requests, and > in chap.5/threadpool.h; the Mutant
   operators, here and below, are plausible mistakes in the definition that follows. *)
FullWebserver(n) == n >= MaxRequests
FullChap5(n) == n > MaxRequests
Full(n) == IF Version = "chap.5" THEN FullChap5(n) ELSE FullWebserver(n)

(* The length at which append() refuses. *)
Limit == IF Version = "chap.5" THEN MaxRequests + 1 ELSE MaxRequests

Acquire(t) == m_queuelocker = Unlocked /\ m_queuelocker' = t
Release == m_queuelocker' = Unlocked

(* append(request): lock, test the size, push, unlock, post. *)
Call(p) ==
    /\ ppc[p] = "out"
    /\ ppc' = [ppc EXCEPT ![p] = "lock"]
    /\ \E t \in Tasks : arg' = [arg EXCEPT ![p] = t]
    /\ result' = [result EXCEPT ![p] = "none"]
    /\ UNCHANGED <<m_workqueue, m_queuelocker, m_queuestat, wvars>>

LockToAppend(p) ==
    /\ ppc[p] = "lock"
    /\ Acquire(p)
    /\ ppc' = [ppc EXCEPT ![p] = "test"]
    /\ UNCHANGED <<m_workqueue, m_queuestat, arg, result, wvars>>

Refuse(p) ==
    /\ ppc[p] = "test"
    /\ Full(Len(m_workqueue))
    /\ Release
    /\ ppc' = [ppc EXCEPT ![p] = "out"]
    /\ result' = [result EXCEPT ![p] = "false"]
    /\ UNCHANGED <<m_workqueue, m_queuestat, arg, wvars>>

FindRoom(p) ==
    /\ ppc[p] = "test"
    /\ ~Full(Len(m_workqueue))
    /\ ppc' = [ppc EXCEPT ![p] = "push"]
    /\ UNCHANGED <<m_workqueue, m_queuelocker, m_queuestat, arg, result, wvars>>

Push(p) ==
    /\ ppc[p] = "push"
    /\ m_workqueue' = Append(m_workqueue, arg[p])
    /\ Release
    /\ ppc' = [ppc EXCEPT ![p] = "post"]
    /\ UNCHANGED <<m_queuestat, arg, result, wvars>>

(* Mutation of Post: a wake-up only for a queue that was empty. *)
MutantPost(p) ==
    /\ ppc[p] = "post"
    /\ m_queuestat' = IF Len(m_workqueue) = 1 THEN m_queuestat + 1 ELSE m_queuestat
    /\ ppc' = [ppc EXCEPT ![p] = "out"]
    /\ result' = [result EXCEPT ![p] = "true"]
    /\ UNCHANGED <<m_workqueue, m_queuelocker, arg, wvars>>

Post(p) ==
    /\ ppc[p] = "post"
    /\ m_queuestat' = m_queuestat + 1
    /\ ppc' = [ppc EXCEPT ![p] = "out"]
    /\ result' = [result EXCEPT ![p] = "true"]
    /\ UNCHANGED <<m_workqueue, m_queuelocker, arg, wvars>>

(* run(): wait, lock, test for an empty list, pop the front, unlock, handle. *)
Wait(w) ==
    /\ wpc[w] = "wait"
    /\ m_queuestat > 0
    /\ m_queuestat' = m_queuestat - 1
    /\ wpc' = [wpc EXCEPT ![w] = "lock"]
    /\ UNCHANGED <<m_workqueue, m_queuelocker, request, spare, pvars>>

(* sem_wait() fails with EINTR: wait() returns false, which run() does not look at. *)
Interrupted(w) ==
    /\ wpc[w] = "wait"
    /\ spare < MaxSpare
    /\ spare' = spare + 1
    /\ wpc' = [wpc EXCEPT ![w] = "lock"]
    /\ UNCHANGED <<m_workqueue, m_queuelocker, m_queuestat, request, pvars>>

LockToTake(w) ==
    /\ wpc[w] = "lock"
    /\ Acquire(w)
    /\ wpc' = [wpc EXCEPT ![w] = "test"]
    /\ UNCHANGED <<m_workqueue, m_queuestat, request, spare, pvars>>

(* Mutation of Front: the mutex is released as soon as front() is read. *)
MutantFront(w) ==
    /\ wpc[w] = "test"
    /\ Release
    /\ IF m_workqueue = <<>>
       THEN wpc' = [wpc EXCEPT ![w] = "wait"] /\ spare' = spare - 1 /\ UNCHANGED request
       ELSE /\ wpc' = [wpc EXCEPT ![w] = "pop"]
            /\ request' = [request EXCEPT ![w] = Head(m_workqueue)]
            /\ UNCHANGED spare
    /\ UNCHANGED <<m_workqueue, m_queuestat, pvars>>

(* empty(): unlock and wait again; otherwise front() is read. *)
Front(w) ==
    /\ wpc[w] = "test"
    /\ IF m_workqueue = <<>>
       THEN /\ Release
            /\ wpc' = [wpc EXCEPT ![w] = "wait"]
            /\ spare' = spare - 1
            /\ UNCHANGED request
       ELSE /\ wpc' = [wpc EXCEPT ![w] = "pop"]
            /\ request' = [request EXCEPT ![w] = Head(m_workqueue)]
            /\ UNCHANGED <<m_queuelocker, spare>>
    /\ UNCHANGED <<m_workqueue, m_queuestat, pvars>>

PopFront(w) ==
    /\ wpc[w] = "pop"
    /\ m_workqueue' = Tail(m_workqueue)
    /\ Release
    /\ wpc' = [wpc EXCEPT ![w] = "run"]
    /\ UNCHANGED <<m_queuestat, request, spare, pvars>>

Handle(w) ==
    /\ wpc[w] = "run"
    /\ wpc' = [wpc EXCEPT ![w] = "wait"]
    /\ request' = [request EXCEPT ![w] = NoTask]
    /\ UNCHANGED <<m_workqueue, m_queuelocker, m_queuestat, spare, pvars>>

-----------------------------------------------------------------------------
Produce(p) == \/ Call(p)
              \/ LockToAppend(p)
              \/ Refuse(p)
              \/ FindRoom(p)
              \/ Push(p)
              \/ Post(p)

Work(w) == \/ Wait(w)
           \/ Interrupted(w)
           \/ LockToTake(w)
           \/ Front(w)
           \/ PopFront(w)
           \/ Handle(w)

Next == (\E p \in Producers : Produce(p)) \/ (\E w \in Workers : Work(w))

Spec == Init /\ [][Next]_vars

(* A thread that can run does run; a thread whose mutex keeps becoming free
   gets it at last.  Nothing obliges a producer to call append() again, nor a
   signal to interrupt a wait. *)
FairSpec ==
    /\ Spec
    /\ \A p \in Producers : /\ WF_vars(Refuse(p) \/ FindRoom(p) \/ Push(p) \/ Post(p))
                            /\ SF_vars(LockToAppend(p))
    /\ \A w \in Workers : /\ WF_vars(Wait(w) \/ Front(w) \/ PopFront(w) \/ Handle(w))
                          /\ SF_vars(LockToTake(w))

-----------------------------------------------------------------------------
InAppend == {"test", "push"}
InRun == {"test", "pop"}

TypeOK ==
    /\ m_workqueue \in Seq(Tasks)
    /\ m_queuelocker \in Threads \cup {Unlocked}
    /\ m_queuestat \in Nat
    /\ ppc \in [Producers -> {"out", "lock", "test", "push", "post"}]
    /\ arg \in [Producers -> Tasks \cup {NoTask}]
    /\ result \in [Producers -> {"none", "true", "false"}]
    /\ wpc \in [Workers -> {"wait", "lock", "test", "pop", "run"}]
    /\ request \in [Workers -> Tasks \cup {NoTask}]
    /\ spare \in Nat

\* Producers that pushed and have not posted, workers that are awake and have not popped.
Pushed == {p \in Producers : ppc[p] = "post"}
Woken == {w \in Workers : wpc[w] \in {"lock", "test", "pop"}}

\* The queue is what the mutex protects: the thread inside a critical section of
\* append() or run() is the one that holds m_queuelocker.
HolderInside ==
    /\ \A p \in Producers : ppc[p] \in InAppend <=> m_queuelocker = p
    /\ \A w \in Workers : wpc[w] \in InRun <=> m_queuelocker = w

\* Every task in the queue has a wake-up: in the semaphore, about to be posted by its
\* producer, or in a worker that is awake.  Fewer would leave a task in the queue with
\* every worker asleep.  There are more only by the waits that a signal interrupted: such a
\* worker may take a task and leave that task's wake-up behind for another worker, which
\* then finds the list empty.
WakeupPerTask ==
    m_queuestat + Cardinality(Pushed) + Cardinality(Woken) = Len(m_workqueue) + spare

\* A worker finds the list empty only on account of an interrupted wait that no worker has
\* made up for; without one, the test of m_workqueue.empty() in run() never succeeds.
EmptyOnlyAfterInterrupt ==
    spare = 0 => \A w \in Workers : wpc[w] \in InRun => m_workqueue # <<>>

\* The request a worker read with front() is the one pop_front() removes.
PopsWhatItRead ==
    \A w \in Workers : wpc[w] = "pop" => m_workqueue # <<>> /\ request[w] = Head(m_workqueue)

\* At most m_max_requests requests wait, as the comment on m_max_requests says.
QueueBounded == Len(m_workqueue) <= MaxRequests

\* A producer between its size test and its push still has room: nobody else pushes while
\* it holds m_queuelocker.
RoomIsStillThere == \A p \in Producers : ppc[p] = "push" => ~Full(Len(m_workqueue))

LengthWithinLimit == Len(m_workqueue) <= Limit

\* Inside append() the argument is a request, inside the body of run() so is the
\* local variable.
LocalsGiven ==
    /\ \A p \in Producers : ppc[p] # "out" => arg[p] \in Tasks
    /\ \A w \in Workers : wpc[w] = "run" => request[w] \in Tasks

\* The inductive invariant of the pool: the mutex excludes, every request has its wake-up
\* though the post() follows the unlock() and a signal may end a wait, the bound holds at
\* the push, and a worker pops what it read.
PoolInv == /\ TypeOK
        /\ HolderInside
        /\ WakeupPerTask
        /\ RoomIsStillThere
        /\ PopsWhatItRead
        /\ LengthWithinLimit
        /\ LocalsGiven

Queue == INSTANCE TaskQueue WITH
            queue <- m_workqueue,
            answer <- [p \in Producers |->
                         IF ppc[p] = "post" THEN "true" ELSE result[p]],
            held <- [w \in Workers |->
                         IF wpc[w] = "run" THEN request[w] ELSE NoTask]

\* The pool is a bounded FIFO queue: each step of the code is a step of TaskQueue or
\* leaves it alone, and an accepted task does reach a worker.
ImplementsQueue == Queue!FairSpec
=============================================================================
