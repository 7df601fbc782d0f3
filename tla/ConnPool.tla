------------------------------ MODULE ConnPool ------------------------------
(***************************************************************************)
(* connection_pool and connectionRAII of                                   *)
(* Webserver/CGImysql/sql_connection_pool.cpp: the MySQL connections that  *)
(* the threads of the pool borrow for the time of one process().           *)
(*                                                                         *)
(* A critical section of the mutex is one step: the only access outside    *)
(* it, connList.size() in GetConnection(), sees the list before it or      *)
(* after it.                                                               *)
(*                                                                         *)
(* reserve.wait() returns without a unit of the semaphore when a signal    *)
(* handler has run in the thread (EINTR); GetConnection() ignores that and *)
(* goes on to front() of a list that may be empty.                         *)
(***************************************************************************)
EXTENDS Integers, Sequences, FiniteSets

CONSTANTS
    Threads,       \* threads that use the pool
    Conns,         \* the connections init() makes
    None,          \* NULL
    MaxInterrupts, \* bound: the waits that signals interrupt
    AllowDestroy   \* the process may exit while threads run

ASSUME Parameters ==
    /\ IsFiniteSet(Threads) /\ IsFiniteSet(Conns)
    /\ None \notin Conns /\ MaxInterrupts \in Nat
    /\ AllowDestroy \in BOOLEAN

VARIABLES
    connList,
    reserve,       \* the semaphore
    m_FreeConn,
    m_CurConn,
    pc,            \* pc[t]: where t is in GetConnection(), process() or ReleaseConnection()
    con,           \* con[t]: conRAII, the connection t has
    closed,        \* connections closed by DestroyPool()
    destroyed,     \* DestroyPool() has run
    interrupted    \* history: how many waits a signal has interrupted

counts == <<m_FreeConn, m_CurConn>>
vars == <<connList, reserve, counts, pc, con, closed, destroyed, interrupted>>

MaxConn == Cardinality(Conns)

(* init() has pushed MaxConn different connections. *)
Init ==
    /\ connList \in [1..MaxConn -> Conns]
    /\ \A i, j \in 1..MaxConn : connList[i] = connList[j] => i = j
    /\ reserve = MaxConn
    /\ m_FreeConn = MaxConn /\ m_CurConn = 0
    /\ pc = [t \in Threads |-> "idle"]
    /\ con = [t \in Threads |-> None]
    /\ closed = {} /\ destroyed = FALSE /\ interrupted = 0

-----------------------------------------------------------------------------
(* GetConnection(): the test of connList.size(), which no lock protects. *)
Check(t) ==
    /\ pc[t] = "idle"
    /\ pc' = [pc EXCEPT ![t] = IF connList = <<>> THEN "use" ELSE "wait"]
    /\ UNCHANGED <<connList, reserve, counts, con, closed, destroyed, interrupted>>

Wait(t) ==
    /\ pc[t] = "wait"
    /\ reserve > 0
    /\ reserve' = reserve - 1
    /\ pc' = [pc EXCEPT ![t] = "take"]
    /\ UNCHANGED <<connList, counts, con, closed, destroyed, interrupted>>

(* sem_wait() fails with EINTR, and what wait() returns is not looked at.  (POSIX lets a
   signal interrupt the wait also when a unit is there.) *)
Interrupted(t) ==
    /\ pc[t] = "wait"
    /\ interrupted < MaxInterrupts
    /\ interrupted' = interrupted + 1
    /\ pc' = [pc EXCEPT ![t] = "take"]
    /\ UNCHANGED <<connList, reserve, counts, con, closed, destroyed>>

Take(t) ==
    /\ pc[t] = "take"
    /\ connList # <<>>
    /\ con' = [con EXCEPT ![t] = Head(connList)]
    /\ connList' = Tail(connList)
    /\ m_FreeConn' = m_FreeConn - 1 /\ m_CurConn' = m_CurConn + 1
    /\ pc' = [pc EXCEPT ![t] = "use"]
    /\ UNCHANGED <<reserve, closed, destroyed, interrupted>>

(* front() and pop_front() of an empty list are undefined: nothing is said of the program
   from here on, see Defined. *)
TakeNothing(t) ==
    /\ pc[t] = "take"
    /\ connList = <<>>
    /\ pc' = [pc EXCEPT ![t] = "undefined"]
    /\ UNCHANGED <<connList, reserve, counts, con, closed, destroyed, interrupted>>

(* Mutations of Return: ReleaseConnection() is not called. *)
MutantLeak(t) ==
    /\ pc[t] = "use"
    /\ con' = [con EXCEPT ![t] = None]
    /\ pc' = [pc EXCEPT ![t] = "idle"]
    /\ UNCHANGED <<connList, reserve, counts, closed, destroyed, interrupted>>

(* process() is over: ReleaseConnection(), which refuses NULL. *)
Return(t) ==
    /\ pc[t] = "use"
    /\ IF con[t] = None
       THEN pc' = [pc EXCEPT ![t] = "idle"] /\ UNCHANGED <<connList, counts, con>>
       ELSE /\ connList' = Append(connList, con[t])
            /\ m_FreeConn' = m_FreeConn + 1 /\ m_CurConn' = m_CurConn - 1
            /\ con' = [con EXCEPT ![t] = None]
            /\ pc' = [pc EXCEPT ![t] = "post"]
    /\ UNCHANGED <<reserve, closed, destroyed, interrupted>>

(* Mutation of Post: the semaphore is not posted. *)
MutantPost(t) ==
    /\ pc[t] = "post"
    /\ pc' = [pc EXCEPT ![t] = "idle"]
    /\ UNCHANGED <<connList, reserve, counts, con, closed, destroyed, interrupted>>

Post(t) ==
    /\ pc[t] = "post"
    /\ reserve' = reserve + 1
    /\ pc' = [pc EXCEPT ![t] = "idle"]
    /\ UNCHANGED <<connList, counts, con, closed, destroyed, interrupted>>

(* DestroyPool(), run by the destructor of the static pool when main() has returned;
   the threads are detached and still run. *)
DestroyPool ==
    /\ AllowDestroy /\ ~destroyed
    /\ destroyed' = TRUE
    /\ closed' = {connList[i] : i \in DOMAIN connList}
    /\ connList' = <<>>
    /\ IF connList = <<>> THEN UNCHANGED counts ELSE m_FreeConn' = 0 /\ m_CurConn' = 0
    /\ UNCHANGED <<reserve, pc, con, interrupted>>

At(place) == {t \in Threads : pc[t] = place}

\* The program has a meaning: no thread has called front() of the empty list.
Defined == At("undefined") = {}

Borrow(t) == \/ Check(t)
             \/ Wait(t)
             \/ Interrupted(t)
             \/ Take(t)
             \/ TakeNothing(t)
             \/ Return(t)
             \/ Post(t)

Next == Defined /\ ((\E t \in Threads : Borrow(t)) \/ DestroyPool)

Spec == Init /\ [][Next]_vars

(* Threads are scheduled, process() ends, and a semaphore above zero lets some waiting
   thread pass, not a given one. *)
FairSpec ==
    /\ Spec
    /\ WF_vars(Defined /\ \E t \in Threads : Wait(t))
    /\ \A t \in Threads :
          WF_vars(Defined /\ (Check(t) \/ Take(t) \/ TakeNothing(t) \/ Return(t) \/ Post(t)))

-----------------------------------------------------------------------------
TypeOK ==
    /\ connList \in Seq(Conns)
    /\ reserve \in Nat
    /\ m_FreeConn \in Int /\ m_CurConn \in Int
    /\ pc \in [Threads -> {"idle", "wait", "take", "use", "post", "undefined"}]
    /\ con \in [Threads -> Conns \cup {None}]
    /\ closed \subseteq Conns /\ destroyed \in BOOLEAN /\ interrupted \in Nat

Holders == {t \in Threads : con[t] # None}
Passed == At("take") \cup At("undefined")

\* A connection is lent to one thread, and is not in the list meanwhile: two threads
\* never send queries on one MYSQL handle.
OneHolder ==
    /\ \A t, u \in Holders : con[t] = con[u] => t = u
    /\ \A t \in Holders, i \in DOMAIN connList : connList[i] # con[t]
    /\ \A i, j \in DOMAIN connList : connList[i] = connList[j] => i = j

\* The semaphore counts the connections of the list that no thread is about to take or
\* has still to post, a post() that comes after the unlock() losing none; and a unit more
\* for each wait that was interrupted: such a thread takes a connection but not its unit.
ReserveCounts ==
    ~destroyed => reserve + Cardinality(Passed) + Cardinality(At("post"))
                     = Len(connList) + interrupted

\* Only an interrupted wait, or the end of the pool, lets a thread past reserve.wait() meet an
\* empty list, although connList.size() was read without the lock; and none does if there is
\* a connection for each thread.
TakeFinds ==
    ~destroyed /\ (interrupted = 0 \/ Cardinality(Threads) <= MaxConn)
    => Defined /\ \A t \in At("take") : connList # <<>>

\* m_FreeConn and m_CurConn are the connections in the list and on loan.
CountsAgree ==
    ~destroyed => m_FreeConn = Len(connList) /\ m_CurConn = Cardinality(Holders)

\* A thread that calls for a connection gets NULL only if all of them are lent at that
\* moment: the unlocked test of connList.size() never sees a list emptied by anything but
\* the loans. (When it does get NULL, process() goes on and hands NULL to the MySQL client.)
NullOnlyWhenAllLent ==
    [][\A t \in Threads :
          ~destroyed /\ pc[t] = "idle" /\ pc'[t] = "use" => Cardinality(Holders) = MaxConn]_vars

\* With a connection for each thread, no thread ever works without one.
EnoughForAll ==
    Cardinality(Threads) <= MaxConn /\ ~destroyed => \A t \in At("use") : con[t] # None

\* DestroyPool() closes no connection that a thread is using, and none that is closed
\* is lent afterwards.
ClosedUnused == \A t \in Holders : con[t] \notin closed

\* Some thread gets past the semaphore as long as one waits for it; after DestroyPool()
\* a waiter may wait for ever, and front() of an empty list ends what can be said.
WaitersServed == At("wait") # {} ~> At("take") # {} \/ destroyed \/ ~Defined

\* A thread has a connection only between Take and Return.
HeldInUse == \A t \in Threads : con[t] # None => pc[t] = "use"

\* No connection of init() disappears while the pool lives.
AllAccounted == ~destroyed => Len(connList) + Cardinality(Holders) = MaxConn

\* The list is empty when a thread has called front() in vain.
UndefinedOnEmpty == ~Defined => connList = <<>>

ClosedGone == \A i \in DOMAIN connList : connList[i] \notin closed

\* The inductive invariant of the pool: a connection has one holder, semaphore, list,
\* counters, loans and interrupted waits agree though the post() follows the unlock(), and
\* what DestroyPool() closed is neither lent nor in the list.
LendingInv == /\ TypeOK
        /\ HeldInUse
        /\ OneHolder
        /\ ReserveCounts
        /\ UndefinedOnEmpty
        /\ CountsAgree
        /\ AllAccounted
        /\ ClosedUnused
        /\ ClosedGone
=============================================================================
