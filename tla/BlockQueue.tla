----------------------------- MODULE BlockQueue -----------------------------
(***************************************************************************)
(* block_queue<T> of log/block_queue.h: a ring buffer with a mutex and a   *)
(* condition variable.  Its members are used under m_mutex only, so an     *)
(* operation is one step, except that pop() may sleep in between.          *)
(***************************************************************************)
EXTENDS Integers, Sequences

CONSTANTS
    Threads,  \* threads that call the operations
    Items,    \* values of type T
    Blank,    \* T()
    MaxSize   \* m_max_size

ASSUME Parameters ==
    /\ MaxSize \in Nat \ {0}
    /\ Blank \notin Items

VARIABLES
    m_array, m_size, m_front, m_back,
    wait,     \* wait[t]: "none", "asleep" on m_cond, "awake" and about to lock again
    timed,    \* timed[t]: the pop() in which t waits has a deadline
    result    \* result[t]: what the last operation of t returned

ring == <<m_array, m_size, m_front, m_back>>
vars == <<ring, wait, timed, result>>

Ok(x) == [ok |-> TRUE, item |-> x]
Failed == [ok |-> FALSE, item |-> Blank]
Answer(t, r) == result' = [result EXCEPT ![t] = r]

Init ==
    /\ m_array = [i \in 0..MaxSize - 1 |-> Blank]
    /\ m_size = 0 /\ m_front = -1 /\ m_back = -1
    /\ wait = [t \in Threads |-> "none"]
    /\ timed = [t \in Threads |-> FALSE]
    /\ result = [t \in Threads |-> Failed]

\* The slot i places further around the ring.
Slot(s, i) == (s + i) % MaxSize
After(s) == Slot(s, 1)

(* The Mutant operators below are plausible mistakes in the definition that follows
   them: each makes a property of this module fail. *)

\* m_cond.broadcast()
MutantSignal ==
    IF \E t \in Threads : wait[t] = "asleep"
    THEN \E t \in Threads : wait[t] = "asleep" /\ wait' = [wait EXCEPT ![t] = "awake"]
    ELSE UNCHANGED wait
Broadcast == wait' = [t \in Threads |-> IF wait[t] = "asleep" THEN "awake" ELSE wait[t]]

Push(t, x) ==
    /\ wait[t] = "none"
    /\ Broadcast
    /\ IF m_size >= MaxSize
       THEN Answer(t, Failed) /\ UNCHANGED ring
       ELSE /\ m_back' = After(m_back)
            /\ m_array' = [m_array EXCEPT ![After(m_back)] = x]
            /\ m_size' = m_size + 1
            /\ m_front' = m_front
            /\ Answer(t, Ok(x))
    /\ UNCHANGED timed

\* The end of both pop().
Take(t) ==
    /\ m_front' = After(m_front)
    /\ m_size' = m_size - 1
    /\ Answer(t, Ok(m_array[After(m_front)]))
    /\ wait' = [wait EXCEPT ![t] = "none"]
    /\ UNCHANGED <<m_array, m_back>>

Sleep(t) == wait' = [wait EXCEPT ![t] = "asleep"] /\ UNCHANGED <<ring, result>>

GiveUp(t) == Answer(t, Failed) /\ wait' = [wait EXCEPT ![t] = "none"] /\ UNCHANGED ring

\* pop(item) and pop(item, ms_timeout), up to their return or their wait.
Pop(t, deadline) ==
    /\ wait[t] = "none"
    /\ timed' = [timed EXCEPT ![t] = deadline]
    /\ IF m_size <= 0 THEN Sleep(t) ELSE Take(t)

\* The wait returned 0 and t has the mutex again: pop(item) tests in a loop,
\* pop(item, ms_timeout) once.
MutantRetry(t) == wait[t] = "awake" /\ Take(t) /\ UNCHANGED timed
Retry(t) ==
    /\ wait[t] = "awake"
    /\ IF m_size > 0 THEN Take(t)
       ELSE IF timed[t] THEN GiveUp(t) ELSE Sleep(t)
    /\ UNCHANGED timed

\* pthread_cond_wait() may return without a wakeup.
Spurious(t) ==
    /\ wait[t] = "asleep"
    /\ wait' = [wait EXCEPT ![t] = "awake"]
    /\ UNCHANGED <<ring, timed, result>>

\* pthread_cond_timedwait() returns ETIMEDOUT; a broadcast() may have come between the
\* deadline and the return, which needs the mutex.
Expire(t) ==
    /\ timed[t] /\ wait[t] # "none"
    /\ GiveUp(t)
    /\ UNCHANGED timed

\* clear(), which nobody may sleep in.
MutantClear(t) ==
    /\ wait[t] = "none"
    /\ m_size' = 0
    /\ UNCHANGED <<m_array, m_front, m_back, wait, timed, result>>
Clear(t) ==
    /\ wait[t] = "none"
    /\ m_size' = 0 /\ m_front' = -1 /\ m_back' = -1
    /\ UNCHANGED <<m_array, wait, timed, result>>

\* front() and back().
Look(t, slot) ==
    /\ wait[t] = "none"
    /\ IF m_size = 0 THEN Answer(t, Failed)
       ELSE Answer(t, Ok(m_array[slot]))
    /\ UNCHANGED <<ring, wait, timed>>

Front(t) == Look(t, After(m_front))
Back(t) == Look(t, m_back)

Next == \E t \in Threads :
    \/ \E x \in Items : Push(t, x)
    \/ \E deadline \in BOOLEAN : Pop(t, deadline)
    \/ Retry(t)
    \/ Spurious(t)
    \/ Expire(t)
    \/ Clear(t)
    \/ Front(t)
    \/ Back(t)

Spec == Init /\ [][Next]_vars

\* A thread that woke up gets the mutex.
FairSpec == Spec /\ \A t \in Threads : WF_vars(Retry(t))

-----------------------------------------------------------------------------
TypeOK ==
    /\ m_array \in [0..MaxSize - 1 -> Items \cup {Blank}]
    /\ m_size \in 0..MaxSize
    /\ m_front \in -1..MaxSize - 1
    /\ m_back \in -1..MaxSize - 1
    /\ wait \in [Threads -> {"none", "asleep", "awake"}]
    /\ timed \in [Threads -> BOOLEAN]
    /\ result \in [Threads -> [ok : BOOLEAN, item : Items \cup {Blank}]]

\* The distance from m_front to m_back around the ring is m_size: the three members are
\* updated by different operations and none of them is derived from the others.
RingAgrees == Slot(m_front, m_size) = Slot(m_back, 0)

\* Nobody sleeps in pop() while an item is queued: whoever pushed it woke everybody, and a
\* thread goes to sleep only when it has seen the queue empty under the mutex.
NoSleeperForgotten == m_size > 0 => \A t \in Threads : wait[t] # "asleep"

\* An item in the queue means that push() has set m_back.
BackIsSlot == m_size > 0 => m_back # -1

\* The inductive invariant of the queue: the three members describe one ring, and nobody
\* sleeps on an item.
RingInv == TypeOK /\ RingAgrees /\ BackIsSlot /\ NoSleeperForgotten

\* A thread that waits in pop() while an item is queued returns, unless others take the items.
PopsServed ==
    \A t \in Threads :
        (wait[t] # "none" /\ m_size > 0) ~> (wait[t] = "none" \/ m_size = 0)

\* The items between m_front and m_back, the oldest first.
Contents == [i \in 1..m_size |-> m_array[Slot(m_front, i)]]

\* The pop() in which a thread waits.
Calling == [t \in Threads |-> IF wait[t] = "none" THEN "none"
                              ELSE IF timed[t] THEN "timed pop" ELSE "pop"]

Abstract == INSTANCE Fifo WITH queue <- Contents, calling <- Calling

\* The ring buffer is a bounded FIFO: items leave in the order they came, none twice and
\* none lost, wherever the indices wrapped, whoever slept and whatever clear() did; push()
\* is refused only by a full queue and only a pop() with a deadline returns without an item.
ImplementsFifo == Abstract!Spec
=============================================================================
