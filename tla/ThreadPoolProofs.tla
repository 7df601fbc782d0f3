-------------------------- MODULE ThreadPoolProofs --------------------------
(***************************************************************************)
(* Proofs about threadpool<T>, for any number of producers, workers and    *)
(* requests, and for any waits that signals interrupt.  The wake-ups are   *)
(* counted against the tasks; the rest of the inductive invariant is what  *)
(* a thread knows while it holds m_queuelocker.                            *)
(***************************************************************************)
EXTENDS ThreadPool, FiniteSetTheorems, TLAPS

-----------------------------------------------------------------------------
\* The two forms of the size test refuse exactly from Limit on.
LEMMA FullIsLimit ==
    ASSUME NEW n \in Nat
    PROVE  Limit \in Nat /\ (Full(n) <=> n >= Limit)
BY PositiveSizes, KnownVersion DEF Full, FullWebserver, FullChap5, Limit

\* Counting a thread in and out of a finite set of threads.
LEMMA CountIn ==
    ASSUME NEW S, IsFiniteSet(S), NEW x, x \notin S
    PROVE  Cardinality(S \cup {x}) = Cardinality(S) + 1
BY FS_AddElement

LEMMA CountOut ==
    ASSUME NEW S, IsFiniteSet(S), NEW x \in S
    PROVE  Cardinality(S \ {x}) = Cardinality(S) - 1
BY FS_RemoveElement

\* The two counted sets are finite, so that their sizes are numbers.
LEMMA CountsAreNumbers ==
    /\ IsFiniteSet(Pushed) /\ Cardinality(Pushed) \in Nat
    /\ IsFiniteSet(Woken) /\ Cardinality(Woken) \in Nat
<1>1. Pushed \subseteq Producers /\ Woken \subseteq Workers
  BY DEF Pushed, Woken
<1> QED BY <1>1, FiniteThreads, FS_Subset, FS_CardinalityType

\* A worker that is awake is one of the wake-ups that the invariant counts: it has a task in
\* the queue, or an interrupted wait is not made up for.
LEMMA WokenCounts ==
    ASSUME TypeOK, WakeupPerTask, NEW w \in Woken
    PROVE  Len(m_workqueue) + spare >= 1
<1>1. Woken # {} OBVIOUS
<1>2. Cardinality(Woken) # 0 BY <1>1, CountsAreNumbers, FS_EmptySet
<1>3. PICK c \in Nat : c = Cardinality(Woken) BY CountsAreNumbers
<1>4. PICK q \in Nat : q = Cardinality(Pushed) BY CountsAreNumbers
<1>5. m_queuestat \in Nat /\ m_queuestat + q + c = Len(m_workqueue) + spare
  BY <1>3, <1>4 DEF TypeOK, WakeupPerTask
<1>6. m_queuestat + q + c >= 1 BY <1>2, <1>3, <1>5
<1> QED BY <1>5, <1>6

LEMMA FindsEmpty ==
    ASSUME TypeOK, WakeupPerTask, NEW w \in Woken, m_workqueue = <<>>
    PROVE  spare - 1 \in Nat
<1>1. Len(m_workqueue) = 0 /\ spare \in Nat BY DEF TypeOK
<1>2. Len(m_workqueue) + spare >= 1 BY WokenCounts
<1> QED BY <1>1, <1>2

-----------------------------------------------------------------------------
LEMMA InitPoolInv == Init => PoolInv
<1> SUFFICES ASSUME Init PROVE PoolInv OBVIOUS
<1>1. TypeOK BY DEF Init, TypeOK
<1>2. HolderInside
  BY DistinctThreads DEF Init, HolderInside, InAppend, InRun
<1>3. WakeupPerTask
  <2>1. Pushed = {} /\ Woken = {} BY DEF Init, Pushed, Woken
  <2>2. Cardinality(Pushed) = 0 /\ Cardinality(Woken) = 0 BY <2>1, FS_EmptySet
  <2> QED BY <2>2 DEF Init, WakeupPerTask
<1>4. RoomIsStillThere /\ PopsWhatItRead BY DEF Init, RoomIsStillThere, PopsWhatItRead
<1>5. LengthWithinLimit BY FullIsLimit, PositiveSizes DEF Init, LengthWithinLimit, Limit
<1>6. LocalsGiven BY DEF Init, LocalsGiven
<1> QED BY <1>1, <1>2, <1>3, <1>4, <1>5, <1>6 DEF PoolInv

LEMMA TypeStep == PoolInv /\ [Next]_vars => TypeOK'
<1> SUFFICES ASSUME PoolInv, [Next]_vars PROVE TypeOK' OBVIOUS
<1> USE DEF PoolInv, TypeOK, pvars, wvars
<1>1. ASSUME NEW p \in Producers, Call(p) PROVE TypeOK' BY <1>1 DEF Call
<1>2. ASSUME NEW p \in Producers, LockToAppend(p) PROVE TypeOK'
  BY <1>2 DEF LockToAppend, Acquire, Threads
<1>3. ASSUME NEW p \in Producers, Refuse(p) PROVE TypeOK' BY <1>3 DEF Refuse, Release
<1>4. ASSUME NEW p \in Producers, FindRoom(p) PROVE TypeOK' BY <1>4 DEF FindRoom
<1>5. ASSUME NEW p \in Producers, Push(p) PROVE TypeOK'
  BY <1>5 DEF Push, Release, LocalsGiven
<1>6. ASSUME NEW p \in Producers, Post(p) PROVE TypeOK' BY <1>6 DEF Post
<1>7. ASSUME NEW w \in Workers, Wait(w) \/ Interrupted(w) PROVE TypeOK'
  BY <1>7 DEF Wait, Interrupted
<1>8. ASSUME NEW w \in Workers, LockToTake(w) PROVE TypeOK'
  BY <1>8 DEF LockToTake, Acquire, Threads
<1>9. ASSUME NEW w \in Workers, Front(w) PROVE TypeOK'
  <2>1. m_workqueue = <<>> => spare - 1 \in Nat
    <3>1. w \in Woken BY <1>9 DEF Front, Woken
    <3> QED BY <3>1, FindsEmpty
  <2> QED BY <1>9, <2>1 DEF Front, Release
<1>10. ASSUME NEW w \in Workers, PopFront(w) PROVE TypeOK'
  BY <1>10 DEF PopFront, Release, PopsWhatItRead
<1>11. ASSUME NEW w \in Workers, Handle(w) PROVE TypeOK' BY <1>11 DEF Handle
<1>12. CASE UNCHANGED vars BY <1>12 DEF vars
<1> QED
  BY <1>1, <1>2, <1>3, <1>4, <1>5, <1>6, <1>7, <1>8, <1>9, <1>10, <1>11, <1>12
  DEF Next, Produce, Work

LEMMA HolderStep == TypeOK /\ HolderInside /\ [Next]_vars => HolderInside'
<1> SUFFICES ASSUME TypeOK, HolderInside, [Next]_vars PROVE HolderInside' OBVIOUS
<1> USE DistinctThreads DEF TypeOK, HolderInside, InAppend, InRun, pvars, wvars
<1>1. ASSUME NEW p \in Producers, Call(p) \/ Post(p) PROVE HolderInside'
  BY <1>1 DEF Call, Post
<1>2. ASSUME NEW p \in Producers, LockToAppend(p) PROVE HolderInside'
  BY <1>2 DEF LockToAppend, Acquire
<1>3. ASSUME NEW p \in Producers, Refuse(p) PROVE HolderInside'
  BY <1>3 DEF Refuse, Release
<1>4. ASSUME NEW p \in Producers, FindRoom(p) PROVE HolderInside' BY <1>4 DEF FindRoom
<1>5. ASSUME NEW p \in Producers, Push(p) PROVE HolderInside' BY <1>5 DEF Push, Release
<1>6. ASSUME NEW w \in Workers, Wait(w) \/ Interrupted(w) \/ Handle(w) PROVE HolderInside'
  BY <1>6 DEF Wait, Interrupted, Handle
<1>7. ASSUME NEW w \in Workers, LockToTake(w) PROVE HolderInside'
  BY <1>7 DEF LockToTake, Acquire
<1>8. ASSUME NEW w \in Workers, Front(w) PROVE HolderInside' BY <1>8 DEF Front, Release
<1>9. ASSUME NEW w \in Workers, PopFront(w) PROVE HolderInside'
  BY <1>9 DEF PopFront, Release
<1>10. CASE UNCHANGED vars BY <1>10 DEF vars
<1> QED BY <1>1, <1>2, <1>3, <1>4, <1>5, <1>6, <1>7, <1>8, <1>9, <1>10
        DEF Next, Produce, Work

\* The counting argument, on numbers: q tasks, m units, p producers about to post, w workers
\* awake, k interrupted waits.
Balanced(q, m, p, w, k) ==
    /\ q \in Nat /\ m \in Nat /\ p \in Nat /\ w \in Nat /\ k \in Nat
    /\ m + p + w = q + k

LEMMA BalanceIs ==
    TypeOK => (WakeupPerTask <=> Balanced(Len(m_workqueue), m_queuestat, Cardinality(Pushed),
                                          Cardinality(Woken), spare))
BY CountsAreNumbers DEF TypeOK, WakeupPerTask, Balanced

\* Each step moves one task, or one wake-up, from one term of the sum to another.
LEMMA WakeupStep == PoolInv /\ TypeOK' /\ [Next]_vars => WakeupPerTask'
<1> DEFINE q == Len(m_workqueue)
           m == m_queuestat
           n == Cardinality(Pushed)
           c == Cardinality(Woken)
           k == spare
<1> SUFFICES ASSUME PoolInv, TypeOK', [Next]_vars
             PROVE  m' + n' + c' = q' + k'
  BY DEF WakeupPerTask
<1>0. /\ q \in Nat /\ m \in Nat /\ n \in Nat /\ c \in Nat /\ k \in Nat
      /\ m + n + c = q + k
  BY BalanceIs DEF PoolInv, Balanced
<1>a. TypeOK /\ WakeupPerTask BY DEF PoolInv
<1>b. Pushed' = Pushed => n' = n OBVIOUS
<1>c. Woken' = Woken => c' = c OBVIOUS
<1> USE DEF pvars, wvars
<1>1. ASSUME NEW p \in Producers,
             Call(p) \/ LockToAppend(p) \/ Refuse(p) \/ FindRoom(p)
      PROVE  q' = q /\ m' = m /\ n' = n /\ c' = c /\ k' = k
  <2>1. Pushed' = Pushed /\ Woken' = Woken
    BY <1>1, <1>a DEF TypeOK, Call, LockToAppend, Refuse, FindRoom, Pushed, Woken
  <2>2. UNCHANGED <<m_workqueue, m_queuestat, spare>>
    BY <1>1 DEF Call, LockToAppend, Refuse, FindRoom
  <2> QED BY <2>1, <2>2
<1>2. ASSUME NEW p \in Producers, Push(p)
      PROVE  q' = q + 1 /\ m' = m /\ n' = n + 1 /\ c' = c /\ k' = k
  <2>1. Pushed' = Pushed \cup {p} /\ p \notin Pushed /\ Woken' = Woken
    BY <1>2, <1>a DEF TypeOK, Push, Pushed, Woken
  <2>2. Len(m_workqueue') = Len(m_workqueue) + 1 /\ UNCHANGED <<m_queuestat, spare>>
    BY <1>2, <1>a DEF TypeOK, Push, LocalsGiven
  <2>3. Cardinality(Pushed') = Cardinality(Pushed) + 1
    BY <2>1, CountIn, CountsAreNumbers
  <2> QED BY <2>1, <2>2, <2>3
<1>3. ASSUME NEW p \in Producers, Post(p)
      PROVE  q' = q /\ m' = m + 1 /\ n' = n - 1 /\ c' = c /\ k' = k
  <2>1. Pushed' = Pushed \ {p} /\ p \in Pushed /\ Woken' = Woken
    BY <1>3, <1>a DEF TypeOK, Post, Pushed, Woken
  <2>2. Cardinality(Pushed') = Cardinality(Pushed) - 1
    BY <2>1, CountOut, CountsAreNumbers
  <2> QED BY <1>3, <2>1, <2>2 DEF Post
<1>4. ASSUME NEW w \in Workers, Wait(w) \/ Interrupted(w)
      PROVE  /\ q' = q /\ n' = n /\ c' = c + 1
             /\ (m' = m - 1 /\ k' = k) \/ (m' = m /\ k' = k + 1)
  <2>1. Woken' = Woken \cup {w} /\ w \notin Woken /\ Pushed' = Pushed
    BY <1>4, <1>a DEF TypeOK, Wait, Interrupted, Pushed, Woken
  <2>2. Cardinality(Woken') = Cardinality(Woken) + 1
    BY <2>1, CountIn, CountsAreNumbers
  <2> QED BY <1>4, <2>1, <2>2 DEF Wait, Interrupted
<1>5. ASSUME NEW w \in Workers, LockToTake(w) \/ Handle(w)
      PROVE  q' = q /\ m' = m /\ n' = n /\ c' = c /\ k' = k
  <2>1. Pushed' = Pushed /\ Woken' = Woken
    BY <1>5, <1>a DEF TypeOK, LockToTake, Handle, Pushed, Woken
  <2> QED BY <1>5, <2>1 DEF LockToTake, Handle
<1>6. ASSUME NEW w \in Workers, Front(w)
      PROVE  /\ q' = q /\ m' = m /\ n' = n
             /\ (c' = c /\ k' = k) \/ (c' = c - 1 /\ k' = k - 1)
  <2>1. CASE m_workqueue = <<>>
    <3>1. Woken' = Woken \ {w} /\ w \in Woken /\ Pushed' = Pushed
      BY <1>6, <2>1, <1>a DEF TypeOK, Front, Pushed, Woken
    <3>2. Cardinality(Woken') = Cardinality(Woken) - 1
      BY <3>1, CountOut, CountsAreNumbers
    <3> QED BY <1>6, <2>1, <3>1, <3>2 DEF Front
  <2>2. CASE m_workqueue # <<>>
    <3>1. Woken' = Woken /\ Pushed' = Pushed
      BY <1>6, <2>2, <1>a DEF TypeOK, Front, Pushed, Woken
    <3> QED BY <1>6, <2>2, <3>1 DEF Front
  <2> QED BY <2>1, <2>2
<1>7. ASSUME NEW w \in Workers, PopFront(w)
      PROVE  q' = q - 1 /\ m' = m /\ n' = n /\ c' = c - 1 /\ k' = k
  <2>1. Woken' = Woken \ {w} /\ w \in Woken /\ Pushed' = Pushed
    BY <1>7, <1>a DEF TypeOK, PopFront, Pushed, Woken
  <2>2. Cardinality(Woken') = Cardinality(Woken) - 1
    BY <2>1, CountOut, CountsAreNumbers
  <2>3. Len(m_workqueue') = Len(m_workqueue) - 1 /\ UNCHANGED <<m_queuestat, spare>>
    <3>1. m_workqueue # <<>> BY <1>7 DEF PopFront, PoolInv, PopsWhatItRead
    <3> QED BY <1>7, <1>a, <3>1 DEF PopFront, TypeOK
  <2> QED BY <2>1, <2>2, <2>3
<1>8. CASE UNCHANGED vars
  <2>1. q' = q /\ m' = m /\ n' = n /\ c' = c /\ k' = k
    BY <1>8 DEF vars, Pushed, Woken
  <2> QED BY <1>0, <2>1
<1> HIDE DEF q, m, n, c, k
<1>9. ASSUME NEW p \in Producers, Produce(p) PROVE m' + n' + c' = q' + k'
  <2>1. \/ q' = q /\ m' = m /\ n' = n /\ c' = c /\ k' = k
        \/ q' = q + 1 /\ m' = m /\ n' = n + 1 /\ c' = c /\ k' = k
        \/ q' = q /\ m' = m + 1 /\ n' = n - 1 /\ c' = c /\ k' = k
    BY <1>1, <1>2, <1>3, <1>9 DEF Produce
  <2> QED BY <1>0, <2>1
<1>10. ASSUME NEW w \in Workers, Work(w) PROVE m' + n' + c' = q' + k'
  <2>1. \/ q' = q /\ m' = m /\ n' = n /\ c' = c /\ k' = k
        \/ q' = q /\ n' = n /\ c' = c + 1
           /\ ((m' = m - 1 /\ k' = k) \/ (m' = m /\ k' = k + 1))
        \/ q' = q /\ m' = m /\ n' = n /\ c' = c - 1 /\ k' = k - 1
        \/ q' = q - 1 /\ m' = m /\ n' = n /\ c' = c - 1 /\ k' = k
    BY <1>4, <1>5, <1>6, <1>7, <1>10 DEF Work
  <2> QED BY <1>0, <2>1
<1> QED BY <1>8, <1>9, <1>10 DEF Next

\* What a thread learnt under the mutex stays true while it holds it.
LEMMA LocalStep ==
    PoolInv /\ [Next]_vars =>
        /\ RoomIsStillThere' /\ PopsWhatItRead' /\ LengthWithinLimit' /\ LocalsGiven'
<1> DEFINE Goal == RoomIsStillThere /\ PopsWhatItRead /\ LengthWithinLimit /\ LocalsGiven
<1> SUFFICES ASSUME PoolInv, [Next]_vars PROVE Goal' OBVIOUS
<1> USE DistinctThreads
        DEF PoolInv, TypeOK, HolderInside, InAppend, InRun, RoomIsStillThere,
            PopsWhatItRead, LengthWithinLimit, LocalsGiven, pvars, wvars
<1>0. Limit \in Nat /\ \A n \in Nat : Full(n) <=> n >= Limit BY FullIsLimit
<1>1. ASSUME NEW p \in Producers, Call(p) \/ LockToAppend(p) \/ Refuse(p) \/ Post(p)
      PROVE  Goal'
  BY <1>1 DEF Call, LockToAppend, Refuse, Post
<1>2. ASSUME NEW p \in Producers, FindRoom(p) PROVE Goal' BY <1>2 DEF FindRoom
<1>3. ASSUME NEW p \in Producers, Push(p) PROVE Goal'
  <2>1. Len(m_workqueue') = Len(m_workqueue) + 1 /\ Len(m_workqueue) \in Nat
    BY <1>3 DEF Push
  <2>2. LengthWithinLimit' BY <1>0, <1>3, <2>1 DEF Push, Limit
  <2>3. \A q \in Producers : ppc'[q] # "push" BY <1>3 DEF Push
  <2>4. \A w \in Workers : wpc'[w] # "pop" BY <1>3 DEF Push
  <2> QED BY <1>3, <2>2, <2>3, <2>4 DEF Push
<1>4. ASSUME NEW w \in Workers, Wait(w) \/ Interrupted(w) \/ LockToTake(w) \/ Handle(w)
      PROVE  Goal'
  BY <1>4 DEF Wait, Interrupted, LockToTake, Handle
<1>5. ASSUME NEW w \in Workers, Front(w) PROVE Goal' BY <1>5 DEF Front
<1>6. ASSUME NEW w \in Workers, PopFront(w) PROVE Goal'
  <2>1. m_workqueue # <<>> /\ request[w] = Head(m_workqueue) BY <1>6 DEF PopFront
  <2>2. request[w] \in Tasks BY <2>1
  <2>3. Len(m_workqueue') = Len(m_workqueue) - 1 BY <1>6, <2>1 DEF PopFront
  <2>4. LengthWithinLimit' BY <1>0, <2>3 DEF Limit
  <2>5. \A p \in Producers : ppc'[p] # "push" BY <1>6 DEF PopFront
  <2>6. \A v \in Workers : wpc'[v] # "pop" BY <1>6 DEF PopFront
  <2> QED BY <1>6, <2>2, <2>4, <2>5, <2>6 DEF PopFront
<1>7. CASE UNCHANGED vars BY <1>7 DEF vars
<1> QED BY <1>1, <1>2, <1>3, <1>4, <1>5, <1>6, <1>7 DEF Next, Produce, Work

\* The invariants of the pool hold together, and each of its steps keeps them.
THEOREM Invariance == Spec => []PoolInv
<1>1. PoolInv /\ [Next]_vars => PoolInv'
  BY TypeStep, HolderStep, WakeupStep, LocalStep DEF PoolInv
<1> QED BY InitPoolInv, <1>1, PTL DEF Spec
-----------------------------------------------------------------------------
\* The variables of the pool keep their types: in particular the semaphore is never
\* decremented below zero and only requests enter the queue.
THEOREM TypeCorrect == Spec => []TypeOK
<1>1. PoolInv => TypeOK BY DEF PoolInv
<1> QED BY Invariance, <1>1, PTL

\* Two threads are never inside the critical sections of append() and run() at once.
THEOREM MutualExclusion == Spec => []HolderInside
<1>1. PoolInv => HolderInside BY DEF PoolInv
<1> QED BY Invariance, <1>1, PTL

\* No wake-up is lost, whatever the number of threads, and however often a signal ends a
\* wait: the wake-ups are at least as many as the tasks, and exceed them only by the
\* interrupted waits.
THEOREM NoLostWakeup == Spec => []WakeupPerTask
<1>1. PoolInv => WakeupPerTask BY DEF PoolInv
<1> QED BY Invariance, <1>1, PTL

\* What the re-test of m_workqueue.empty() in run() is for: a worker that returns from
\* wait() finds no task only if some wait was interrupted.
THEOREM EmptyNeedsInterrupt == Spec => []EmptyOnlyAfterInterrupt
<1>1. PoolInv => EmptyOnlyAfterInterrupt
  <2> SUFFICES ASSUME PoolInv, spare = 0, NEW w \in Workers, wpc[w] \in InRun
               PROVE  m_workqueue # <<>>
    BY DEF EmptyOnlyAfterInterrupt
  <2>1. w \in Woken BY DEF InRun, Woken
  <2>2. Len(m_workqueue) + spare >= 1 BY <2>1, WokenCounts DEF PoolInv
  <2>3. Len(m_workqueue) # 0 BY <2>2 DEF PoolInv, TypeOK
  <2> QED BY <2>3
<1> QED BY Invariance, <1>1, PTL

\* pop_front() removes the request that front() returned, also when other threads
\* append and take in between.
THEOREM PopsTheFront == Spec => []PopsWhatItRead
<1>1. PoolInv => PopsWhatItRead BY DEF PoolInv
<1> QED BY Invariance, <1>1, PTL

\* With the size test of Webserver/threadpool the queue respects m_max_requests; with
\* that of chap.5 one more request may wait.
THEOREM QueueRespectsMaximum ==
    ASSUME Version = "Webserver"
    PROVE  Spec => []QueueBounded
<1>1. PoolInv => QueueBounded
  BY DEF PoolInv, LengthWithinLimit, Limit, QueueBounded
<1> QED BY Invariance, <1>1, PTL

-----------------------------------------------------------------------------
\* A step of the pool is a step of the abstract queue or leaves it alone: Push is
\* Accept, PopFront is Take, and the semaphore and the mutex do not show.
LEMMA StepRefines == PoolInv /\ [Next]_vars => [Queue!Next]_(Queue!vars)
<1> SUFFICES ASSUME PoolInv, [Next]_vars PROVE [Queue!Next]_(Queue!vars) OBVIOUS
<1> DEFINE answer == [p \in Producers |-> IF ppc[p] = "post" THEN "true" ELSE result[p]]
           held == [w \in Workers |-> IF wpc[w] = "run" THEN request[w] ELSE NoTask]
<1> USE DEF PoolInv, TypeOK, pvars, wvars
<1>0. Limit \in Nat /\ \A n \in Nat : Full(n) <=> n >= Limit BY FullIsLimit
<1>1. ASSUME NEW p \in Producers, Call(p) PROVE Queue!Call(p)
  <2>1. answer' = [answer EXCEPT ![p] = "none"] BY <1>1 DEF Call
  <2>2. held' = held /\ m_workqueue' = m_workqueue BY <1>1 DEF Call
  <2> QED BY <2>1, <2>2 DEF Queue!Call
<1>2. ASSUME NEW p \in Producers, LockToAppend(p) \/ FindRoom(p) \/ Post(p)
      PROVE  UNCHANGED Queue!vars
  <2>1. answer' = answer BY <1>2 DEF LockToAppend, FindRoom, Post
  <2>2. held' = held /\ m_workqueue' = m_workqueue
    BY <1>2 DEF LockToAppend, FindRoom, Post
  <2> QED BY <2>1, <2>2 DEF Queue!vars
<1>3. ASSUME NEW p \in Producers, Refuse(p) PROVE Queue!Refuse(p)
  <2>1. answer' = [answer EXCEPT ![p] = "false"] BY <1>3 DEF Refuse
  <2>2. held' = held /\ m_workqueue' = m_workqueue BY <1>3 DEF Refuse
  <2>3. Len(m_workqueue) >= Limit BY <1>0, <1>3 DEF Refuse
  <2> QED BY <2>1, <2>2, <2>3 DEF Queue!Refuse
<1>4. ASSUME NEW p \in Producers, Push(p) PROVE \E t \in Tasks : Queue!Accept(p, t)
  <2>1. answer' = [answer EXCEPT ![p] = "true"] BY <1>4 DEF Push
  <2>2. held' = held BY <1>4 DEF Push
  <2>3. Len(m_workqueue) < Limit BY <1>0, <1>4 DEF Push, RoomIsStillThere
  <2>4. PICK t \in Tasks : t = arg[p] BY <1>4 DEF Push, LocalsGiven
  <2>5. m_workqueue' = Append(m_workqueue, t) BY <1>4, <2>4 DEF Push
  <2>6. Queue!Accept(p, t) BY <2>1, <2>2, <2>3, <2>5 DEF Queue!Accept
  <2> QED BY <2>6
<1>5. ASSUME NEW w \in Workers,
             Wait(w) \/ Interrupted(w) \/ LockToTake(w) \/ Front(w)
      PROVE  UNCHANGED Queue!vars
  <2>1. answer' = answer BY <1>5 DEF Wait, Interrupted, LockToTake, Front
  <2>2. held' = held BY <1>5 DEF Wait, Interrupted, LockToTake, Front
  <2>3. m_workqueue' = m_workqueue BY <1>5 DEF Wait, Interrupted, LockToTake, Front
  <2> QED BY <2>1, <2>2, <2>3 DEF Queue!vars
<1>6. ASSUME NEW w \in Workers, PopFront(w) PROVE Queue!Take(w)
  <2>1. m_workqueue # <<>> /\ request[w] = Head(m_workqueue)
    BY <1>6 DEF PopFront, PopsWhatItRead
  <2>2. held' = [held EXCEPT ![w] = Head(m_workqueue)] /\ held[w] = NoTask
    BY <1>6, <2>1 DEF PopFront
  <2>3. answer' = answer /\ m_workqueue' = Tail(m_workqueue) BY <1>6 DEF PopFront
  <2> QED BY <2>1, <2>2, <2>3 DEF Queue!Take
<1>7. ASSUME NEW w \in Workers, Handle(w) PROVE Queue!Finish(w)
  <2>1. held[w] # NoTask BY <1>7, NullIsNoTask DEF Handle, LocalsGiven
  <2>2. held' = [held EXCEPT ![w] = NoTask] BY <1>7 DEF Handle
  <2>3. answer' = answer /\ m_workqueue' = m_workqueue BY <1>7 DEF Handle
  <2> QED BY <2>1, <2>2, <2>3 DEF Queue!Finish
<1>8. CASE UNCHANGED vars BY <1>8 DEF vars, Queue!vars
<1> HIDE DEF answer, held, PoolInv, TypeOK, pvars, wvars
<1>9. ASSUME NEW p \in Producers, Produce(p) PROVE Queue!Next \/ UNCHANGED Queue!vars
  BY <1>1, <1>2, <1>3, <1>4, <1>9 DEF Produce, Queue!Next
<1>10. ASSUME NEW w \in Workers, Work(w) PROVE Queue!Next \/ UNCHANGED Queue!vars
  BY <1>5, <1>6, <1>7, <1>10 DEF Work, Queue!Next
<1> QED BY <1>8, <1>9, <1>10 DEF Next

\* The pool implements the bounded FIFO queue: requests are neither lost, duplicated
\* nor overtaken between append() and the worker that takes them.
THEOREM PoolIsAQueue == Spec => Queue!Spec
<1>1. Init => Queue!Init BY DEF Init, Queue!Init
<1> QED BY <1>1, Invariance, StepRefines, PTL DEF Spec, Queue!Spec
=============================================================================
