--------------------------- MODULE ConnPoolProofs ---------------------------
(***************************************************************************)
(* Proofs about connection_pool, for any number of threads, connections    *)
(* and interrupted waits, with and without DestroyPool().                  *)
(***************************************************************************)
EXTENDS ConnPool, FiniteSetTheorems, TLAPS

-----------------------------------------------------------------------------
LEMMA CountsAreNumbers ==
    /\ MaxConn \in Nat
    /\ IsFiniteSet(Holders) /\ Cardinality(Holders) \in Nat
    /\ \A p : IsFiniteSet(At(p)) /\ Cardinality(At(p)) \in Nat
    /\ IsFiniteSet(Passed) /\ Cardinality(Passed) \in Nat
<1>1. Holders \subseteq Threads /\ Passed \subseteq Threads /\ \A p : At(p) \subseteq Threads
  BY DEF Holders, Passed, At
<1> QED BY <1>1, Parameters, FS_Subset, FS_CardinalityType DEF MaxConn

\* A thread enters or leaves a place that is counted.
LEMMA MovesPassed ==
    ASSUME TypeOK, NEW t \in Threads, NEW q, pc' = [pc EXCEPT ![t] = q]
    PROVE  /\ pc[t] \notin {"take", "undefined"} /\ q \in {"take", "undefined"}
              => Cardinality(Passed') = Cardinality(Passed) + 1
           /\ pc[t] \in {"take", "undefined"} /\ q \notin {"take", "undefined"}
              => Cardinality(Passed') = Cardinality(Passed) - 1
           /\ (pc[t] \in {"take", "undefined"} <=> q \in {"take", "undefined"})
              => Passed' = Passed
<1> DEFINE P == {"take", "undefined"}
<1>0. Passed = {u \in Threads : pc[u] \in P} /\ Passed' = {u \in Threads : pc'[u] \in P}
  BY DEF Passed, At
<1> HIDE DEF P
<1>1. CASE pc[t] \notin P /\ q \in P
  <2>1. Passed' = Passed \cup {t} /\ t \notin Passed BY <1>0, <1>1 DEF TypeOK
  <2> QED BY <1>1, <2>1, CountsAreNumbers, FS_AddElement DEF P
<1>2. CASE pc[t] \in P /\ q \notin P
  <2>1. Passed' = Passed \ {t} /\ t \in Passed BY <1>0, <1>2 DEF TypeOK
  <2> QED BY <1>2, <2>1, CountsAreNumbers, FS_RemoveElement DEF P
<1>3. CASE pc[t] \in P <=> q \in P
  <2>1. Passed' = Passed BY <1>0, <1>3 DEF TypeOK
  <2> QED BY <1>3, <2>1 DEF P
<1> QED BY <1>1, <1>2, <1>3 DEF P

LEMMA MovesPost ==
    ASSUME TypeOK, NEW t \in Threads, NEW q, pc' = [pc EXCEPT ![t] = q]
    PROVE  /\ pc[t] # "post" /\ q = "post"
              => Cardinality(At("post")') = Cardinality(At("post")) + 1
           /\ pc[t] = "post" /\ q # "post"
              => Cardinality(At("post")') = Cardinality(At("post")) - 1
           /\ pc[t] # "post" /\ q # "post" => At("post")' = At("post")
<1>1. CASE pc[t] # "post" /\ q = "post"
  <2>1. At("post")' = At("post") \cup {t} /\ t \notin At("post") BY <1>1 DEF TypeOK, At
  <2> QED BY <1>1, <2>1, CountsAreNumbers, FS_AddElement
<1>2. CASE pc[t] = "post" /\ q # "post"
  <2>1. At("post")' = At("post") \ {t} /\ t \in At("post") BY <1>2 DEF TypeOK, At
  <2> QED BY <1>2, <2>1, CountsAreNumbers, FS_RemoveElement
<1>3. CASE pc[t] # "post" /\ q # "post"
  <2>1. At("post")' = At("post") BY <1>3 DEF TypeOK, At
  <2> QED BY <1>3, <2>1
<1> QED BY <1>1, <1>2, <1>3

LEMMA TypeStep == TypeOK /\ [Next]_vars => TypeOK'
<1> SUFFICES ASSUME TypeOK, [Next]_vars PROVE TypeOK' OBVIOUS
<1> USE DEF TypeOK, counts
<1>1. ASSUME NEW t \in Threads, Check(t) PROVE TypeOK' BY <1>1 DEF Check
<1>2. ASSUME NEW t \in Threads, Wait(t) \/ Interrupted(t) PROVE TypeOK'
  BY <1>2 DEF Wait, Interrupted
<1>3. ASSUME NEW t \in Threads, Take(t) PROVE TypeOK' BY <1>3 DEF Take
<1>4. ASSUME NEW t \in Threads, TakeNothing(t) PROVE TypeOK' BY <1>4 DEF TakeNothing
<1>5. ASSUME NEW t \in Threads, Return(t) PROVE TypeOK' BY <1>5 DEF Return
<1>6. ASSUME NEW t \in Threads, Post(t) PROVE TypeOK' BY <1>6 DEF Post
<1>7. CASE DestroyPool BY <1>7 DEF DestroyPool
<1>8. CASE UNCHANGED vars BY <1>8 DEF vars
<1> QED BY <1>1, <1>2, <1>3, <1>4, <1>5, <1>6, <1>7, <1>8 DEF Next, Borrow

LEMMA HeldStep == TypeOK /\ HeldInUse /\ [Next]_vars => HeldInUse'
BY DEF TypeOK, HeldInUse, Next, Borrow, Check, Wait, Interrupted, Take, TakeNothing, Return,
       Post, DestroyPool, vars, counts

\* A thread that calls front() in vain has found the list empty, and nothing follows.
LEMMA UndefinedStep == TypeOK /\ UndefinedOnEmpty /\ [Next]_vars => UndefinedOnEmpty'
<1> SUFFICES ASSUME TypeOK, UndefinedOnEmpty, [Next]_vars PROVE UndefinedOnEmpty' OBVIOUS
<1>1. CASE UNCHANGED vars BY <1>1 DEF vars, UndefinedOnEmpty, Defined, At
<1>2. CASE Next
  <2>1. \A t \in Threads : pc[t] # "undefined" BY <1>2 DEF Next, Defined, At
  <2>2. ASSUME NEW t \in Threads, TakeNothing(t) PROVE UndefinedOnEmpty'
    BY <2>2 DEF TakeNothing, UndefinedOnEmpty
  <2>3. ASSUME NEW t \in Threads,
               Check(t) \/ Wait(t) \/ Interrupted(t) \/ Take(t) \/ Return(t) \/ Post(t)
        PROVE  \A u \in Threads : pc'[u] # "undefined"
    BY <2>1, <2>3 DEF TypeOK, Check, Wait, Interrupted, Take, Return, Post
  <2>4. DestroyPool => \A u \in Threads : pc'[u] # "undefined" BY <2>1 DEF DestroyPool
  <2>5. (\A u \in Threads : pc'[u] # "undefined") => UndefinedOnEmpty'
    BY DEF UndefinedOnEmpty, Defined, At
  <2> QED BY <1>2, <2>2, <2>3, <2>4, <2>5 DEF Next, Borrow
<1> QED BY <1>1, <1>2

\* The connection moves from the head of the list to the thread, and back to its end.
LEMMA OwnershipStep ==
    TypeOK /\ HeldInUse /\ OneHolder /\ ClosedUnused /\ ClosedGone /\ [Next]_vars
    => OneHolder' /\ ClosedUnused' /\ ClosedGone'
<1> SUFFICES ASSUME TypeOK, HeldInUse, OneHolder, ClosedUnused, ClosedGone, [Next]_vars
             PROVE  OneHolder' /\ ClosedUnused' /\ ClosedGone'
  OBVIOUS
<1> USE Parameters DEF TypeOK, OneHolder, ClosedUnused, ClosedGone, Holders, counts
<1>1. CASE UNCHANGED <<connList, con, closed>> BY <1>1
<1>2. ASSUME NEW t \in Threads, Take(t) PROVE OneHolder' /\ ClosedUnused' /\ ClosedGone'
  <2> USE <1>2 DEF Take
  <2>1. con[t] = None BY DEF HeldInUse
  <2>2. connList[1] = Head(connList) /\ 1 \in DOMAIN connList OBVIOUS
  <2>3. \A i \in DOMAIN connList' : i + 1 \in DOMAIN connList /\ connList'[i] = connList[i + 1]
    OBVIOUS
  <2>4. OneHolder'
    <3>1. \A i \in DOMAIN connList' : connList'[i] # Head(connList) BY <2>2, <2>3
    <3>2. \A u \in Threads : con[u] # None => con[u] # Head(connList) BY <2>2
    <3>3. \A i, j \in DOMAIN connList' : connList'[i] = connList'[j] => i = j BY <2>3
    <3>4. \A u \in Threads : u # t => con'[u] = con[u] OBVIOUS
    <3>5. con'[t] = Head(connList) OBVIOUS
    <3> QED BY <2>3, <3>1, <3>2, <3>3, <3>4, <3>5
  <2>5. ClosedUnused' BY <2>2
  <2>6. ClosedGone' BY <2>3
  <2> QED BY <2>4, <2>5, <2>6
<1>3. ASSUME NEW t \in Threads, Return(t), con[t] # None
      PROVE  OneHolder' /\ ClosedUnused' /\ ClosedGone'
  <2> USE <1>3 DEF Return
  <2>1. connList' = Append(connList, con[t]) /\ con' = [con EXCEPT ![t] = None]
        /\ closed' = closed
    OBVIOUS
  <2>2. \A i \in DOMAIN connList' :
            \/ i \in DOMAIN connList /\ connList'[i] = connList[i]
            \/ i = Len(connList) + 1 /\ connList'[i] = con[t]
    BY <2>1
  <2> QED BY <2>1, <2>2
<1>4. CASE DestroyPool
  <2>1. connList' = <<>> /\ con' = con
        /\ closed' = {connList[i] : i \in DOMAIN connList}
    BY <1>4 DEF DestroyPool
  <2> QED BY <2>1
<1>5. ASSUME NEW t \in Threads,
             Check(t) \/ Wait(t) \/ Interrupted(t) \/ TakeNothing(t) \/ Post(t)
             \/ (Return(t) /\ con[t] = None)
      PROVE  UNCHANGED <<connList, con, closed>>
  BY <1>5 DEF Check, Wait, Interrupted, TakeNothing, Post, Return
<1>6. UNCHANGED vars => UNCHANGED <<connList, con, closed>> BY DEF vars
<1> QED BY <1>1, <1>2, <1>3, <1>4, <1>5, <1>6 DEF Next, Borrow

\* Every step moves a connection, or the right to one, from one term of the sums to
\* another.
LEMMA CountStep == LendingInv /\ [Next]_vars => ReserveCounts' /\ CountsAgree' /\ AllAccounted'
<1> DEFINE r == reserve
           p == Cardinality(Passed)
           o == Cardinality(At("post"))
           l == Len(connList)
           k == interrupted
           h == Cardinality(Holders)
<1> SUFFICES ASSUME LendingInv, [Next]_vars, ~destroyed'
             PROVE  /\ r' + p' + o' = l' + k'
                    /\ m_FreeConn' = l' /\ m_CurConn' = h' /\ l' + h' = MaxConn
  BY DEF ReserveCounts, CountsAgree, AllAccounted
<1>0. ~destroyed
  BY DEF Next, Borrow, Check, Wait, Interrupted, Take, TakeNothing, Return, Post, DestroyPool,
         vars
<1>1. /\ r \in Nat /\ p \in Nat /\ o \in Nat /\ l \in Nat /\ k \in Nat /\ h \in Nat
      /\ MaxConn \in Nat
      /\ r + p + o = l + k
      /\ m_FreeConn = l /\ m_CurConn = h /\ l + h = MaxConn
  BY <1>0, CountsAreNumbers DEF LendingInv, TypeOK, ReserveCounts, CountsAgree, AllAccounted
<1>2. TypeOK BY DEF LendingInv
<1>a. con' = con => h' = h BY DEF Holders
<1>b. (Passed' = Passed => p' = p) /\ (At("post")' = At("post") => o' = o) OBVIOUS
<1> DEFINE Counts == m_FreeConn' = m_FreeConn /\ m_CurConn' = m_CurConn
<1> USE DEF counts
<1>3. ASSUME NEW t \in Threads, Check(t) \/ (Return(t) /\ con[t] = None)
      PROVE  r' = r /\ p' = p /\ o' = o /\ l' = l /\ k' = k /\ h' = h /\ Counts
  <2>1. /\ reserve' = reserve /\ connList' = connList /\ Counts /\ con' = con
        /\ interrupted' = interrupted
    BY <1>3 DEF Check, Return
  <2>2. Passed' = Passed /\ At("post")' = At("post")
    BY <1>2, <1>3 DEF Check, Return, Passed, At, TypeOK
  <2> QED BY <1>a, <1>b, <2>1, <2>2
<1>4. ASSUME NEW t \in Threads, Wait(t) \/ Interrupted(t)
      PROVE  /\ p' = p + 1 /\ o' = o /\ l' = l /\ h' = h /\ Counts
             /\ (r' = r - 1 /\ k' = k) \/ (r' = r /\ k' = k + 1)
  <2>1. pc[t] = "wait" /\ pc' = [pc EXCEPT ![t] = "take"] BY <1>4 DEF Wait, Interrupted
  <2>2. PICK q : q = "take" /\ pc' = [pc EXCEPT ![t] = q] BY <2>1
  <2>3. /\ pc[t] \notin {"take", "undefined"} /\ q \in {"take", "undefined"}
        /\ pc[t] # "post" /\ q # "post"
    BY <2>1, <2>2
  <2>4. p' = p + 1 BY <1>2, <2>2, <2>3, MovesPassed
  <2>5. At("post")' = At("post") BY <1>2, <2>2, <2>3, MovesPost
  <2>6. connList' = connList /\ con' = con /\ Counts BY <1>4 DEF Wait, Interrupted
  <2>7. (r' = r - 1 /\ k' = k) \/ (r' = r /\ k' = k + 1) BY <1>4 DEF Wait, Interrupted
  <2> QED BY <1>a, <1>b, <2>4, <2>5, <2>6, <2>7
<1>5. ASSUME NEW t \in Threads, Take(t)
      PROVE  /\ r' = r /\ p' = p - 1 /\ o' = o /\ l' = l - 1 /\ k' = k /\ h' = h + 1
             /\ m_FreeConn' = m_FreeConn - 1 /\ m_CurConn' = m_CurConn + 1
  <2>1. PICK q : q = "use" /\ pc' = [pc EXCEPT ![t] = q] BY <1>5 DEF Take
  <2>2. /\ pc[t] \in {"take", "undefined"} /\ q \notin {"take", "undefined"}
        /\ pc[t] # "post" /\ q # "post"
    BY <1>5, <2>1 DEF Take
  <2>3. p' = p - 1 BY <1>2, <2>1, <2>2, MovesPassed
  <2>4. At("post")' = At("post") BY <1>2, <2>1, <2>2, MovesPost
  <2>5. Head(connList) # None /\ con[t] = None /\ Len(Tail(connList)) = Len(connList) - 1
    BY <1>5, Parameters DEF Take, LendingInv, TypeOK, HeldInUse
  <2>6. Holders' = Holders \cup {t} /\ t \notin Holders
    BY <1>5, <2>5 DEF Take, Holders, LendingInv, TypeOK
  <2>7. h' = h + 1 BY <2>6, CountsAreNumbers, FS_AddElement
  <2> QED BY <1>b, <1>5, <2>3, <2>4, <2>5, <2>7 DEF Take
<1>6. ASSUME NEW t \in Threads, TakeNothing(t)
      PROVE  r' = r /\ p' = p /\ o' = o /\ l' = l /\ k' = k /\ h' = h /\ Counts
  <2>1. PICK q : q = "undefined" /\ pc' = [pc EXCEPT ![t] = q] BY <1>6 DEF TakeNothing
  <2>2. /\ pc[t] \in {"take", "undefined"} /\ q \in {"take", "undefined"}
        /\ pc[t] # "post" /\ q # "post"
    BY <1>6, <2>1 DEF TakeNothing
  <2>3. Passed' = Passed BY <1>2, <2>1, <2>2, MovesPassed
  <2>4. At("post")' = At("post") BY <1>2, <2>1, <2>2, MovesPost
  <2>5. /\ reserve' = reserve /\ connList' = connList /\ Counts /\ con' = con
        /\ interrupted' = interrupted
    BY <1>6 DEF TakeNothing
  <2> QED BY <1>a, <1>b, <2>3, <2>4, <2>5
<1>7. ASSUME NEW t \in Threads, Return(t), con[t] # None
      PROVE  /\ r' = r /\ p' = p /\ o' = o + 1 /\ l' = l + 1 /\ k' = k /\ h' = h - 1
             /\ m_FreeConn' = m_FreeConn + 1 /\ m_CurConn' = m_CurConn - 1
  <2>1. PICK q : q = "post" /\ pc' = [pc EXCEPT ![t] = q] BY <1>7 DEF Return
  <2>2. /\ pc[t] \notin {"take", "undefined"} /\ q \notin {"take", "undefined"}
        /\ pc[t] # "post" /\ q = "post"
    BY <1>7, <2>1 DEF Return
  <2>3. Passed' = Passed BY <1>2, <2>1, <2>2, MovesPassed
  <2>4. o' = o + 1 BY <1>2, <2>1, <2>2, MovesPost
  <2>5. Holders' = Holders \ {t} /\ t \in Holders
    BY <1>7 DEF Return, Holders, LendingInv, TypeOK
  <2>6. h' = h - 1 BY <2>5, CountsAreNumbers, FS_RemoveElement
  <2>7. l' = l + 1 BY <1>2, <1>7 DEF Return, TypeOK
  <2> QED BY <1>b, <1>7, <2>3, <2>4, <2>6, <2>7 DEF Return
<1>8. ASSUME NEW t \in Threads, Post(t)
      PROVE  r' = r + 1 /\ p' = p /\ o' = o - 1 /\ l' = l /\ k' = k /\ h' = h /\ Counts
  <2>1. PICK q : q = "idle" /\ pc' = [pc EXCEPT ![t] = q] BY <1>8 DEF Post
  <2>2. /\ pc[t] \notin {"take", "undefined"} /\ q \notin {"take", "undefined"}
        /\ pc[t] = "post" /\ q # "post"
    BY <1>8, <2>1 DEF Post
  <2>3. Passed' = Passed BY <1>2, <2>1, <2>2, MovesPassed
  <2>4. o' = o - 1 BY <1>2, <2>1, <2>2, MovesPost
  <2>5. /\ reserve' = reserve + 1 /\ connList' = connList /\ Counts /\ con' = con
        /\ interrupted' = interrupted
    BY <1>8 DEF Post
  <2> QED BY <1>a, <1>b, <2>3, <2>4, <2>5
<1>9. CASE UNCHANGED vars
  <2>1. r' = r /\ p' = p /\ o' = o /\ l' = l /\ k' = k /\ h' = h /\ Counts
    BY <1>9, <1>a DEF vars, Passed, At
  <2> QED BY <1>1, <2>1
<1>10. ~DestroyPool BY DEF DestroyPool
<1> HIDE DEF r, p, o, l, k, h
<1>11. ASSUME NEW t \in Threads, Borrow(t)
       PROVE  /\ r' + p' + o' = l' + k'
              /\ m_FreeConn' = l' /\ m_CurConn' = h' /\ l' + h' = MaxConn
  <2>1. CASE Check(t) \/ (Return(t) /\ con[t] = None) BY <1>1, <1>3, <2>1
  <2>2. CASE Wait(t) \/ Interrupted(t)
    <3>1. /\ p' = p + 1 /\ o' = o /\ l' = l /\ h' = h /\ Counts
          /\ (r' = r - 1 /\ k' = k) \/ (r' = r /\ k' = k + 1)
      BY <1>4, <2>2
    <3>2. r' + p' + o' = l' + k'
      <4>1. CASE r' = r - 1 /\ k' = k BY <1>1, <3>1, <4>1
      <4>2. CASE r' = r /\ k' = k + 1 BY <1>1, <3>1, <4>2
      <4> QED BY <3>1, <4>1, <4>2
    <3>3. m_FreeConn' = l' /\ m_CurConn' = h' /\ l' + h' = MaxConn BY <1>1, <3>1
    <3> QED BY <3>2, <3>3
  <2>3. CASE Take(t) BY <1>1, <1>5, <2>3
  <2>4. CASE TakeNothing(t) BY <1>1, <1>6, <2>4
  <2>5. CASE Return(t) /\ con[t] # None BY <1>1, <1>7, <2>5
  <2>6. CASE Post(t) BY <1>1, <1>8, <2>6
  <2> QED BY <1>11, <2>1, <2>2, <2>3, <2>4, <2>5, <2>6 DEF Borrow
<1> QED BY <1>9, <1>10, <1>11 DEF Next

-----------------------------------------------------------------------------
LEMMA InitLendingInv == Init => LendingInv
<1> SUFFICES ASSUME Init PROVE LendingInv OBVIOUS
<1> USE DEF Init
<1>1. MaxConn \in Nat BY CountsAreNumbers
<1>2. connList \in Seq(Conns) /\ Len(connList) = MaxConn BY <1>1
<1>3. TypeOK
  <2>1. reserve \in Nat /\ m_FreeConn \in Int /\ m_CurConn \in Int BY <1>1
  <2>2. /\ pc \in [Threads -> {"idle", "wait", "take", "use", "post", "undefined"}]
        /\ con \in [Threads -> Conns \cup {None}]
        /\ closed \subseteq Conns /\ destroyed \in BOOLEAN /\ interrupted \in Nat
    OBVIOUS
  <2> QED BY <1>2, <2>1, <2>2 DEF TypeOK
<1>4. Holders = {} /\ \A p : p # "idle" => At(p) = {} BY DEF Holders, At
<1>5. Cardinality(Holders) = 0 /\ Cardinality(Passed) = 0 /\ Cardinality(At("post")) = 0
  <2>1. At("take") = {} /\ At("undefined") = {} /\ At("post") = {} BY <1>4
  <2>2. Passed = {} BY <2>1 DEF Passed
  <2> QED BY <1>4, <2>1, <2>2, FS_EmptySet
<1>6. HeldInUse /\ UndefinedOnEmpty BY <1>4 DEF HeldInUse, UndefinedOnEmpty, Defined
<1>7. OneHolder /\ ClosedUnused /\ ClosedGone
  BY <1>1, <1>2, <1>4 DEF OneHolder, ClosedUnused, ClosedGone
<1>8. ReserveCounts /\ CountsAgree /\ AllAccounted
  BY <1>1, <1>2, <1>5 DEF ReserveCounts, CountsAgree, AllAccounted
<1> QED BY <1>3, <1>6, <1>7, <1>8 DEF LendingInv

\* The invariants of the pool hold together, and each of its steps keeps them.
THEOREM Invariance == Spec => []LendingInv
<1>1. LendingInv /\ [Next]_vars => LendingInv'
  BY TypeStep, HeldStep, OwnershipStep, UndefinedStep, CountStep DEF LendingInv
<1> QED BY InitLendingInv, <1>1, PTL DEF Spec

\* Every variable keeps its type: only connections of init() are in the list and the
\* semaphore is never negative.
THEOREM TypeCorrect == Spec => []TypeOK
<1>1. LendingInv => TypeOK BY DEF LendingInv
<1> QED BY Invariance, <1>1, PTL

\* A connection is lent to one thread at a time and is not in the list meanwhile.
THEOREM LentOnce == Spec => []OneHolder
<1>1. LendingInv => OneHolder BY DEF LendingInv
<1> QED BY Invariance, <1>1, PTL

\* m_FreeConn, m_CurConn and the semaphore agree with the list, the loans and the waits
\* that were interrupted.
THEOREM BooksBalance == Spec => [](CountsAgree /\ ReserveCounts)
<1>1. LendingInv => CountsAgree /\ ReserveCounts BY DEF LendingInv
<1> QED BY Invariance, <1>1, PTL

\* DestroyPool() closes no connection in use and none that is lent later.
THEOREM ClosedNeverLent == Spec => []ClosedUnused
<1>1. LendingInv => ClosedUnused BY DEF LendingInv
<1> QED BY Invariance, <1>1, PTL

\* A thread gets NULL only at a moment when every connection is lent.
THEOREM NullMeansAllLent == Spec => NullOnlyWhenAllLent
<1>1. ASSUME LendingInv, [Next]_vars, ~destroyed, NEW t \in Threads, pc[t] = "idle", pc'[t] = "use"
      PROVE  Cardinality(Holders) = MaxConn
  <2>1. TypeOK BY <1>1 DEF LendingInv
  <2>2. connList = <<>>
    BY <1>1, <2>1 DEF TypeOK, Next, Borrow, Check, Wait, Interrupted, Take, TakeNothing, Return, Post,
                      DestroyPool,
                      vars
  <2>3. Len(connList) + Cardinality(Holders) = MaxConn BY <1>1 DEF LendingInv, AllAccounted
  <2>4. Len(connList) = 0 BY <2>2
  <2> QED BY <2>3, <2>4, CountsAreNumbers
<1>2. LendingInv /\ [Next]_vars
      => [\A t \in Threads :
             ~destroyed /\ pc[t] = "idle" /\ pc'[t] = "use" => Cardinality(Holders) = MaxConn]_vars
  BY <1>1
<1> QED BY Invariance, <1>2, PTL DEF Spec, NullOnlyWhenAllLent

-----------------------------------------------------------------------------
(* With a connection for each thread nobody gets NULL: a thread that tests    *)
(* connList.size() has none itself, so the others have fewer than there are.  *)

Served == ~destroyed => \A t \in Threads : pc[t] = "use" => con[t] # None

\* A thread with no connection sees the list of a living pool non-empty.
LEMMA ListNotEmpty ==
    ASSUME LendingInv, ~destroyed, Cardinality(Threads) <= MaxConn,
           NEW t \in Threads, con[t] = None
    PROVE  connList # <<>>
<1>1. Holders \subseteq Threads \ {t} BY DEF Holders
<1>2. Cardinality(Threads \ {t}) = Cardinality(Threads) - 1
  BY Parameters, FS_RemoveElement
<1>3. Cardinality(Holders) <= Cardinality(Threads) - 1
  <2>1. IsFiniteSet(Threads \ {t}) BY Parameters, FS_RemoveElement
  <2> QED BY <1>1, <1>2, <2>1, FS_Subset
<1>4. Cardinality(Threads) \in Nat BY Parameters, FS_CardinalityType
<1>5. Len(connList) > 0
  BY <1>3, <1>4, CountsAreNumbers DEF LendingInv, TypeOK, AllAccounted
<1> QED BY <1>5

\* front() and pop_front() in GetConnection() meet an empty list only after a wait that a
\* signal interrupted, and never if there are as many connections as threads: a thread that
\* took a unit has a connection set aside for it.
THEOREM ListNeverRunsOut == Spec => []TakeFinds
<1>1. LendingInv => TakeFinds
  <2> SUFFICES ASSUME LendingInv, ~destroyed, interrupted = 0 \/ Cardinality(Threads) <= MaxConn
               PROVE  Defined /\ \A t \in At("take") : connList # <<>>
    BY DEF TakeFinds
  <2>1. ASSUME NEW t \in Passed PROVE connList # <<>>
    <3>1. CASE interrupted = 0
      <4>1. Cardinality(Passed) # 0 BY <2>1, CountsAreNumbers, FS_EmptySet
      <4>2. PICK p \in Nat : p = Cardinality(Passed) BY CountsAreNumbers
      <4>3. PICK o \in Nat : o = Cardinality(At("post")) BY CountsAreNumbers
      <4>4. reserve + p + o = Len(connList) + 0 /\ reserve \in Nat /\ Len(connList) \in Nat
        BY <3>1, <4>2, <4>3 DEF LendingInv, TypeOK, ReserveCounts
      <4>5. Len(connList) # 0 BY <4>1, <4>2, <4>4
      <4> QED BY <4>5
    <3>2. CASE Cardinality(Threads) <= MaxConn
      <4>1. con[t] = None /\ t \in Threads BY <2>1 DEF LendingInv, HeldInUse, Passed, At
      <4> QED BY <3>2, <4>1, ListNotEmpty
    <3> QED BY <3>1, <3>2
  <2>2. Defined
    <3> SUFFICES ASSUME NEW t \in At("undefined") PROVE FALSE BY DEF Defined
    <3>1. connList # <<>> BY <2>1 DEF Passed
    <3>2. ~Defined BY DEF Defined
    <3> QED BY <3>1, <3>2 DEF LendingInv, UndefinedOnEmpty
  <2> QED BY <2>1, <2>2 DEF Passed
<1> QED BY Invariance, <1>1, PTL

LEMMA ServedStep ==
    Cardinality(Threads) <= MaxConn /\ LendingInv /\ Served /\ [Next]_vars => Served'
<1> SUFFICES ASSUME Cardinality(Threads) <= MaxConn, LendingInv, Served, [Next]_vars, ~destroyed',
                    NEW u \in Threads, pc'[u] = "use"
             PROVE  con'[u] # None
  BY DEF Served
<1>1. ~destroyed
  BY DEF Next, Borrow, Check, Wait, Interrupted, Take, TakeNothing, Return, Post,
                      DestroyPool, vars
<1>2. TypeOK /\ HeldInUse BY DEF LendingInv
<1> USE <1>1, <1>2 DEF Served, TypeOK
<1>3. ASSUME NEW t \in Threads, Check(t) PROVE con'[u] # None
  <2>1. con[t] = None BY <1>3 DEF HeldInUse, Check
  <2>2. connList # <<>> BY <2>1, ListNotEmpty
  <2> QED BY <1>3, <2>2 DEF Check
<1>4. ASSUME NEW t \in Threads, Wait(t) \/ Interrupted(t) \/ TakeNothing(t) \/ Post(t)
      PROVE  con'[u] # None
  BY <1>4 DEF Wait, Interrupted, TakeNothing, Post
<1>5. ASSUME NEW t \in Threads, Take(t) PROVE con'[u] # None
  <2>1. Head(connList) # None BY <1>5, Parameters DEF Take
  <2> QED BY <1>5, <2>1 DEF Take
<1>6. ASSUME NEW t \in Threads, Return(t) PROVE con'[u] # None
  BY <1>6 DEF Return
<1>7. CASE UNCHANGED vars BY <1>7 DEF vars
<1>8. ~DestroyPool BY DEF DestroyPool
<1> QED BY <1>3, <1>4, <1>5, <1>6, <1>7, <1>8 DEF Next, Borrow

\* No thread gets NULL from GetConnection() when there are as many connections as
\* threads (the defaults are 8 and 8): the unlocked test of connList.size() is then
\* never true.
THEOREM EnoughConnections == Spec => []EnoughForAll
<1>1. CASE ~(Cardinality(Threads) <= MaxConn)
  <2>1. EnoughForAll BY <1>1 DEF EnoughForAll
  <2>2. []EnoughForAll BY <2>1, PTL
  <2> QED BY <2>2
<1>2. CASE Cardinality(Threads) <= MaxConn
  <2>1. Init => Served BY DEF Init, Served
  <2>2. Served /\ LendingInv /\ [Next]_vars => Served' BY <1>2, ServedStep
  <2>3. Served => EnoughForAll BY <1>2 DEF Served, EnoughForAll, At
  <2> QED BY <2>1, <2>2, <2>3, Invariance, PTL DEF Spec
<1> QED BY <1>1, <1>2
=============================================================================
