-------------------------- MODULE ComponentProofs --------------------------
(***************************************************************************)
(* Proofs about three components that stand apart from the rest: the ring  *)
(* of block_queue is a bounded FIFO (BlockQueue), the doubly linked list   *)
(* sort_timer_lst is a set of timers in the order in which they expire     *)
(* (TimerList), and process_read() makes of a request what it means,       *)
(* however its bytes are cut (HttpParse); for every number of threads and  *)
(* timers, every set of requests and every size of the buffers.            *)
(***************************************************************************)
EXTENDS BlockQueue, TimerList, HttpParse, SequenceTheorems, NaturalsInduction,
        WellFoundedInduction, TLAPS

(***************************************************************************)
(* The ring.  SlotIs does the arithmetic of %; after it Slot stays folded  *)
(* and the rest is linear.                                                 *)
(***************************************************************************)

LEMMA ModSmall ==
    ASSUME NEW n \in Nat \ {0}, NEW x \in 0..n - 1
    PROVE  x % n = x
  BY SMT

LEMMA ModWraps ==
    ASSUME NEW n \in Nat \ {0}, NEW x \in Int, n <= x, x < n + n
    PROVE  x % n = x - n
  BY SMT

LEMMA ModOfMinusOne ==
    ASSUME NEW n \in Nat \ {0}
    PROVE  (-1) % n = n - 1
  BY SMT

Places == -1..MaxSize - 1

LEMMA SlotIs ==
    ASSUME NEW s \in Places, NEW i \in 0..MaxSize
    PROVE  Slot(s, i) = IF s + i = -1 THEN MaxSize - 1
                        ELSE IF s + i < MaxSize THEN s + i ELSE s + i - MaxSize
<1>1. PICK x : x = s + i
  OBVIOUS
<1>2. /\ Slot(s, i) = x % MaxSize /\ MaxSize \in Nat \ {0}
      /\ x \in Int /\ -1 <= x /\ x < MaxSize + MaxSize
  BY <1>1, Parameters DEF Slot, Places
<1>3. /\ x = -1 => x % MaxSize = MaxSize - 1
      /\ x \in 0..MaxSize - 1 => x % MaxSize = x
      /\ MaxSize <= x => x % MaxSize = x - MaxSize
  BY <1>2, ModOfMinusOne, ModSmall, ModWraps
<1>4. Slot(s, i) = IF x = -1 THEN MaxSize - 1
                   ELSE IF x < MaxSize THEN x ELSE x - MaxSize
  BY <1>2, <1>3
<1> QED BY <1>1, <1>2, <1>4 DEF Places

LEMMA AfterIs ==
    ASSUME NEW s \in Places
    PROVE  /\ After(s) = IF s = MaxSize - 1 THEN 0 ELSE s + 1
           /\ After(s) \in 0..MaxSize - 1
  BY SlotIs, Parameters DEF After, Places

\* Different places within the ring are different slots.
LEMMA SlotsDiffer ==
    ASSUME NEW s \in Places, NEW i \in 1..MaxSize, NEW j \in 1..MaxSize, i # j
    PROVE  Slot(s, i) # Slot(s, j)
  BY SlotIs, Parameters DEF Places

\* Counting from the next slot is counting one less.
LEMMA SlotShift ==
    ASSUME NEW s \in Places, NEW i \in 0..MaxSize - 1
    PROVE  Slot(After(s), i) = Slot(s, i + 1)
<1>1. /\ i \in 0..MaxSize /\ i + 1 \in 0..MaxSize
      /\ s \in -1..MaxSize - 1 /\ After(s) \in Places
  BY AfterIs, Parameters DEF Places
<1>2. Slot(s, i + 1) = IF s + i + 1 < MaxSize THEN s + i + 1 ELSE s + i + 1 - MaxSize
  <2>1. Slot(s, i + 1) = IF s + (i + 1) = -1 THEN MaxSize - 1
                         ELSE IF s + (i + 1) < MaxSize THEN s + (i + 1)
                         ELSE s + (i + 1) - MaxSize
    BY <1>1, SlotIs
  <2> QED BY <2>1, <1>1, Parameters
<1>3. Slot(After(s), i) = IF After(s) + i < MaxSize THEN After(s) + i
                          ELSE After(s) + i - MaxSize
  BY <1>1, SlotIs, AfterIs, Parameters
<1> QED BY <1>1, <1>2, <1>3, AfterIs, Parameters

\* push() writes the slot behind the last item.
LEMMA BackSlot ==
    ASSUME TypeOK, RingAgrees, m_size < MaxSize
    PROVE  After(m_back) = Slot(m_front, m_size + 1)
<1>1. /\ m_front \in Places /\ m_front \in -1..MaxSize - 1
      /\ m_back \in Places /\ m_back \in -1..MaxSize - 1
      /\ m_size \in 0..MaxSize - 1 /\ m_size \in 0..MaxSize /\ 0 \in 0..MaxSize
  BY Parameters DEF TypeOK, Places
<1>2. Slot(m_back, 0) = IF m_back = -1 THEN MaxSize - 1 ELSE m_back
  BY <1>1, SlotIs, Parameters
<1>3. Slot(m_front, m_size) = IF m_back = -1 THEN MaxSize - 1 ELSE m_back
  BY <1>2 DEF RingAgrees
<1>4. Slot(m_front, m_size + 1) = Slot(After(m_front), m_size)
  BY <1>1, SlotShift
<1>5. After(m_back) = Slot(After(m_front), m_size)
  <2>1. Slot(m_front, m_size) = IF m_front + m_size = -1 THEN MaxSize - 1
                                ELSE IF m_front + m_size < MaxSize THEN m_front + m_size
                                ELSE m_front + m_size - MaxSize
    BY <1>1, SlotIs
  <2>2. Slot(After(m_front), m_size) = IF After(m_front) + m_size < MaxSize
                                       THEN After(m_front) + m_size
                                       ELSE After(m_front) + m_size - MaxSize
    <3>1. After(m_front) \in Places
      BY <1>1, AfterIs, Parameters DEF Places
    <3> QED BY <1>1, <3>1, SlotIs, AfterIs, Parameters
  <2>3. /\ After(m_front) = IF m_front = MaxSize - 1 THEN 0 ELSE m_front + 1
        /\ After(m_back) = IF m_back = MaxSize - 1 THEN 0 ELSE m_back + 1
    BY <1>1, AfterIs
  <2> QED BY <1>1, <1>3, <2>1, <2>2, <2>3, Parameters
<1> QED BY <1>4, <1>5

-----------------------------------------------------------------------------
\* What a queue of length n holds, for the steps that change it.
LEMMA ContentsType ==
    ASSUME TypeOK
    PROVE  /\ Contents \in Seq(Items \cup {Blank})
           /\ Len(Contents) = m_size
           /\ \A i \in 1..m_size : Contents[i] = m_array[Slot(m_front, i)]
<1>1. m_front \in Places /\ m_size \in 0..MaxSize
  BY DEF TypeOK, Places
<1>2. \A i \in 1..m_size : Slot(m_front, i) \in 0..MaxSize - 1
  BY <1>1, SlotIs, Parameters DEF Places
<1>3. \A i \in 1..m_size : m_array[Slot(m_front, i)] \in Items \cup {Blank}
  BY <1>2 DEF TypeOK
<1> QED BY <1>1, <1>3 DEF Contents

Results == [ok : BOOLEAN, item : Items \cup {Blank}]

LEMMA InitInv == Init => RingInv
<1> SUFFICES ASSUME Init PROVE RingInv OBVIOUS
<1>1. TypeOK BY Parameters DEF Init, TypeOK, Failed
<1>2. RingAgrees BY DEF Init, RingAgrees
<1>3. NoSleeperForgotten BY DEF Init, NoSleeperForgotten
<1>4. BackIsSlot BY DEF Init, BackIsSlot
<1> QED BY <1>1, <1>2, <1>3, <1>4 DEF RingInv

LEMMA AnswerType ==
    ASSUME TypeOK, NEW t \in Threads, NEW r \in Results, Answer(t, r)
    PROVE  result' \in [Threads -> Results]
  BY DEF TypeOK, Answer, Results

LEMMA ResultsAre == Failed \in Results /\ \A x \in Items \cup {Blank} : Ok(x) \in Results
  BY DEF Failed, Ok, Results

\* Steps that leave the ring alone.
LEMMA RingKept ==
    ASSUME RingInv, UNCHANGED ring,
           wait' \in [Threads -> {"none", "asleep", "awake"}],
           timed' \in [Threads -> BOOLEAN], result' \in [Threads -> Results],
           m_size > 0 => \A u \in Threads : wait'[u] # "asleep"
    PROVE  RingInv'
  BY DEF RingInv, TypeOK, RingAgrees, BackIsSlot, NoSleeperForgotten, ring, Results

LEMMA PushInv ==
    ASSUME RingInv, NEW t \in Threads, NEW x \in Items, Push(t, x)
    PROVE  RingInv'
<1> USE DEF RingInv
<1>1. CASE m_size >= MaxSize
  <2>1. UNCHANGED <<ring, timed>> /\ Answer(t, Failed) /\ Broadcast
    BY <1>1 DEF Push
  <2>2. /\ wait' \in [Threads -> {"none", "asleep", "awake"}]
        /\ \A u \in Threads : wait'[u] # "asleep"
    BY <2>1 DEF Broadcast, TypeOK
  <2> QED BY <2>1, <2>2, AnswerType, ResultsAre, RingKept DEF TypeOK
<1>2. CASE m_size < MaxSize
  <2>1. /\ m_back \in Places /\ m_front \in Places
        /\ m_size + 1 \in 1..MaxSize /\ After(m_back) \in 0..MaxSize - 1
    BY <1>2, AfterIs, Parameters DEF TypeOK, Places
  <2>2. /\ m_back' = After(m_back) /\ m_front' = m_front /\ m_size' = m_size + 1
        /\ m_array' = [m_array EXCEPT ![After(m_back)] = x]
        /\ Answer(t, Ok(x)) /\ Broadcast /\ UNCHANGED timed
    BY <1>2, Parameters DEF Push, TypeOK
  <2>3. TypeOK'
    <3>1. result' \in [Threads -> Results]
      BY <2>2, AnswerType, ResultsAre
    <3>2. wait' \in [Threads -> {"none", "asleep", "awake"}]
      BY <2>2 DEF Broadcast, TypeOK
    <3> QED BY <2>1, <2>2, <3>1, <3>2, Parameters DEF TypeOK, Places, Results
  <2>4. RingAgrees'
    <3>1. Slot(After(m_back), 0) = After(m_back)
      BY <2>1, SlotIs, Parameters DEF Places
    <3> QED BY <1>2, <2>2, <3>1, BackSlot DEF RingAgrees
  <2>5. NoSleeperForgotten'
    BY <2>2 DEF NoSleeperForgotten, Broadcast, TypeOK
  <2>6. BackIsSlot'
    BY <2>1, <2>2 DEF BackIsSlot
  <2> QED BY <2>3, <2>4, <2>5, <2>6
<1> QED BY <1>1, <1>2, Parameters DEF TypeOK

LEMMA TakeInv ==
    ASSUME RingInv, NEW t \in Threads, m_size > 0, Take(t), timed' \in [Threads -> BOOLEAN]
    PROVE  RingInv'
<1> USE DEF RingInv
<1>1. /\ m_front \in Places /\ After(m_front) \in 0..MaxSize - 1
      /\ m_size - 1 \in 0..MaxSize - 1 /\ m_size - 1 + 1 = m_size
  BY AfterIs, Parameters DEF TypeOK, Places
<1>2. TypeOK'
  <2>1. m_array[After(m_front)] \in Items \cup {Blank}
    BY <1>1 DEF TypeOK
  <2>2. result' \in [Threads -> Results]
    BY <2>1, AnswerType, ResultsAre DEF Take
  <2>3. wait' \in [Threads -> {"none", "asleep", "awake"}]
    BY DEF Take, TypeOK
  <2> QED BY <1>1, <2>2, <2>3, Parameters DEF TypeOK, Take, Results
<1>3. RingAgrees'
  BY <1>1, SlotShift DEF RingAgrees, Take
<1>4. NoSleeperForgotten'
  BY DEF NoSleeperForgotten, Take, TypeOK
<1>5. BackIsSlot'
  BY DEF Take, BackIsSlot
<1> QED BY <1>2, <1>3, <1>4, <1>5

LEMMA StepInv == RingInv /\ [Next]_vars => RingInv'
<1> SUFFICES ASSUME RingInv, [Next]_vars PROVE RingInv' OBVIOUS
<1> USE DEF RingInv
<1>1. ASSUME NEW t \in Threads, NEW x \in Items, Push(t, x) PROVE RingInv'
  BY <1>1, PushInv
<1>2. ASSUME NEW t \in Threads, NEW deadline \in BOOLEAN, Pop(t, deadline) PROVE RingInv'
  <2>1. timed' \in [Threads -> BOOLEAN] BY <1>2 DEF Pop, TypeOK
  <2>2. CASE m_size > 0 BY <1>2, <2>1, <2>2, TakeInv DEF Pop, TypeOK
  <2>3. CASE m_size <= 0
    <3>1. Sleep(t) BY <1>2, <2>3 DEF Pop
    <3> QED BY <2>1, <2>3, <3>1, RingKept DEF Sleep, TypeOK, Results
  <2> QED BY <2>2, <2>3 DEF TypeOK
<1>3. ASSUME NEW t \in Threads, Retry(t) PROVE RingInv'
  <2>1. timed' \in [Threads -> BOOLEAN] BY <1>3 DEF Retry, TypeOK
  <2>2. CASE m_size > 0 BY <1>3, <2>1, <2>2, TakeInv DEF Retry
  <2>3. CASE ~(m_size > 0) /\ timed[t]
    <3>1. GiveUp(t) BY <1>3, <2>3 DEF Retry
    <3>2. result' \in [Threads -> Results] BY <3>1, AnswerType, ResultsAre DEF GiveUp
    <3> QED BY <2>1, <2>3, <3>1, <3>2, RingKept DEF GiveUp, TypeOK
  <2>4. CASE ~(m_size > 0) /\ ~timed[t]
    <3>1. Sleep(t) BY <1>3, <2>4 DEF Retry
    <3> QED BY <2>1, <2>4, <3>1, RingKept DEF Sleep, TypeOK, Results
  <2> QED BY <2>2, <2>3, <2>4
<1>4. ASSUME NEW t \in Threads, Spurious(t) PROVE RingInv'
  BY <1>4, RingKept DEF Spurious, TypeOK, NoSleeperForgotten, Results
<1>5. ASSUME NEW t \in Threads, Expire(t) PROVE RingInv'
  <2>1. result' \in [Threads -> Results] BY <1>5, AnswerType, ResultsAre DEF Expire, GiveUp
  <2> QED BY <1>5, <2>1, RingKept DEF Expire, GiveUp, TypeOK, NoSleeperForgotten
<1>6. ASSUME NEW t \in Threads, Clear(t) PROVE RingInv'
  BY <1>6, Parameters DEF Clear, TypeOK, RingAgrees, BackIsSlot, NoSleeperForgotten
<1>7. ASSUME NEW t \in Threads, NEW s, Look(t, s), m_size # 0 => s \in 0..MaxSize - 1
      PROVE  RingInv'
  <2>1. \E r \in Results : Answer(t, r)
    <3>1. CASE m_size = 0 BY <1>7, <3>1, ResultsAre DEF Look
    <3>2. CASE m_size # 0
      <4>1. Answer(t, Ok(m_array[s])) BY <1>7, <3>2 DEF Look
      <4>2. m_array[s] \in Items \cup {Blank} BY <1>7, <3>2 DEF TypeOK
      <4> QED BY <4>1, <4>2, ResultsAre
    <3> QED BY <3>1, <3>2
  <2>2. result' \in [Threads -> Results] BY <2>1, AnswerType
  <2> QED BY <1>7, <2>2, RingKept DEF Look, TypeOK, NoSleeperForgotten
<1>8. m_size # 0 => After(m_front) \in 0..MaxSize - 1 /\ m_back \in 0..MaxSize - 1
  BY AfterIs DEF BackIsSlot, Places, TypeOK
<1>9. ASSUME NEW t \in Threads, Front(t) \/ Back(t) PROVE RingInv'
  BY <1>7, <1>8, <1>9 DEF Front, Back
<1>10. CASE UNCHANGED vars
  BY <1>10 DEF vars, ring, TypeOK, RingAgrees, BackIsSlot, NoSleeperForgotten
<1> QED BY <1>1, <1>2, <1>3, <1>4, <1>5, <1>6, <1>9, <1>10 DEF Next

\* The invariants of the queue hold together, and each of its steps keeps them.
THEOREM RingInvariant == Spec => []RingInv
  BY InitInv, StepInv, PTL DEF Spec

\* The variables of block_queue keep their types; in particular m_size stays within the ring.
THEOREM RingTypeCorrect == Spec => []TypeOK
  BY RingInvariant, PTL DEF RingInv

\* m_front, m_back and m_size always agree on where the queue is.
THEOREM IndicesAgree == Spec => []RingAgrees
  BY RingInvariant, PTL DEF RingInv

\* No thread sleeps in pop() while an item waits for it.
THEOREM NobodySleepsOnItem == Spec => []NoSleeperForgotten
  BY RingInvariant, PTL DEF RingInv

-----------------------------------------------------------------------------
(* Contents is a first-in first-out queue. *)

LEMMA SameRing == ASSUME UNCHANGED ring PROVE Contents' = Contents
  BY DEF Contents, ring

\* A thread waits in the pop() it waited in before, unless it begins or ends one.
LEMMA SameCalls ==
    ASSUME \A t \in Threads : wait'[t] = "none" <=> wait[t] = "none", UNCHANGED timed
    PROVE  Calling' = Calling
BY DEF Calling

LEMMA OneCall ==
    ASSUME TypeOK, NEW t \in Threads, NEW w, wait' = [wait EXCEPT ![t] = w],
           UNCHANGED timed \/ \E d \in BOOLEAN : timed' = [timed EXCEPT ![t] = d]
    PROVE  /\ Calling' = [Calling EXCEPT ![t] = Calling'[t]]
           /\ w = "none" => Calling'[t] = "none"
           /\ w # "none" => Calling'[t] = IF timed'[t] THEN "timed pop" ELSE "pop"
<1>1. /\ \A u \in Threads : u # t => wait'[u] = wait[u] /\ timed'[u] = timed[u]
      /\ wait'[t] = w
  BY DEF TypeOK
<1> QED BY <1>1 DEF Calling

LEMMA PushAppends ==
    ASSUME RingInv, RingInv', NEW t \in Threads, NEW x \in Items, Push(t, x), m_size < MaxSize
    PROVE  Abstract!Push(t, x)
<1> USE DEF RingInv
<1>0. Calling' = Calling /\ Calling[t] = "none"
  <2>1. \A u \in Threads : wait'[u] = "none" <=> wait[u] = "none" BY DEF Push, Broadcast
  <2> QED BY <2>1, SameCalls DEF Push, Calling
<1>1. /\ m_front \in Places /\ m_back \in Places
      /\ m_size \in 0..MaxSize - 1 /\ After(m_back) \in 0..MaxSize - 1
  BY AfterIs, Parameters DEF TypeOK, Places
<1>2. /\ m_front' = m_front /\ m_size' = m_size + 1
      /\ m_array' = [m_array EXCEPT ![After(m_back)] = x]
      /\ result' = [result EXCEPT ![t] = Ok(x)]
  BY <1>1, Parameters DEF Push, TypeOK, Answer
<1>3. /\ Contents \in Seq(Items \cup {Blank}) /\ Len(Contents) = m_size
      /\ \A i \in 1..m_size : Contents[i] = m_array[Slot(m_front, i)]
  BY ContentsType
<1>4. m_array'[Slot(m_front, m_size + 1)] = x
  BY <1>1, <1>2, BackSlot DEF TypeOK
<1>5. ASSUME NEW i \in 1..m_size
      PROVE  m_array'[Slot(m_front, i)] = m_array[Slot(m_front, i)]
  <2>1. i \in 1..MaxSize /\ m_size + 1 \in 1..MaxSize /\ i # m_size + 1
    BY <1>1, Parameters
  <2>2. Slot(m_front, i) # After(m_back)
    BY <1>1, <2>1, SlotsDiffer, BackSlot
  <2>3. Slot(m_front, i) \in 0..MaxSize - 1
    <3>1. i \in 0..MaxSize BY <2>1
    <3>2. Slot(m_front, i) = IF m_front + i = -1 THEN MaxSize - 1
                             ELSE IF m_front + i < MaxSize THEN m_front + i
                             ELSE m_front + i - MaxSize
      BY <1>1, <3>1, SlotIs
    <3> QED BY <1>1, <2>1, <3>2, Parameters DEF Places
  <2> QED BY <1>2, <2>2, <2>3 DEF TypeOK
<1>6. Contents' = [i \in 1..m_size + 1 |-> m_array'[Slot(m_front, i)]]
  BY <1>2 DEF Contents
<1>7. Contents' = Append(Contents, x)
  <2> DEFINE S == Items \cup {Blank}
             new == [i \in 1..m_size + 1 |-> m_array'[Slot(m_front, i)]]
  <2>1. /\ Append(Contents, x) \in Seq(S) /\ Len(Append(Contents, x)) = m_size + 1
        /\ \A i \in 1..m_size : Append(Contents, x)[i] = Contents[i]
        /\ Append(Contents, x)[m_size + 1] = x
    BY <1>3, AppendProperties
  <2>2. \A i \in 1..m_size + 1 : i \in 1..m_size \/ i = m_size + 1
    BY <1>1
  <2>3. \A i \in 1..m_size + 1 : new[i] = Append(Contents, x)[i]
    BY <1>3, <1>4, <1>5, <2>1, <2>2
  <2>4. \A i \in 1..m_size + 1 : Append(Contents, x)[i] \in S
    BY <2>1
  <2>5. new \in Seq(S) /\ Len(new) = m_size + 1
    <3>1. m_size + 1 \in Nat
      BY <1>1
    <3>2. \A i \in 1..m_size + 1 : m_array'[Slot(m_front, i)] \in S
      BY <2>3, <2>4
    <3> QED BY <3>1, <3>2
  <2> HIDE DEF new
  <2>6. new = Append(Contents, x)
    BY <2>1, <2>3, <2>5, SeqEqual
  <2> QED BY <1>6, <2>6 DEF new
<1> QED BY <1>0, <1>1, <1>2, <1>3, <1>7 DEF Abstract!Push, Abstract!Answer, Abstract!Ok, Ok

LEMMA TakePops ==
    ASSUME RingInv, RingInv', NEW t \in Threads, m_size > 0, Take(t),
           UNCHANGED timed \/ \E d \in BOOLEAN : timed' = [timed EXCEPT ![t] = d]
    PROVE  Abstract!Pop(t)
<1> USE DEF RingInv
<1>0. Calling' = [Calling EXCEPT ![t] = "none"]
  <2>1. wait' = [wait EXCEPT ![t] = "none"] BY DEF Take
  <2>2. TypeOK OBVIOUS
  <2>3. /\ Calling' = [Calling EXCEPT ![t] = Calling'[t]]
        /\ Calling'[t] = "none"
    BY <2>1, <2>2, OneCall
  <2> QED BY <2>3
<1>1. m_front \in Places /\ m_size \in 1..MaxSize
  BY Parameters DEF TypeOK, Places
<1>2. /\ m_front' = After(m_front) /\ m_size' = m_size - 1 /\ m_array' = m_array
      /\ result' = [result EXCEPT ![t] = Ok(m_array[Slot(m_front, 1)])]
  BY DEF Take, Answer, After
<1>3. /\ Contents \in Seq(Items \cup {Blank}) /\ Len(Contents) = m_size
      /\ \A i \in 1..m_size : Contents[i] = m_array[Slot(m_front, i)]
  BY ContentsType
<1>4. Contents # <<>> /\ Head(Contents) = m_array[Slot(m_front, 1)]
  BY <1>1, <1>3
<1>5. Contents' = [i \in 1..m_size - 1 |-> m_array[Slot(After(m_front), i)]]
  BY <1>2 DEF Contents
<1>6. \A i \in 1..m_size - 1 : Slot(After(m_front), i) = Slot(m_front, i + 1)
  BY <1>1, SlotShift, Parameters
<1>7. \A i \in 1..m_size - 1 : m_array[Slot(After(m_front), i)] = Contents[i + 1]
  BY <1>1, <1>3, <1>6
<1>8. Contents' = Tail(Contents)
  <2> DEFINE S == Items \cup {Blank}
             new == [i \in 1..m_size - 1 |-> m_array[Slot(After(m_front), i)]]
  <2>1. /\ Tail(Contents) \in Seq(S) /\ Len(Tail(Contents)) = m_size - 1
        /\ \A i \in 1..m_size - 1 : Tail(Contents)[i] = Contents[i + 1]
    BY <1>1, <1>3, <1>4, HeadTailProperties
  <2>2. \A i \in 1..m_size - 1 : new[i] = Tail(Contents)[i]
    BY <1>7, <2>1
  <2>3. new \in Seq(S) /\ Len(new) = m_size - 1
    BY <1>1, <2>1, <2>2
  <2> HIDE DEF new
  <2>4. new = Tail(Contents)
    BY <2>1, <2>2, <2>3, SeqEqual
  <2> QED BY <1>5, <2>4 DEF new
<1> QED BY <1>0, <1>2, <1>4, <1>8 DEF Abstract!Pop, Abstract!Answer, Abstract!Ok, Ok

LEMMA EmptyRing == m_size = 0 => Contents = <<>>
BY DEF Contents

LEMMA FullRing == ASSUME RingInv, m_size >= MaxSize PROVE Len(Contents) = MaxSize
<1>1. m_size \in 0..MaxSize BY DEF RingInv, TypeOK
<1>2. m_size = MaxSize BY <1>1, Parameters
<1> QED BY <1>2, ContentsType DEF RingInv

LEMMA RefusesFull ==
    ASSUME RingInv, NEW t \in Threads, NEW x \in Items, Push(t, x), m_size >= MaxSize
    PROVE  Abstract!Refuse(t)
<1>1. Contents' = Contents BY SameRing DEF Push
<1>2. Calling' = Calling /\ Calling[t] = "none"
  <2>1. \A u \in Threads : wait'[u] = "none" <=> wait[u] = "none" BY DEF Push, Broadcast
  <2> QED BY <2>1, SameCalls DEF Push, Calling
<1>3. Answer(t, Failed) BY DEF Push
<1> QED BY <1>1, <1>2, <1>3, FullRing
        DEF Abstract!Refuse, Abstract!Answer, Abstract!Failed, Answer, Failed

LEMMA PopWaits ==
    ASSUME RingInv, NEW t \in Threads, NEW deadline \in BOOLEAN, Pop(t, deadline), m_size = 0
    PROVE  Abstract!WaitToPop(t)
<1>1. Sleep(t) BY DEF Pop
<1>2. Contents' = Contents /\ Contents = <<>> /\ result' = result
  BY <1>1, SameRing, EmptyRing DEF Sleep
<1>3. Calling[t] = "none" BY DEF Pop, Calling
<1>4. \E kind \in {"pop", "timed pop"} : Calling' = [Calling EXCEPT ![t] = kind]
  <2>1. PICK w : w = "asleep" /\ wait' = [wait EXCEPT ![t] = w] BY <1>1 DEF Sleep
  <2>2. TypeOK /\ timed' = [timed EXCEPT ![t] = deadline] BY DEF RingInv, Pop
  <2>3. /\ Calling' = [Calling EXCEPT ![t] = Calling'[t]]
        /\ w # "none" => Calling'[t] = IF timed'[t] THEN "timed pop" ELSE "pop"
    BY <2>1, <2>2, OneCall
  <2>4. Calling'[t] \in {"pop", "timed pop"} BY <2>1, <2>3
  <2> QED BY <2>3, <2>4
<1> QED BY <1>2, <1>3, <1>4 DEF Abstract!WaitToPop

LEMMA GivesUp ==
    ASSUME TypeOK, NEW t \in Threads, timed[t], wait[t] # "none", GiveUp(t), UNCHANGED timed
    PROVE  Abstract!GiveUp(t)
<1>1. Contents' = Contents BY SameRing DEF GiveUp
<1>2. Calling[t] = "timed pop" BY DEF Calling
<1>3. Calling' = [Calling EXCEPT ![t] = "none"]
  <2>1. PICK w : w = "none" /\ wait' = [wait EXCEPT ![t] = w] BY DEF GiveUp
  <2>2. /\ Calling' = [Calling EXCEPT ![t] = Calling'[t]]
        /\ w = "none" => Calling'[t] = "none"
    BY <2>1, OneCall
  <2> QED BY <2>1, <2>2
<1>4. Answer(t, Failed) BY DEF GiveUp
<1> QED BY <1>1, <1>2, <1>3, <1>4
        DEF Abstract!GiveUp, Abstract!Answer, Abstract!Failed, Answer, Failed

LEMMA LookLooks ==
    ASSUME RingInv, NEW t \in Threads, Front(t) \/ Back(t)
    PROVE  Abstract!Look(t)
<1> USE DEF RingInv
<1>1. UNCHANGED <<ring, wait, timed>> BY DEF Front, Back, Look
<1>0. Calling' = Calling /\ Calling[t] = "none"
  <2>1. wait[t] = "none" BY DEF Front, Back, Look
  <2> QED BY <1>1, <2>1 DEF Calling
<1>4. Contents' = Contents BY <1>1, SameRing
<1>2. CASE m_size = 0
  <2>1. Answer(t, Failed) BY <1>2 DEF Front, Back, Look
  <2>2. Abstract!Answer(t, Abstract!Failed)
    BY <2>1 DEF Abstract!Answer, Abstract!Failed, Answer, Failed
  <2>3. Contents = <<>> BY <1>2, EmptyRing
  <2> QED BY <1>0, <1>4, <2>2, <2>3 DEF Abstract!Look
<1>3. CASE m_size # 0
  <2>1. /\ m_front \in Places /\ m_back \in Places /\ m_size \in 1..MaxSize
        /\ m_size \in 0..MaxSize /\ 0 \in 0..MaxSize
    BY <1>3, Parameters DEF TypeOK, Places
  <2>2. /\ Len(Contents) = m_size
        /\ Contents \in Seq(Items \cup {Blank})
        /\ \A i \in 1..m_size : Contents[i] = m_array[Slot(m_front, i)]
    BY ContentsType
  <2>3. Contents # <<>> /\ Head(Contents) = m_array[Slot(m_front, 1)]
        /\ Contents[Len(Contents)] = m_array[Slot(m_front, m_size)]
    BY <2>1, <2>2
  <2>4. DOMAIN m_array = 0..MaxSize - 1 BY DEF TypeOK
  <2>5. CASE Front(t)
    <3>1. After(m_front) \in DOMAIN m_array BY <2>1, <2>4, AfterIs
    <3>2. Answer(t, Ok(m_array[After(m_front)]))
      BY <1>3, <2>5, <3>1 DEF Front, Look
    <3>3. Abstract!Answer(t, Abstract!Ok(Head(Contents)))
      BY <2>3, <3>2 DEF Abstract!Answer, Abstract!Ok, Answer, Ok, After
    <3> QED BY <1>0, <1>4, <2>3, <3>3 DEF Abstract!Look
  <2>6. CASE Back(t)
    <3>1. m_back \in DOMAIN m_array BY <2>1, <2>4 DEF BackIsSlot, Places
    <3>2. Slot(m_back, 0) = m_back BY <2>1, <2>4, <3>1, SlotIs, Parameters
    <3>3. m_back = Slot(m_front, m_size) BY <3>2 DEF RingAgrees
    <3>4. Answer(t, Ok(m_array[m_back]))
      BY <1>3, <2>6, <3>1 DEF Back, Look
    <3>5. Abstract!Answer(t, Abstract!Ok(Contents[Len(Contents)]))
      BY <2>3, <3>3, <3>4 DEF Abstract!Answer, Abstract!Ok, Answer, Ok
    <3> QED BY <1>0, <1>4, <2>3, <3>5 DEF Abstract!Look
  <2> QED BY <2>5, <2>6
<1> QED BY <1>2, <1>3

LEMMA StepImplements ==
    ASSUME RingInv, RingInv', [Next]_vars
    PROVE  Abstract!Next \/ UNCHANGED <<Contents, Calling, result>>
<1> DEFINE Goal == Abstract!Next \/ UNCHANGED <<Contents, Calling, result>>
<1>0. TypeOK /\ m_size \in Nat /\ MaxSize \in Nat
  BY Parameters DEF RingInv, TypeOK
<1>1. ASSUME NEW t \in Threads, NEW x \in Items, Push(t, x) PROVE Goal
  <2>1. CASE m_size < MaxSize BY <1>1, <2>1, PushAppends DEF Abstract!Next
  <2>2. CASE m_size >= MaxSize BY <1>1, <2>2, RefusesFull DEF Abstract!Next
  <2> QED BY <1>0, <2>1, <2>2
<1>2. ASSUME NEW t \in Threads, NEW deadline \in BOOLEAN, Pop(t, deadline) PROVE Goal
  <2>1. CASE m_size = 0 BY <1>2, <2>1, PopWaits DEF Abstract!Next
  <2>2. CASE m_size > 0
    <3>1. Take(t) /\ timed' = [timed EXCEPT ![t] = deadline] BY <1>0, <1>2, <2>2 DEF Pop
    <3>2. Abstract!Pop(t) BY <2>2, <3>1, TakePops
    <3> QED BY <3>2 DEF Abstract!Next
  <2> QED BY <1>0, <2>1, <2>2
<1>3. ASSUME NEW t \in Threads, Retry(t) PROVE Goal
  <2>1. wait[t] = "awake" /\ UNCHANGED timed BY <1>3 DEF Retry
  <2>2. CASE m_size > 0
    <3>1. Take(t) BY <1>3, <2>2 DEF Retry
    <3>2. Abstract!Pop(t) BY <2>1, <2>2, <3>1, TakePops
    <3> QED BY <3>2 DEF Abstract!Next
  <2>3. CASE ~(m_size > 0) /\ timed[t]
    <3>1. GiveUp(t) BY <1>3, <2>3 DEF Retry
    <3>2. Abstract!GiveUp(t) BY <1>0, <2>1, <2>3, <3>1, GivesUp
    <3> QED BY <3>2 DEF Abstract!Next
  <2>4. CASE ~(m_size > 0) /\ ~timed[t]
    <3>1. Sleep(t) BY <1>3, <2>4 DEF Retry
    <3>2. \A u \in Threads : wait'[u] = "none" <=> wait[u] = "none"
      BY <1>0, <2>1, <3>1 DEF Sleep, TypeOK
    <3> QED BY <2>1, <3>1, <3>2, SameRing, SameCalls DEF Sleep
  <2> QED BY <2>2, <2>3, <2>4
<1>4. ASSUME NEW t \in Threads, Spurious(t) PROVE Goal
  <2>1. \A u \in Threads : wait'[u] = "none" <=> wait[u] = "none"
    BY <1>0, <1>4 DEF Spurious, TypeOK
  <2> QED BY <1>4, <2>1, SameRing, SameCalls DEF Spurious
<1>5. ASSUME NEW t \in Threads, Expire(t) PROVE Goal
  <2>1. Abstract!GiveUp(t) BY <1>0, <1>5, GivesUp DEF Expire
  <2> QED BY <2>1 DEF Abstract!Next
<1>6. ASSUME NEW t \in Threads, Clear(t) PROVE Goal
  <2>1. Contents' = <<>> /\ UNCHANGED <<wait, timed, result>> BY <1>6 DEF Clear, Contents
  <2>2. Calling' = Calling BY <2>1 DEF Calling
  <2> QED BY <2>1, <2>2 DEF Abstract!Next, Abstract!Clear
<1>7. ASSUME NEW t \in Threads, Front(t) \/ Back(t) PROVE Goal
  BY <1>7, LookLooks DEF Abstract!Next
<1>8. CASE UNCHANGED vars
  <2>1. UNCHANGED <<ring, wait, timed, result>> BY <1>8 DEF vars
  <2>2. Calling' = Calling BY <2>1 DEF Calling
  <2> QED BY <2>1, <2>2, SameRing
<1> QED BY <1>1, <1>2, <1>3, <1>4, <1>5, <1>6, <1>7, <1>8 DEF Next

LEMMA InitImplements == Init => Abstract!Init
<1> SUFFICES ASSUME Init PROVE Abstract!Init OBVIOUS
<1>1. Contents = <<>> BY DEF Init, Contents
<1>2. Calling = [t \in Threads |-> "none"] BY DEF Init, Calling
<1> QED BY <1>1, <1>2 DEF Init, Abstract!Init, Abstract!Failed, Failed

\* The ring buffer is a bounded first-in first-out queue, whatever its size
\* and however many threads push, pop, give up, look and clear.
THEOREM RingIsFifo == Spec => ImplementsFifo
<1>1. RingInv /\ RingInv' /\ [Next]_vars => [Abstract!Next]_(Abstract!vars)
  BY StepImplements DEF Abstract!vars
<1> QED BY <1>1, InitImplements, RingInvariant, PTL DEF Spec, ImplementsFifo, Abstract!Spec

-----------------------------------------------------------------------------
(***************************************************************************)
(* The list.  What its loops compute is found without induction over the   *)
(* definition: a loop along the list ends at the first element, in the     *)
(* order of Nat, at which it stops.                                        *)
(***************************************************************************)

LEMMA Least ==
    ASSUME NEW D, D \subseteq Nat, D # {}
    PROVE  \E m \in D : \A d \in D : m <= d
<1>1. PICK m \in D : \A d \in D : <<d, m>> \notin OpToRel(<, Nat)
  BY WFMin, NatLessThanWellFounded, Zenon
<1>2. \A d \in D : ~ (d < m)
  BY <1>1, Zenon DEF OpToRel
<1> QED BY <1>2

LEMMA Greatest ==
    ASSUME NEW n \in Nat, NEW D, D \subseteq 0..n, D # {}
    PROVE  \E m \in D : \A d \in D : d <= m
<1> DEFINE E == {e \in 0..n : n - e \in D}
<1>1. PICK d \in D : TRUE
  OBVIOUS
<1>2. n - d \in E /\ E \subseteq Nat
  BY <1>1
<1>3. PICK e \in E : \A x \in E : e <= x
  <2> HIDE DEF E
  <2> QED BY <1>2, Least
<1>4. n - e \in D /\ e \in 0..n
  BY <1>3
<1>5. ASSUME NEW x \in D PROVE x <= n - e
  <2>1. x \in 0..n /\ n - x \in 0..n /\ n - (n - x) = x
    OBVIOUS
  <2>2. n - x \in E
    BY <2>1
  <2>3. e <= n - x
    BY <1>3, <2>2
  <2> QED BY <1>4, <2>1, <2>3
<1> QED BY <1>4, <1>5

-----------------------------------------------------------------------------
(* A loop that goes from one element of S to the next until it meets one of *)
(* Stop, as a recursive function: there is such a function, whether or not  *)
(* the loop ends.  Chain is what every set closed under the loop holds.     *)

Closed(S, step, Stop, C) == C \subseteq S /\ \A x \in C \ Stop : step[x] \in C

Chain(S, step, Stop, p) == {q \in S : \A C \in SUBSET S : p \in C /\ Closed(S, step, Stop, C) => q \in C}

LEMMA ChainStops ==
    ASSUME NEW S, NEW step, NEW Stop, NEW p \in S, p \in Stop
    PROVE  Chain(S, step, Stop, p) = {p}
<1>1. Closed(S, step, Stop, {p})
  BY DEF Closed
<1> QED BY <1>1 DEF Chain

LEMMA ChainSteps ==
    ASSUME NEW S, NEW step, NEW Stop, NEW p \in S, p \notin Stop, step[p] \in S
    PROVE  Chain(S, step, Stop, p) = {p} \cup Chain(S, step, Stop, step[p])
<1>1. ASSUME NEW q \in Chain(S, step, Stop, p), q # p
      PROVE  q \in Chain(S, step, Stop, step[p])
  <2> SUFFICES ASSUME NEW C \in SUBSET S, step[p] \in C, Closed(S, step, Stop, C)
               PROVE  q \in C
    BY DEF Chain
  <2>1. Closed(S, step, Stop, C \cup {p}) /\ C \cup {p} \in SUBSET S
    BY DEF Closed
  <2>2. q \in C \cup {p}
    BY <2>1 DEF Chain
  <2> QED BY <1>1, <2>2
<1>2. ASSUME NEW q \in Chain(S, step, Stop, step[p])
      PROVE  q \in Chain(S, step, Stop, p)
  BY DEF Chain, Closed
<1>3. p \in Chain(S, step, Stop, p)
  BY DEF Chain
<1> QED BY <1>1, <1>2, <1>3

Loops(g, S, step, Stop) == g = [p \in S |-> IF p \in Stop THEN p ELSE g[step[p]]]

Collects(g, S, step, Stop) ==
    g = [p \in S |-> IF p \in Stop THEN {} ELSE {p} \cup g[step[p]]]

\* The loop that returns the element at which it stops.
LEMMA LoopExists ==
    ASSUME NEW S, NEW step, NEW Stop, \A p \in S \ Stop : step[p] \in S
    PROVE  \E g : Loops(g, S, step, Stop)
<1> DEFINE end(p) == CHOOSE q : q \in Chain(S, step, Stop, p) \cap Stop
           g == [p \in S |-> end(p)]
<1>1. ASSUME NEW p \in S, p \in Stop PROVE end(p) = p
  BY <1>1, ChainStops
<1>2. ASSUME NEW p \in S, p \notin Stop PROVE end(p) = end(step[p])
  <2>1. Chain(S, step, Stop, p) \cap Stop = Chain(S, step, Stop, step[p]) \cap Stop
    BY <1>2, ChainSteps
  <2> QED BY <2>1
<1>3. \A p \in S : g[p] = IF p \in Stop THEN p ELSE g[step[p]]
  <2> HIDE DEF end
  <2> QED BY <1>1, <1>2
<1>4. g = [p \in S |-> g[p]]
  OBVIOUS
<1>5. g = [p \in S |-> IF p \in Stop THEN p ELSE g[step[p]]]
  <2> HIDE DEF g
  <2> QED BY <1>3, <1>4
<1> QED BY <1>5 DEF Loops

\* The loop that collects the elements before the one at which it stops.
LEMMA CollectExists ==
    ASSUME NEW S, NEW step, NEW Stop, \A p \in S \ Stop : step[p] \in S
    PROVE  \E g : Collects(g, S, step, Stop)
<1> DEFINE before(p) == Chain(S, step, Stop, p) \ Stop
           g == [p \in S |-> before(p)]
<1>1. ASSUME NEW p \in S, p \in Stop PROVE before(p) = {}
  BY <1>1, ChainStops
<1>2. ASSUME NEW p \in S, p \notin Stop PROVE before(p) = {p} \cup before(step[p])
  BY <1>2, ChainSteps
<1>3. \A p \in S : g[p] = IF p \in Stop THEN {} ELSE {p} \cup g[step[p]]
  <2> HIDE DEF before
  <2> QED BY <1>1, <1>2
<1>4. g = [p \in S |-> g[p]]
  OBVIOUS
<1>5. g = [p \in S |-> IF p \in Stop THEN {} ELSE {p} \cup g[step[p]]]
  <2> HIDE DEF g
  <2> QED BY <1>3, <1>4
<1> QED BY <1>5 DEF Collects

\* s[f], ..., s[n] are the elements the loop meets.
Follows(S, step, Stop, f, n, s) ==
    /\ \A i \in f..n : s[i] \in S
    /\ \A i \in f..n : s[i] \notin Stop => i # n /\ step[s[i]] = s[i + 1]

EndsAt(g, Stop, f, k, s) ==
    s[k] \in Stop /\ g[s[f]] = s[k] /\ \A i \in f..k - 1 : s[i] \notin Stop

\* Along a sequence that follows the loop, the loop ends at the first element of Stop.
LEMMA LoopAlong ==
    ASSUME NEW S, NEW step, NEW Stop, NEW n \in Nat, NEW f \in 1..n, NEW s, NEW g,
           Loops(g, S, step, Stop), Follows(S, step, Stop, f, n, s)
    PROVE  \E k \in f..n : EndsAt(g, Stop, f, k, s)
<1> USE DEF Follows
<1> DEFINE D == {i \in f..n : s[i] \in Stop}
<1>1. PICK k \in D : \A d \in D : k <= d
  <2>1. n \in D /\ D \subseteq Nat
    OBVIOUS
  <2> HIDE DEF D
  <2> QED BY <2>1, Least
<1>2. k \in f..n /\ s[k] \in Stop /\ \A i \in f..k - 1 : s[i] \notin Stop
  <2>1. k \in f..n /\ s[k] \in Stop
    BY <1>1
  <2>2. ASSUME NEW i \in f..k - 1, s[i] \in Stop PROVE FALSE
    <3>1. i \in D /\ i < k
      BY <2>1, <2>2
    <3> QED BY <1>1, <2>1, <3>1
  <2> QED BY <2>1, <2>2
<1> DEFINE B == {i \in f..k : g[s[i]] # s[k]}
<1>3. B = {}
  <2> SUFFICES ASSUME B # {} PROVE FALSE
    OBVIOUS
  <2>1. PICK m \in B : \A d \in B : d <= m
    <3>1. B \subseteq 0..k /\ k \in Nat
      BY <1>2
    <3> HIDE DEF B
    <3> QED BY <3>1, Greatest
  <2>2. m \in f..k /\ g[s[m]] # s[k] /\ s[m] \in S
    BY <1>2, <2>1
  <2>3. m # k
    BY <1>2, <2>2 DEF Loops
  <2>4. s[m] \notin Stop /\ m + 1 \in f..k /\ s[m + 1] \in S
    BY <1>2, <2>2, <2>3
  <2>5. g[s[m]] = g[s[m + 1]]
    BY <1>2, <2>2, <2>4 DEF Loops
  <2>6. m + 1 \in B
    BY <2>2, <2>4, <2>5
  <2> QED BY <2>1, <2>2, <2>6
<1>4. f \in f..k
  BY <1>2
<1> QED BY <1>2, <1>3, <1>4 DEF EndsAt

\* The loop goes from s[f] to s[k] and stops there.
Reaches(S, step, Stop, f, k, s) ==
    /\ \A i \in f..k : s[i] \in S
    /\ s[k] \in Stop
    /\ \A i \in f..k - 1 : s[i] \notin Stop /\ step[s[i]] = s[i + 1]

Collected(g, f, k, s) == g[s[f]] = {s[i] : i \in f..k - 1}

LEMMA CollectAlong ==
    ASSUME NEW S, NEW step, NEW Stop, NEW k \in Nat, NEW f \in 1..k, NEW s, NEW g,
           Collects(g, S, step, Stop), Reaches(S, step, Stop, f, k, s)
    PROVE  Collected(g, f, k, s)
<1> USE DEF Reaches, Collected
<1> DEFINE B == {i \in f..k : g[s[i]] # {s[j] : j \in i..k - 1}}
<1>1. B = {}
  <2> SUFFICES ASSUME B # {} PROVE FALSE
    OBVIOUS
  <2>1. PICK m \in B : \A d \in B : d <= m
    <3>1. B \subseteq 0..k
      OBVIOUS
    <3> HIDE DEF B
    <3> QED BY <3>1, Greatest
  <2>2. m \in f..k /\ g[s[m]] # {s[j] : j \in m..k - 1} /\ s[m] \in S
    BY <2>1
  <2>3. m # k
    <3>1. g[s[k]] = {}
      BY DEF Collects
    <3>2. k..k - 1 = {}
      OBVIOUS
    <3> QED BY <2>2, <3>1, <3>2
  <2>4. s[m] \notin Stop /\ m + 1 \in f..k /\ step[s[m]] = s[m + 1] /\ s[m + 1] \in S
    BY <2>2, <2>3
  <2>5. g[s[m]] = {s[m]} \cup g[s[m + 1]]
    BY <2>2, <2>4 DEF Collects
  <2>6. {s[j] : j \in m..k - 1} = {s[m]} \cup {s[j] : j \in m + 1..k - 1}
    <3>1. \A j : j \in m..k - 1 <=> j = m \/ j \in m + 1..k - 1
      BY <2>2, <2>3
    <3> QED BY <3>1
  <2>7. m + 1 \in B
    BY <2>2, <2>4, <2>5, <2>6
  <2> QED BY <2>1, <2>2, <2>7
<1>2. f \in f..k
  OBVIOUS
<1> QED BY <1>1, <1>2

-----------------------------------------------------------------------------
(* The list as a sequence: l holds the timers of A in the order s[1], ..., s[n]. *)

Listing(A, n, s) ==
    /\ n \in Nat
    /\ s \in [1..n -> Timers]
    /\ \A i, j \in 1..n : s[i] = s[j] => i = j
    /\ A = {s[i] : i \in 1..n}

Linked(l, A, n, s) ==
    /\ Listing(A, n, s)
    /\ l.head = IF n = 0 THEN Null ELSE s[1]
    /\ n > 0 => l.tail = s[n]
    /\ \A i \in 1..n : l.next[s[i]] = IF i = n THEN Null ELSE s[i + 1]
    /\ \A i \in 1..n : l.prev[s[i]] = IF i = 1 THEN Null ELSE s[i - 1]

LEMMA ListingIs ==
    ASSUME NEW A, NEW n, NEW s, Listing(A, n, s)
    PROVE  /\ n \in Nat
           /\ \A i \in 1..n : s[i] \in A /\ s[i] \in Timers
           /\ \A a \in A : \E i \in 1..n : s[i] = a
<1>1. \A a : a \in A <=> \E i \in 1..n : s[i] = a
  BY DEF Listing
<1> QED BY <1>1 DEF Listing

Lists == [head : Timers \cup {Null}, tail : Timers \cup {Null},
          next : [Timers -> Timers \cup {Null}], prev : [Timers -> Timers \cup {Null}]]

Stays(l, t, exp) == {p \in Timers : l.next[p] = Null \/ exp[t] < exp[l.next[p]]}

LEMMA PlaceLoops ==
    ASSUME NEW l \in Lists, NEW t, NEW exp, NEW first
    PROVE  \E g : /\ Loops(g, Timers, l.next, Stays(l, t, exp))
                  /\ Place(l, t, first, exp) = g[first]
<1> DEFINE IsLoop(g) == g = [p \in Timers |-> IF l.next[p] = Null \/ exp[t] < exp[l.next[p]]
                                              THEN p ELSE g[l.next[p]]]
           place == CHOOSE g : IsLoop(g)
<1>1. Place(l, t, first, exp) = place[first]
  BY Zenon DEF Place
<1>2. \E g : Loops(g, Timers, l.next, Stays(l, t, exp))
  <2>1. \A p \in Timers \ Stays(l, t, exp) : l.next[p] \in Timers
    BY DEF Lists, Stays
  <2> QED BY <2>1, LoopExists
<1>3. ASSUME NEW g
      PROVE  IsLoop(g) <=> Loops(g, Timers, l.next, Stays(l, t, exp))
  BY DEF Stays, Loops
<1>4. IsLoop(place)
  <2>1. \E g : IsLoop(g)
    BY <1>2, <1>3
  <2> HIDE DEF IsLoop
  <2> QED BY <2>1
<1> HIDE DEF place, IsLoop
<1> QED BY <1>1, <1>3, <1>4

Leaves == {t \in Timers \cup {Null} : t = Null \/ now < expire[t]}

LEMMA FirstLeftLoops ==
    ASSUME list \in Lists
    PROVE  \E g : /\ Loops(g, Timers \cup {Null}, list.next, Leaves)
                  /\ FirstLeft = g[list.head]
<1> DEFINE S == Timers \cup {Null}
           IsLoop(g) == g = [t \in S |-> IF t = Null \/ now < expire[t]
                                         THEN t ELSE g[list.next[t]]]
           first == CHOOSE g : IsLoop(g)
<1>1. FirstLeft = first[list.head]
  BY Zenon DEF FirstLeft
<1>2. \E g : Loops(g, S, list.next, Leaves)
  <2>1. \A t \in S \ Leaves : list.next[t] \in S
    BY DEF Lists, Leaves
  <2> HIDE DEF S
  <2> QED BY <2>1, LoopExists
<1>3. ASSUME NEW g
      PROVE  IsLoop(g) <=> Loops(g, S, list.next, Leaves)
  BY DEF Leaves, Loops
<1>4. IsLoop(first)
  <2>1. \E g : IsLoop(g)
    BY <1>2, <1>3
  <2> HIDE DEF IsLoop
  <2> QED BY <2>1
<1> HIDE DEF first, IsLoop
<1> QED BY <1>1, <1>3, <1>4

LEMMA UptoLoops ==
    ASSUME list \in Lists, NEW end
    PROVE  \E g : /\ Collects(g, Timers \cup {Null}, list.next, {Null, end})
                  /\ Upto(end) = g[list.head]
<1> DEFINE S == Timers \cup {Null}
           IsLoop(g) == g = [t \in S |-> IF t = Null \/ t = end
                                         THEN {} ELSE {t} \cup g[list.next[t]]]
           walk == CHOOSE g : IsLoop(g)
<1>1. Upto(end) = walk[list.head]
  BY Zenon DEF Upto
<1>2. \E g : Collects(g, S, list.next, {Null, end})
  <2>1. \A t \in S \ {Null, end} : list.next[t] \in S
    BY DEF Lists
  <2> HIDE DEF S
  <2> QED BY <2>1, CollectExists
<1>3. ASSUME NEW g
      PROVE  IsLoop(g) <=> Collects(g, S, list.next, {Null, end})
  BY DEF Collects
<1>4. IsLoop(walk)
  <2>1. \E g : IsLoop(g)
    BY <1>2, <1>3
  <2> HIDE DEF IsLoop
  <2> QED BY <2>1
<1> HIDE DEF walk, IsLoop
<1> QED BY <1>1, <1>3, <1>4

-----------------------------------------------------------------------------
(* Taking a timer in, taking one out, and leaving the first k. *)

With(n, s, k, t) ==
    [i \in 1..n + 1 |-> IF i <= k THEN s[i] ELSE IF i = k + 1 THEN t ELSE s[i - 1]]

Without(n, s, k) == [i \in 1..n - 1 |-> IF i < k THEN s[i] ELSE s[i + 1]]

From(n, s, k) == [i \in 1..n - k |-> s[i + k]]

LEMMA WithIs ==
    ASSUME NEW A, NEW n, NEW s, Listing(A, n, s), NEW k \in 0..n, NEW t \in Timers \ A
    PROVE  Listing(A \cup {t}, n + 1, With(n, s, k, t))
<1>a. /\ n \in Nat /\ s \in [1..n -> Timers] /\ A = {s[i] : i \in 1..n}
      /\ \A i, j \in 1..n : s[i] = s[j] => i = j
  BY DEF Listing
<1> USE <1>a
<1> DEFINE w == With(n, s, k, t)
<1>1. w = [i \in 1..n + 1 |-> w[i]]
  BY DEF With
<1>2. ASSUME NEW i \in 1..n + 1
      PROVE  \/ i \in 1..n /\ i <= k /\ w[i] = s[i]
             \/ i = k + 1 /\ w[i] = t
             \/ i - 1 \in 1..n /\ i > k + 1 /\ w[i] = s[i - 1]
  BY DEF With
<1>3. /\ \A i \in 1..n : i <= k => i \in 1..n + 1 /\ w[i] = s[i]
      /\ \A i \in 1..n : i > k => i + 1 \in 1..n + 1 /\ w[i + 1] = s[i]
      /\ k + 1 \in 1..n + 1 /\ w[k + 1] = t
  BY DEF With
<1> HIDE DEF w
<1>4. \A i \in 1..n + 1 : w[i] \in Timers /\ w[i] \in {s[j] : j \in 1..n} \cup {t}
  <2> TAKE i \in 1..n + 1
  <2> QED BY <1>2
<1>5. ASSUME NEW i \in 1..n + 1, NEW j \in 1..n + 1, w[i] = w[j] PROVE i = j
  <2>1. \A x \in 1..n : s[x] # t
    OBVIOUS
  <2>2. \/ i \in 1..n /\ i <= k /\ w[i] = s[i]
        \/ i = k + 1 /\ w[i] = t
        \/ i - 1 \in 1..n /\ i > k + 1 /\ w[i] = s[i - 1]
    BY <1>2
  <2>3. \/ j \in 1..n /\ j <= k /\ w[j] = s[j]
        \/ j = k + 1 /\ w[j] = t
        \/ j - 1 \in 1..n /\ j > k + 1 /\ w[j] = s[j - 1]
    BY <1>2
  <2> QED BY <1>5, <2>1, <2>2, <2>3
<1>6. {s[j] : j \in 1..n} \cup {t} \subseteq {w[i] : i \in 1..n + 1}
  <2>1. ASSUME NEW j \in 1..n PROVE s[j] \in {w[i] : i \in 1..n + 1}
    <3>1. CASE j <= k
      BY <1>3, <3>1
    <3>2. CASE j > k
      BY <1>3, <3>2
    <3> QED BY <3>1, <3>2
  <2> QED BY <1>3, <2>1
<1>7. {w[i] : i \in 1..n + 1} \subseteq {s[j] : j \in 1..n} \cup {t}
  BY <1>4
<1>8. w \in [1..n + 1 -> Timers]
  BY <1>1, <1>4
<1>9. A \cup {t} = {w[i] : i \in 1..n + 1}
  BY <1>6, <1>7, Zenon
<1>b. n + 1 \in Nat
  OBVIOUS
<1> QED BY <1>5, <1>8, <1>9, <1>b, Zenon DEF w, Listing

LEMMA WithoutIs ==
    ASSUME NEW A, NEW n, NEW s, Listing(A, n, s), NEW k \in 1..n
    PROVE  Listing(A \ {s[k]}, n - 1, Without(n, s, k))
<1>a. /\ n \in Nat /\ s \in [1..n -> Timers] /\ A = {s[i] : i \in 1..n}
      /\ \A i, j \in 1..n : s[i] = s[j] => i = j
  BY DEF Listing
<1> USE <1>a
<1> DEFINE w == Without(n, s, k)
<1>1. w = [i \in 1..n - 1 |-> w[i]]
  BY DEF Without
<1>2. ASSUME NEW i \in 1..n - 1
      PROVE  \/ i \in 1..n /\ i < k /\ w[i] = s[i]
             \/ i + 1 \in 1..n /\ i >= k /\ w[i] = s[i + 1]
  BY DEF Without
<1>3. /\ \A i \in 1..n : i < k => i \in 1..n - 1 /\ w[i] = s[i]
      /\ \A i \in 1..n : i > k => i - 1 \in 1..n - 1 /\ w[i - 1] = s[i]
  BY DEF Without
<1> HIDE DEF w
<1>4. \A i \in 1..n - 1 : w[i] \in Timers /\ w[i] \in {s[j] : j \in 1..n} \ {s[k]}
  <2> TAKE i \in 1..n - 1
  <2> QED BY <1>2
<1>5. ASSUME NEW i \in 1..n - 1, NEW j \in 1..n - 1, w[i] = w[j] PROVE i = j
  <2>2. \/ i \in 1..n /\ i < k /\ w[i] = s[i]
        \/ i + 1 \in 1..n /\ i >= k /\ w[i] = s[i + 1]
    BY <1>2
  <2>3. \/ j \in 1..n /\ j < k /\ w[j] = s[j]
        \/ j + 1 \in 1..n /\ j >= k /\ w[j] = s[j + 1]
    BY <1>2
  <2> QED BY <1>5, <2>2, <2>3
<1>6. {s[j] : j \in 1..n} \ {s[k]} \subseteq {w[i] : i \in 1..n - 1}
  <2>1. ASSUME NEW j \in 1..n, j # k PROVE s[j] \in {w[i] : i \in 1..n - 1}
    <3>1. CASE j < k
      BY <1>3, <3>1
    <3>2. CASE j > k
      BY <1>3, <3>2
    <3> QED BY <2>1, <3>1, <3>2
  <2> QED BY <2>1
<1>7. {w[i] : i \in 1..n - 1} \subseteq {s[j] : j \in 1..n} \ {s[k]}
  BY <1>4
<1>8. w \in [1..n - 1 -> Timers]
  BY <1>1, <1>4
<1>9. A \ {s[k]} = {w[i] : i \in 1..n - 1}
  BY <1>6, <1>7, Zenon
<1>b. n - 1 \in Nat
  OBVIOUS
<1> QED BY <1>5, <1>8, <1>9, <1>b, Zenon DEF w, Listing

LEMMA FromIs ==
    ASSUME NEW A, NEW n, NEW s, Listing(A, n, s), NEW k \in 0..n
    PROVE  Listing(A \ {s[i] : i \in 1..k}, n - k, From(n, s, k))
<1>a. /\ n \in Nat /\ s \in [1..n -> Timers] /\ A = {s[i] : i \in 1..n}
      /\ \A i, j \in 1..n : s[i] = s[j] => i = j
  BY DEF Listing
<1> USE <1>a
<1> DEFINE w == From(n, s, k)
<1>1. /\ \A i \in 1..n - k : w[i] = s[i + k] /\ i + k \in 1..n /\ i + k \notin 1..k
      /\ w = [i \in 1..n - k |-> w[i]]
  BY DEF From
<1>2. \A i \in 1..n : i \in 1..k \/ (i - k \in 1..n - k /\ i - k + k = i)
  OBVIOUS
<1>0. 1..k \subseteq 1..n
  OBVIOUS
<1> HIDE DEF w
<1>3. \A i \in 1..n - k : w[i] \in Timers /\ w[i] \in {s[j] : j \in 1..n} \ {s[j] : j \in 1..k}
  BY <1>0, <1>1
<1>4. ASSUME NEW i \in 1..n - k, NEW j \in 1..n - k, w[i] = w[j] PROVE i = j
  BY <1>1, <1>4
<1>5. {s[j] : j \in 1..n} \ {s[j] : j \in 1..k} \subseteq {w[i] : i \in 1..n - k}
  BY <1>1, <1>2
<1>6. {w[i] : i \in 1..n - k} \subseteq {s[j] : j \in 1..n} \ {s[j] : j \in 1..k}
  BY <1>3
<1>7. w \in [1..n - k -> Timers]
  BY <1>1, <1>3
<1>8. A \ {s[i] : i \in 1..k} = {w[i] : i \in 1..n - k}
  BY <1>5, <1>6, Zenon
<1>b. n - k \in Nat
  OBVIOUS
<1> QED BY <1>4, <1>7, <1>8, <1>b, Zenon DEF w, Listing

\* The links of l change where t goes in: the loop of add_timer() has found s[k].
LEMMA LinkAfterLinks ==
    ASSUME NEW l \in Lists, NEW A, NEW n, NEW s, Linked(l, A, n, s),
           NEW k \in 1..n, NEW t \in Timers \ A
    PROVE  /\ LinkAfter(l, s[k], t) \in Lists
           /\ Linked(LinkAfter(l, s[k], t), A \cup {t}, n + 1, With(n, s, k, t))
<1> DEFINE m == LinkAfter(l, s[k], t)
           w == With(n, s, k, t)
<1> USE ListParameters
<1>1. /\ n \in Nat /\ s \in [1..n -> Timers] /\ \A i, j \in 1..n : s[i] = s[j] => i = j
      /\ A = {s[i] : i \in 1..n} /\ n > 0 /\ k \in 0..n /\ s[k] \in Timers /\ s[k] # t
      /\ \A i \in 1..n : s[i] # t /\ s[i] # Null /\ s[i] \in Timers
  BY DEF Linked, Listing
<1>2. /\ l.head = s[1] /\ l.tail = s[n]
      /\ \A i \in 1..n : l.next[s[i]] = IF i = n THEN Null ELSE s[i + 1]
      /\ \A i \in 1..n : l.prev[s[i]] = IF i = 1 THEN Null ELSE s[i - 1]
  BY <1>1 DEF Linked
<1>3. PICK q : q = IF k = n THEN Null ELSE s[k + 1]
  OBVIOUS
<1>4. l.next[s[k]] = q /\ q \in Timers \cup {Null}
  <2>1. k # n => k + 1 \in 1..n
    BY <1>1
  <2> QED BY <1>1, <1>2, <1>3, <2>1
<1>5. /\ m \in Lists /\ m.head = l.head /\ m.tail = IF k = n THEN t ELSE l.tail
      /\ m.next = [[l.next EXCEPT ![s[k]] = t] EXCEPT ![t] = q]
      /\ m.prev = IF k = n THEN [l.prev EXCEPT ![t] = s[k]]
                  ELSE [[l.prev EXCEPT ![q] = t] EXCEPT ![t] = s[k]]
  <2>1. q = Null <=> k = n
    BY <1>1, <1>3
  <2> QED BY <1>1, <1>4, <2>1 DEF LinkAfter, Lists
<1>6. Listing(A \cup {t}, n + 1, w)
  BY <1>1, WithIs DEF Linked
<1>7. /\ \A i \in 1..n : i <= k => w[i] = s[i]
      /\ \A i \in 1..n : i > k => w[i + 1] = s[i]
      /\ w[k + 1] = t
  BY <1>1 DEF With
<1> HIDE DEF m, w
<1>8. m.head = w[1] /\ m.tail = w[n + 1]
  BY <1>1, <1>2, <1>5, <1>7
<1>9. /\ m.next[t] = q /\ m.next[s[k]] = t
      /\ \A i \in 1..n : i # k => m.next[s[i]] = l.next[s[i]]
  BY <1>1, <1>5 DEF Lists
<1>10. /\ m.prev[t] = s[k]
       /\ k # n => m.prev[q] = t
       /\ \A i \in 1..n : i # k + 1 => m.prev[s[i]] = l.prev[s[i]]
  BY <1>1, <1>3, <1>5 DEF Lists
<1>11. ASSUME NEW i \in 1..n + 1
       PROVE  m.next[w[i]] = IF i = n + 1 THEN Null ELSE w[i + 1]
  <2>1. CASE i < k
    <3>1. i \in 1..n /\ i <= k /\ i # k /\ i # n /\ i # n + 1
      BY <1>1, <2>1
    <3>2. i + 1 \in 1..n /\ i + 1 <= k
      BY <1>1, <2>1
    <3> QED BY <1>2, <1>7, <1>9, <3>1, <3>2
  <2>2. CASE i = k
    BY <1>1, <1>7, <1>9, <2>2
  <2>3. CASE i = k + 1
    BY <1>1, <1>3, <1>7, <1>9, <2>3
  <2>4. CASE i > k + 1
    <3>1. i - 1 \in 1..n /\ i - 1 > k /\ i - 1 + 1 = i
      BY <1>1, <2>4
    <3>2. w[i] = s[i - 1] /\ m.next[s[i - 1]] = IF i - 1 = n THEN Null ELSE s[i]
      BY <1>2, <1>7, <1>9, <3>1
    <3>3. i # n + 1 => i \in 1..n /\ i > k /\ w[i + 1] = s[i]
      <4>1. i # n + 1 => i \in 1..n /\ i > k
        BY <1>1, <2>4
      <4> QED BY <1>7, <4>1
    <3> QED BY <1>1, <3>2, <3>3
  <2> QED BY <2>1, <2>2, <2>3, <2>4
<1>12. ASSUME NEW i \in 1..n + 1
       PROVE  m.prev[w[i]] = IF i = 1 THEN Null ELSE w[i - 1]
  <2>1. CASE i <= k
    <3>1. i \in 1..n /\ i # k + 1
      BY <1>1, <2>1
    <3>2. i # 1 => i - 1 \in 1..n /\ i - 1 <= k
      BY <1>1, <2>1
    <3> QED BY <1>2, <1>7, <1>10, <2>1, <3>1, <3>2
  <2>2. CASE i = k + 1
    BY <1>1, <1>7, <1>10, <2>2
  <2>3. CASE i = k + 2
    <3>1. k + 1 \in 1..n /\ k + 1 > k /\ k # n /\ k + 1 + 1 = i /\ i - 1 = k + 1 /\ i # 1
      BY <1>1, <2>3
    <3> QED BY <1>3, <1>7, <1>10, <3>1
  <2>4. CASE i > k + 2
    <3>1. i - 1 \in 1..n /\ i - 1 > k /\ i - 1 + 1 = i /\ i - 1 # k + 1 /\ i - 1 # 1 /\ i # 1
      BY <1>1, <2>4
    <3>2. i - 2 \in 1..n /\ i - 2 > k /\ i - 2 + 1 = i - 1 /\ i - 1 - 1 = i - 2
      BY <1>1, <2>4
    <3> QED BY <1>2, <1>7, <1>10, <3>1, <3>2
  <2> QED BY <1>1, <2>1, <2>2, <2>3, <2>4
<1>13. n + 1 \in Nat /\ n + 1 # 0
  BY <1>1
<1>14. Linked(m, A \cup {t}, n + 1, w)
  BY <1>6, <1>8, <1>11, <1>12, <1>13 DEF Linked
<1> QED BY <1>5, <1>14 DEF m, w

\* A list that differs only in the pointers of other timers.
LEMMA LinksKept ==
    ASSUME NEW l, NEW A, NEW n, NEW s, Linked(l, A, n, s),
           NEW m, m.head = l.head, m.tail = l.tail,
           \A u \in A : m.next[u] = l.next[u] /\ m.prev[u] = l.prev[u]
    PROVE  Linked(m, A, n, s)
<1>1. \A i \in 1..n : s[i] \in A
  BY DEF Linked, Listing
<1> QED BY <1>1 DEF Linked

\* The first timer of an empty list.
LEMMA FirstLinks ==
    ASSUME NEW l \in Lists, NEW A, NEW n, NEW s, Linked(l, A, n, s), n = 0,
           NEW t \in Timers \ A, l.next[t] = Null, l.prev[t] = Null
    PROVE  /\ [l EXCEPT !.head = t, !.tail = t] \in Lists
           /\ Linked([l EXCEPT !.head = t, !.tail = t], A \cup {t}, 1, With(n, s, 0, t))
<1> DEFINE m == [l EXCEPT !.head = t, !.tail = t]
           w == With(n, s, 0, t)
<1>1. m \in Lists /\ m.head = t /\ m.tail = t /\ m.next = l.next /\ m.prev = l.prev
  BY DEF Lists
<1>2. 0 \in 0..n /\ n + 1 = 1
  OBVIOUS
<1>3. Listing(A \cup {t}, 1, w)
  <2>1. Listing(A \cup {t}, n + 1, w)
    BY <1>2, WithIs DEF Linked
  <2> QED BY <1>2, <2>1
<1>4. w[1] = t
  BY DEF With
<1> HIDE DEF m, w
<1> QED BY <1>1, <1>3, <1>4 DEF Linked, m, w

\* A timer that expires before the head becomes the head.
LEMMA HeadLinks ==
    ASSUME NEW l \in Lists, NEW A, NEW n, NEW s, Linked(l, A, n, s), n > 0,
           NEW t \in Timers \ A, l.prev[t] = Null,
           NEW m, m = [l EXCEPT !.head = t, !.next = [@ EXCEPT ![t] = l.head],
                                !.prev = [@ EXCEPT ![l.head] = t]]
    PROVE  m \in Lists /\ Linked(m, A \cup {t}, n + 1, With(n, s, 0, t))
<1> DEFINE w == With(n, s, 0, t)
<1>1. /\ n \in Nat /\ 0 \in 0..n /\ 1 \in 1..n
      /\ \A i \in 1..n : s[i] # t /\ s[i] \in Timers
      /\ \A i, j \in 1..n : s[i] = s[j] => i = j
  BY DEF Linked, Listing
<1>2. /\ l.head = s[1] /\ l.tail = s[n]
      /\ \A i \in 1..n : l.next[s[i]] = IF i = n THEN Null ELSE s[i + 1]
      /\ \A i \in 1..n : l.prev[s[i]] = IF i = 1 THEN Null ELSE s[i - 1]
  BY <1>1 DEF Linked
<1>3. /\ m \in Lists /\ m.head = t /\ m.tail = s[n]
      /\ m.next = [l.next EXCEPT ![t] = s[1]] /\ m.prev = [l.prev EXCEPT ![s[1]] = t]
  BY <1>1, <1>2 DEF Lists
<1>4. Listing(A \cup {t}, n + 1, w)
  BY <1>1, WithIs DEF Linked
<1>5. w[1] = t /\ \A i \in 1..n : w[i + 1] = s[i]
  <2>1. 1 \in 1..n + 1 /\ \A i \in 1..n : i + 1 \in 1..n + 1 /\ i + 1 # 0 + 1 /\ ~(i + 1 <= 0) /\ i + 1 - 1 = i
    BY <1>1
  <2>2. \A j \in 1..n + 1 : w[j] = IF j <= 0 THEN s[j] ELSE IF j = 0 + 1 THEN t ELSE s[j - 1]
    BY DEF With
  <2> HIDE DEF w
  <2> QED BY <2>1, <2>2
<1>6. /\ m.next[t] = s[1] /\ \A i \in 1..n : m.next[s[i]] = l.next[s[i]]
      /\ m.prev[t] = Null /\ m.prev[s[1]] = t
      /\ \A i \in 1..n : i # 1 => m.prev[s[i]] = l.prev[s[i]]
  BY <1>1, <1>3 DEF Lists
<1> HIDE DEF w
<1>7. ASSUME NEW i \in 1..n + 1
      PROVE  m.next[w[i]] = IF i = n + 1 THEN Null ELSE w[i + 1]
  <2>1. CASE i = 1
    BY <1>1, <1>5, <1>6, <2>1
  <2>2. CASE i > 1
    <3>1. i - 1 \in 1..n /\ i - 1 + 1 = i /\ (i # n + 1 => i \in 1..n)
      BY <1>1, <2>2
    <3> QED BY <1>1, <1>2, <1>5, <1>6, <3>1
  <2> QED BY <2>1, <2>2
<1>8. ASSUME NEW i \in 1..n + 1
      PROVE  m.prev[w[i]] = IF i = 1 THEN Null ELSE w[i - 1]
  <2>1. CASE i = 1
    BY <1>1, <1>5, <1>6, <2>1
  <2>2. CASE i = 2
    <3>1. i - 1 = 1 /\ 1 + 1 = i /\ 1 \in 1..n
      BY <1>1, <2>2
    <3> QED BY <1>5, <1>6, <2>2, <3>1
  <2>3. CASE i > 2
    <3>1. i - 1 \in 1..n /\ i - 1 + 1 = i /\ i - 1 # 1 /\ i - 2 \in 1..n
          /\ i - 2 + 1 = i - 1 /\ i - 1 - 1 = i - 2
      BY <1>1, <2>3
    <3> QED BY <1>2, <1>5, <1>6, <2>3, <3>1
  <2> QED BY <2>1, <2>2, <2>3
<1>9. n + 1 \in Nat /\ n + 1 # 0 /\ w[n + 1] = s[n]
  BY <1>1, <1>5
<1> QED BY <1>3, <1>4, <1>5, <1>7, <1>8, <1>9 DEF Linked, w

\* del_timer() of the only timer.
LEMMA LastUnlinks ==
    ASSUME NEW l \in Lists, NEW A, NEW n, NEW s, Linked(l, A, n, s), n = 1
    PROVE  /\ [l EXCEPT !.head = Null, !.tail = Null] \in Lists
           /\ Linked([l EXCEPT !.head = Null, !.tail = Null], A \ {s[1]}, 0, Without(n, s, 1))
<1>1. Listing(A \ {s[1]}, n - 1, Without(n, s, 1)) /\ 1 \in 1..n /\ n - 1 = 0
  <2>1. 1 \in 1..n
    OBVIOUS
  <2> QED BY <2>1, WithoutIs DEF Linked
<1>2. PICK m : m = [l EXCEPT !.head = Null, !.tail = Null]
  OBVIOUS
<1>3. m \in Lists /\ m.head = Null
  BY <1>2 DEF Lists
<1>4. \A i \in 1..0 : FALSE
  OBVIOUS
<1>5. Linked(m, A \ {s[1]}, 0, Without(n, s, 1))
  BY <1>1, <1>3, <1>4 DEF Linked
<1> QED BY <1>2, <1>3, <1>5

\* del_timer() of the last of several timers.
LEMMA TailUnlinks ==
    ASSUME NEW l \in Lists, NEW A, NEW n, NEW s, Linked(l, A, n, s), n > 1,
           NEW m, m = [l EXCEPT !.tail = l.prev[s[n]],
                                !.next = [@ EXCEPT ![l.prev[s[n]]] = Null]]
    PROVE  m \in Lists /\ Linked(m, A \ {s[n]}, n - 1, Without(n, s, n))
<1> DEFINE w == Without(n, s, n)
<1>1. /\ n \in Nat /\ n \in 1..n /\ n - 1 \in 1..n /\ n # 1
      /\ \A i \in 1..n : s[i] \in Timers
      /\ \A i, j \in 1..n : s[i] = s[j] => i = j
  BY DEF Linked, Listing
<1>2. /\ l.head = s[1] /\ l.tail = s[n]
      /\ \A i \in 1..n : l.next[s[i]] = IF i = n THEN Null ELSE s[i + 1]
      /\ \A i \in 1..n : l.prev[s[i]] = IF i = 1 THEN Null ELSE s[i - 1]
  BY <1>1 DEF Linked
<1>3. /\ m \in Lists /\ m.head = s[1] /\ m.tail = s[n - 1] /\ m.prev = l.prev
      /\ m.next = [l.next EXCEPT ![s[n - 1]] = Null]
  BY <1>1, <1>2 DEF Lists
<1>4. Listing(A \ {s[n]}, n - 1, w)
  BY <1>1, WithoutIs DEF Linked
<1>5. \A i \in 1..n - 1 : w[i] = s[i] /\ i \in 1..n /\ i # n
  BY <1>1 DEF Without
<1>6. m.next[s[n - 1]] = Null /\ \A i \in 1..n - 1 : i # n - 1 => m.next[s[i]] = l.next[s[i]]
  BY <1>1, <1>3, <1>5 DEF Lists
<1> HIDE DEF w
<1>7. ASSUME NEW i \in 1..n - 1
      PROVE  /\ m.next[w[i]] = IF i = n - 1 THEN Null ELSE w[i + 1]
             /\ m.prev[w[i]] = IF i = 1 THEN Null ELSE w[i - 1]
  <2>1. (i # n - 1 => i + 1 \in 1..n - 1) /\ (i # 1 => i - 1 \in 1..n - 1)
    BY <1>1
  <2> QED BY <1>2, <1>3, <1>5, <1>6, <2>1
<1>8. n - 1 \in 1..n - 1 /\ 1 \in 1..n - 1 /\ n - 1 # 0 /\ w[1] = s[1] /\ w[n - 1] = s[n - 1]
  <2>1. n - 1 \in 1..n - 1 /\ 1 \in 1..n - 1 /\ n - 1 # 0
    BY <1>1
  <2> QED BY <1>5, <2>1
<1> QED BY <1>3, <1>4, <1>7, <1>8 DEF Linked, w

\* del_timer() and adjust_timer() of a timer in the middle.
LEMMA MiddleUnlinks ==
    ASSUME NEW l \in Lists, NEW A, NEW n, NEW s, Linked(l, A, n, s),
           NEW k \in 2..n - 1
    PROVE  /\ Unlink(l, s[k]) \in Lists
           /\ Linked(Unlink(l, s[k]), A \ {s[k]}, n - 1, Without(n, s, k))
<1> DEFINE m == Unlink(l, s[k])
           w == Without(n, s, k)
<1>1. /\ n \in Nat /\ k \in 1..n /\ k - 1 \in 1..n /\ k + 1 \in 1..n /\ n > 2
      /\ k # 1 /\ k # n /\ 1 \in 1..n /\ n \in 1..n
      /\ \A i \in 1..n : s[i] \in Timers
      /\ \A i, j \in 1..n : s[i] = s[j] => i = j
  BY DEF Linked, Listing
<1>2. /\ l.head = s[1] /\ l.tail = s[n]
      /\ \A i \in 1..n : l.next[s[i]] = IF i = n THEN Null ELSE s[i + 1]
      /\ \A i \in 1..n : l.prev[s[i]] = IF i = 1 THEN Null ELSE s[i - 1]
  BY <1>1 DEF Linked
<1>3. l.next[s[k]] = s[k + 1] /\ l.prev[s[k]] = s[k - 1]
  BY <1>1, <1>2
<1>4. /\ m \in Lists /\ m.head = s[1] /\ m.tail = s[n]
      /\ m.next = [l.next EXCEPT ![s[k - 1]] = s[k + 1]]
      /\ m.prev = [l.prev EXCEPT ![s[k + 1]] = s[k - 1]]
  BY <1>1, <1>2, <1>3 DEF Lists, Unlink
<1>5. Listing(A \ {s[k]}, n - 1, w)
  BY <1>1, WithoutIs DEF Linked
<1>6. /\ \A i \in 1..k - 1 : w[i] = s[i] /\ i \in 1..n
      /\ \A i \in k..n - 1 : w[i] = s[i + 1] /\ i + 1 \in 1..n
  BY <1>1 DEF Without
<1>7. /\ m.next[s[k - 1]] = s[k + 1] /\ m.prev[s[k + 1]] = s[k - 1]
      /\ \A i \in 1..n : i # k - 1 => m.next[s[i]] = l.next[s[i]]
      /\ \A i \in 1..n : i # k + 1 => m.prev[s[i]] = l.prev[s[i]]
  BY <1>1, <1>4 DEF Lists
<1> HIDE DEF m, w
<1>8. ASSUME NEW i \in 1..n - 1
      PROVE  m.next[w[i]] = IF i = n - 1 THEN Null ELSE w[i + 1]
  <2>1. CASE i < k - 1
    <3>1. i \in 1..k - 1 /\ i + 1 \in 1..k - 1 /\ i # n - 1 /\ i # n /\ i # k - 1
      BY <1>1, <2>1
    <3> QED BY <1>2, <1>6, <1>7, <3>1
  <2>2. CASE i = k - 1
    <3>1. i \in 1..k - 1 /\ i + 1 \in k..n - 1 /\ i + 1 + 1 = k + 1 /\ i # n - 1
      BY <1>1, <2>2
    <3> QED BY <1>6, <1>7, <2>2, <3>1
  <2>3. CASE i >= k
    <3>1. i \in k..n - 1 /\ i + 1 # k - 1 /\ (i # n - 1 => i + 1 \in k..n - 1 /\ i + 1 # n)
          /\ (i = n - 1 => i + 1 = n)
      BY <1>1, <2>3
    <3> QED BY <1>2, <1>6, <1>7, <3>1
  <2> QED BY <1>1, <2>1, <2>2, <2>3
<1>9. ASSUME NEW i \in 1..n - 1
      PROVE  m.prev[w[i]] = IF i = 1 THEN Null ELSE w[i - 1]
  <2>1. CASE i < k
    <3>1. i \in 1..k - 1 /\ (i # 1 => i - 1 \in 1..k - 1) /\ i # k + 1
      BY <1>1, <2>1
    <3> QED BY <1>2, <1>6, <1>7, <3>1
  <2>2. CASE i = k
    <3>1. i \in k..n - 1 /\ i - 1 \in 1..k - 1 /\ i + 1 = k + 1 /\ i # 1 /\ i - 1 = k - 1
      BY <1>1, <2>2
    <3> QED BY <1>6, <1>7, <3>1
  <2>3. CASE i > k
    <3>1. i \in k..n - 1 /\ i - 1 \in k..n - 1 /\ i + 1 # k + 1 /\ i # 1 /\ i + 1 # 1
          /\ i + 1 - 1 = i /\ i - 1 + 1 = i
      BY <1>1, <2>3
    <3> QED BY <1>2, <1>6, <1>7, <3>1
  <2> QED BY <1>1, <2>1, <2>2, <2>3
<1>10. w[1] = s[1] /\ w[n - 1] = s[n] /\ n - 1 \in Nat /\ n - 1 # 0
  <2>1. 1 \in 1..k - 1 /\ n - 1 \in k..n - 1 /\ n - 1 + 1 = n /\ n - 1 \in Nat /\ n - 1 # 0
    BY <1>1
  <2> QED BY <1>6, <2>1
<1>11. Linked(m, A \ {s[k]}, n - 1, w)
  BY <1>4, <1>5, <1>8, <1>9, <1>10 DEF Linked
<1> QED BY <1>4, <1>11 DEF m, w

\* The first k timers leave: del_timer() and adjust_timer() of the head, and tick().
LEMMA HeadUnlinks ==
    ASSUME NEW l \in Lists, NEW A, NEW n, NEW s, Linked(l, A, n, s),
           NEW k \in 0..n, NEW first, first = IF k = n THEN Null ELSE s[k + 1]
    PROVE  /\ SetHead(l, first) \in Lists
           /\ Linked(SetHead(l, first), A \ {s[i] : i \in 1..k}, n - k, From(n, s, k))
<1> DEFINE m == SetHead(l, first)
           w == From(n, s, k)
<1>1. /\ n \in Nat
      /\ \A i \in 1..n : s[i] \in Timers
      /\ \A i, j \in 1..n : s[i] = s[j] => i = j
  BY DEF Linked, Listing
<1>2. /\ n > 0 => l.tail = s[n]
      /\ \A i \in 1..n : l.next[s[i]] = IF i = n THEN Null ELSE s[i + 1]
      /\ \A i \in 1..n : l.prev[s[i]] = IF i = 1 THEN Null ELSE s[i - 1]
  BY <1>1 DEF Linked
<1>3. /\ k # n => first \in Timers /\ k + 1 \in 1..n
      /\ (first = Null) = (k = n)
  BY <1>1, ListParameters
<1>4. /\ m \in Lists /\ m.head = first /\ m.tail = l.tail /\ m.next = l.next
      /\ m.prev = IF k = n THEN l.prev ELSE [l.prev EXCEPT ![first] = Null]
  BY <1>1, <1>3 DEF Lists, SetHead
<1>5. Listing(A \ {s[i] : i \in 1..k}, n - k, w)
  BY <1>1, FromIs DEF Linked
<1>6. \A i \in 1..n - k : w[i] = s[i + k] /\ i + k \in 1..n
  BY <1>1 DEF From
<1>7. /\ k # n => m.prev[s[k + 1]] = Null
      /\ \A i \in 1..n : i # k + 1 => m.prev[s[i]] = l.prev[s[i]]
  BY <1>1, <1>3, <1>4 DEF Lists
<1> HIDE DEF m, w
<1>8. ASSUME NEW i \in 1..n - k
      PROVE  /\ m.next[w[i]] = IF i = n - k THEN Null ELSE w[i + 1]
             /\ m.prev[w[i]] = IF i = 1 THEN Null ELSE w[i - 1]
  <2>1. /\ i + k = n <=> i = n - k
        /\ i # n - k => i + 1 \in 1..n - k /\ i + 1 + k = i + k + 1
        /\ i # 1 => i - 1 \in 1..n - k /\ i - 1 + k = i + k - 1 /\ i + k # 1 /\ i + k # k + 1
        /\ i = 1 => i + k = k + 1 /\ k # n
    BY <1>1
  <2> QED BY <1>2, <1>4, <1>6, <1>7, <2>1
<1>9. /\ n - k = 0 <=> k = n
      /\ k # n => 1 \in 1..n - k /\ 1 + k = k + 1 /\ n - k \in 1..n - k /\ n - k + k = n /\ n > 0
  BY <1>1
<1>10. /\ m.head = IF n - k = 0 THEN Null ELSE w[1]
       /\ n - k > 0 => m.tail = w[n - k]
  BY <1>1, <1>2, <1>4, <1>6, <1>9
<1>11. Linked(m, A \ {s[i] : i \in 1..k}, n - k, w)
  BY <1>5, <1>8, <1>10 DEF Linked
<1> QED BY <1>4, <1>11 DEF m, w

-----------------------------------------------------------------------------
(* The order of the timers. *)

Times == [Timers -> Int]

Sorted(n, s, exp) == \A i, j \in 1..n : i <= j => exp[s[i]] <= exp[s[j]]

\* In order but for s[k], which may be too late for its place.
SortedBut(n, s, k, exp) ==
    /\ \A i, j \in 1..n : i <= j /\ i # k /\ j # k => exp[s[i]] <= exp[s[j]]
    /\ \A i \in 1..n : i <= k => exp[s[i]] <= exp[s[k]]

LEMMA WithSorted ==
    ASSUME NEW A, NEW n, NEW s, Listing(A, n, s), NEW exp \in Times, Sorted(n, s, exp),
           NEW k \in 0..n, NEW t \in Timers,
           \A i \in 1..n : i <= k => exp[s[i]] <= exp[t],
           \A i \in 1..n : i > k => exp[t] <= exp[s[i]]
    PROVE  Sorted(n + 1, With(n, s, k, t), exp)
<1> DEFINE w == With(n, s, k, t)
<1>1. n \in Nat /\ \A i \in 1..n : s[i] \in Timers /\ exp[s[i]] \in Int
  BY DEF Listing, Times
<1>2. exp[t] \in Int
  BY DEF Times
<1>3. ASSUME NEW i \in 1..n + 1
      PROVE  \/ i \in 1..n /\ i <= k /\ w[i] = s[i]
             \/ i = k + 1 /\ w[i] = t
             \/ i - 1 \in 1..n /\ i > k + 1 /\ w[i] = s[i - 1]
  BY <1>1 DEF With
<1>4. \A i, j \in 1..n : i <= j => exp[s[i]] <= exp[s[j]]
  BY DEF Sorted
<1> HIDE DEF w
<1>5. ASSUME NEW i \in 1..n + 1, NEW j \in 1..n + 1, i <= j
      PROVE  exp[w[i]] <= exp[w[j]]
  <2>1. \/ i \in 1..n /\ i <= k /\ w[i] = s[i]
        \/ i = k + 1 /\ w[i] = t
        \/ i - 1 \in 1..n /\ i > k + 1 /\ w[i] = s[i - 1]
    BY <1>3
  <2>2. \/ j \in 1..n /\ j <= k /\ w[j] = s[j]
        \/ j = k + 1 /\ w[j] = t
        \/ j - 1 \in 1..n /\ j > k + 1 /\ w[j] = s[j - 1]
    BY <1>3
  <2>3. CASE i \in 1..n /\ i <= k /\ w[i] = s[i]
    <3>1. CASE j \in 1..n /\ w[j] = s[j]
      BY <1>4, <1>5, <2>3, <3>1
    <3>2. CASE w[j] = t
      BY <2>3, <3>2
    <3>3. CASE j - 1 \in 1..n /\ j > k + 1 /\ w[j] = s[j - 1]
      <4>1. i <= j - 1
        BY <2>3, <3>3
      <4> QED BY <1>4, <2>3, <3>3, <4>1
    <3> QED BY <2>2, <3>1, <3>2, <3>3
  <2>4. CASE i = k + 1 /\ w[i] = t
    <3>1. CASE j <= k
      BY <1>5, <2>4, <3>1
    <3>2. CASE w[j] = t
      BY <1>2, <2>4, <3>2
    <3>3. CASE j - 1 \in 1..n /\ j > k + 1 /\ w[j] = s[j - 1]
      <4>1. j - 1 > k
        BY <3>3
      <4> QED BY <2>4, <3>3, <4>1
    <3> QED BY <2>2, <3>1, <3>2, <3>3
  <2>5. CASE i - 1 \in 1..n /\ i > k + 1 /\ w[i] = s[i - 1]
    <3>1. j - 1 \in 1..n /\ w[j] = s[j - 1] /\ i - 1 <= j - 1
      BY <1>5, <2>2, <2>5
    <3> QED BY <1>4, <2>5, <3>1
  <2> QED BY <2>1, <2>3, <2>4, <2>5
<1> QED BY <1>5 DEF Sorted, w

LEMMA WithoutSorted ==
    ASSUME NEW A, NEW n, NEW s, Listing(A, n, s), NEW exp, NEW k \in 1..n,
           SortedBut(n, s, k, exp)
    PROVE  Sorted(n - 1, Without(n, s, k), exp)
<1> DEFINE w == Without(n, s, k)
<1>1. n \in Nat
  BY DEF Listing
<1>2. ASSUME NEW i \in 1..n - 1
      PROVE  \/ i \in 1..n /\ i < k /\ w[i] = s[i]
             \/ i + 1 \in 1..n /\ i >= k /\ w[i] = s[i + 1]
  BY <1>1 DEF Without
<1>3. \A i, j \in 1..n : i <= j /\ i # k /\ j # k => exp[s[i]] <= exp[s[j]]
  BY DEF SortedBut
<1> HIDE DEF w
<1>4. ASSUME NEW i \in 1..n - 1, NEW j \in 1..n - 1, i <= j
      PROVE  exp[w[i]] <= exp[w[j]]
  <2>1. \/ i \in 1..n /\ i < k /\ w[i] = s[i]
        \/ i + 1 \in 1..n /\ i >= k /\ w[i] = s[i + 1]
    BY <1>2
  <2>2. \/ j \in 1..n /\ j < k /\ w[j] = s[j]
        \/ j + 1 \in 1..n /\ j >= k /\ w[j] = s[j + 1]
    BY <1>2
  <2>3. CASE i \in 1..n /\ i < k /\ w[i] = s[i]
    <3>1. CASE j \in 1..n /\ j < k /\ w[j] = s[j]
      BY <1>3, <1>4, <2>3, <3>1
    <3>2. CASE j + 1 \in 1..n /\ j >= k /\ w[j] = s[j + 1]
      <4>1. i <= j + 1 /\ i # k /\ j + 1 # k
        BY <1>4, <2>3, <3>2
      <4> QED BY <1>3, <2>3, <3>2, <4>1
    <3> QED BY <2>2, <3>1, <3>2
  <2>4. CASE i + 1 \in 1..n /\ i >= k /\ w[i] = s[i + 1]
    <3>1. j + 1 \in 1..n /\ w[j] = s[j + 1] /\ i + 1 <= j + 1 /\ i + 1 # k /\ j + 1 # k
      BY <1>4, <2>2, <2>4
    <3> QED BY <1>3, <2>4, <3>1
  <2> QED BY <2>1, <2>3, <2>4
<1> QED BY <1>4 DEF Sorted, w

LEMMA FromSorted ==
    ASSUME NEW A, NEW n, NEW s, Listing(A, n, s), NEW exp, Sorted(n, s, exp), NEW k \in 0..n
    PROVE  Sorted(n - k, From(n, s, k), exp)
<1>1. n \in Nat
  BY DEF Listing
<1>2. \A i \in 1..n - k : From(n, s, k)[i] = s[i + k] /\ i + k \in 1..n
  BY <1>1 DEF From
<1>3. \A i, j \in 1..n - k : i <= j => i + k <= j + k
  BY <1>1
<1> QED BY <1>2, <1>3 DEF Sorted

LEMMA SortedIsSortedBut ==
    ASSUME NEW n, NEW s, NEW exp, NEW k \in 1..n, Sorted(n, s, exp)
    PROVE  SortedBut(n, s, k, exp)
  BY DEF Sorted, SortedBut

\* A timer that is given more time may be too late for its place; no other one is.
LEMMA RaisedIsSortedBut ==
    ASSUME NEW A, NEW n, NEW s, Listing(A, n, s), NEW exp \in Times, Sorted(n, s, exp),
           NEW k \in 1..n, NEW v \in Int, exp[s[k]] <= v
    PROVE  SortedBut(n, s, k, [exp EXCEPT ![s[k]] = v])
<1> DEFINE e == [exp EXCEPT ![s[k]] = v]
<1>1. /\ n \in Nat /\ \A i \in 1..n : s[i] \in Timers /\ exp[s[i]] \in Int
      /\ \A i, j \in 1..n : s[i] = s[j] => i = j
  BY DEF Listing, Times
<1>2. e[s[k]] = v /\ \A i \in 1..n : i # k => e[s[i]] = exp[s[i]]
  BY <1>1 DEF Times
<1>3. \A i, j \in 1..n : i <= j => exp[s[i]] <= exp[s[j]]
  BY DEF Sorted
<1> HIDE DEF e
<1>4. ASSUME NEW i \in 1..n, i <= k PROVE e[s[i]] <= e[s[k]]
  BY <1>1, <1>2, <1>3, <1>4
<1> QED BY <1>2, <1>3, <1>4 DEF SortedBut, e

LEMMA StillSorted ==
    ASSUME NEW A, NEW n, NEW s, Listing(A, n, s), NEW exp \in Times, NEW k \in 1..n,
           SortedBut(n, s, k, exp), k = n \/ exp[s[k]] < exp[s[k + 1]]
    PROVE  Sorted(n, s, exp)
<1>1. n \in Nat /\ \A i \in 1..n : s[i] \in Timers /\ exp[s[i]] \in Int
  BY DEF Listing, Times
<1>2. ASSUME NEW i \in 1..n, NEW j \in 1..n, i <= j
      PROVE  exp[s[i]] <= exp[s[j]]
  <2>1. CASE i # k /\ j # k
    BY <1>2, <2>1 DEF SortedBut
  <2>2. CASE j = k
    BY <1>2, <2>2 DEF SortedBut
  <2>3. CASE i = k /\ j # k
    <3>1. k + 1 \in 1..n /\ k + 1 <= j /\ k + 1 # k /\ k # n
      BY <1>1, <1>2, <2>3
    <3>2. exp[s[k + 1]] <= exp[s[j]]
      BY <2>3, <3>1 DEF SortedBut
    <3> QED BY <1>1, <2>3, <3>1, <3>2
  <2> QED BY <2>1, <2>2, <2>3
<1> QED BY <1>2 DEF Sorted

-----------------------------------------------------------------------------
(* The operations of the list keep it linked, and keep it in order. *)

\* The loop of add_timer() from s[f] on.
LEMMA PlaceIs ==
    ASSUME NEW l \in Lists, NEW A, NEW n, NEW s, Linked(l, A, n, s),
           NEW t, NEW exp, NEW f \in 1..n
    PROVE  \E k \in f..n : /\ Place(l, t, s[f], exp) = s[k]
                           /\ k # n => exp[t] < exp[s[k + 1]]
                           /\ \A i \in f..k - 1 : ~ (exp[t] < exp[s[i + 1]])
<1> DEFINE Stop == Stays(l, t, exp)
<1>1. /\ n \in Nat /\ \A i \in f..n : i \in 1..n /\ s[i] \in Timers
      /\ \A i \in f..n : i # n => s[i + 1] \in Timers /\ s[i + 1] # Null
  BY ListParameters DEF Linked, Listing
<1>2. \A i \in f..n : l.next[s[i]] = IF i = n THEN Null ELSE s[i + 1]
  BY <1>1 DEF Linked
<1>3. \A i \in f..n : s[i] \in Stop <=> (i = n \/ exp[t] < exp[s[i + 1]])
  BY <1>1, <1>2 DEF Stays
<1>4. PICK g : Loops(g, Timers, l.next, Stop) /\ Place(l, t, s[f], exp) = g[s[f]]
  BY PlaceLoops
<1> HIDE DEF Stop
<1>5. PICK k \in f..n : EndsAt(g, Stop, f, k, s)
  <2>1. Follows(Timers, l.next, Stop, f, n, s)
    BY <1>1, <1>2, <1>3 DEF Follows
  <2> QED BY <1>1, <1>4, <2>1, LoopAlong
<1>6. \A i \in f..k - 1 : i \in f..n
  BY <1>1
<1> QED BY <1>3, <1>4, <1>5, <1>6 DEF EndsAt

LEMMA InsertHolds ==
    ASSUME NEW l \in Lists, NEW A, NEW n, NEW s, Linked(l, A, n, s),
           NEW t \in Timers \ A, NEW exp \in Times, NEW f \in 1..n, exp[s[f]] <= exp[t]
    PROVE  /\ Insert(l, t, s[f], exp) \in Lists
           /\ \E n2, s2 : /\ Linked(Insert(l, t, s[f], exp), A \cup {t}, n2, s2)
                          /\ Sorted(n, s, exp) => Sorted(n2, s2, exp)
<1>1. PICK k \in f..n : /\ Place(l, t, s[f], exp) = s[k]
                        /\ k # n => exp[t] < exp[s[k + 1]]
                        /\ \A i \in f..k - 1 : ~ (exp[t] < exp[s[i + 1]])
  BY PlaceIs
<1>2. /\ n \in Nat /\ k \in 1..n /\ k \in 0..n /\ Listing(A, n, s)
      /\ \A i \in 1..n : s[i] \in Timers /\ exp[s[i]] \in Int
      /\ t \in Timers /\ exp[t] \in Int
  BY DEF Linked, Listing, Times
<1>3. /\ Insert(l, t, s[f], exp) \in Lists
      /\ Linked(Insert(l, t, s[f], exp), A \cup {t}, n + 1, With(n, s, k, t))
  BY <1>1, <1>2, LinkAfterLinks DEF Insert
<1>4. ASSUME Sorted(n, s, exp)
      PROVE  Sorted(n + 1, With(n, s, k, t), exp)
  <2>1. \A i, j \in 1..n : i <= j => exp[s[i]] <= exp[s[j]]
    BY <1>4 DEF Sorted
  <2>2. ASSUME NEW i \in 1..n, i <= k PROVE exp[s[i]] <= exp[t]
    <3>1. CASE i <= f
      BY <1>2, <2>1, <3>1
    <3>2. CASE i > f
      <4>1. i - 1 \in f..k - 1 /\ i - 1 + 1 = i
        BY <1>2, <2>2, <3>2
      <4>2. ~ (exp[t] < exp[s[i]])
        BY <1>1, <4>1
      <4> QED BY <1>2, <4>2
    <3> QED BY <3>1, <3>2
  <2>3. ASSUME NEW i \in 1..n, i > k PROVE exp[t] <= exp[s[i]]
    <3>1. k # n /\ k + 1 \in 1..n /\ k + 1 <= i
      BY <1>2, <2>3
    <3>2. exp[t] < exp[s[k + 1]] /\ exp[s[k + 1]] <= exp[s[i]]
      BY <1>1, <2>1, <3>1
    <3> QED BY <1>2, <3>1, <3>2
  <2> QED BY <1>2, <1>4, <2>2, <2>3, WithSorted
<1> QED BY <1>3, <1>4

LEMMA AddedHolds ==
    ASSUME NEW l \in Lists, NEW A, NEW n, NEW s, Linked(l, A, n, s),
           NEW t \in Timers \ A, l.next[t] = Null, l.prev[t] = Null, NEW exp \in Times
    PROVE  /\ Added(l, t, exp) \in Lists
           /\ \E n2, s2 : /\ Linked(Added(l, t, exp), A \cup {t}, n2, s2)
                          /\ Sorted(n, s, exp) => Sorted(n2, s2, exp)
<1>1. /\ n \in Nat /\ Listing(A, n, s) /\ 0 \in 0..n
      /\ \A i \in 1..n : s[i] \in Timers /\ exp[s[i]] \in Int
      /\ t \in Timers /\ exp[t] \in Int
      /\ l.head = IF n = 0 THEN Null ELSE s[1]
  BY DEF Linked, Listing, Times
<1>2. CASE n = 0
  <2>1. Added(l, t, exp) = [l EXCEPT !.head = t, !.tail = t]
    BY <1>1, <1>2 DEF Added
  <2>2. \A i \in 1..n : FALSE
    BY <1>2
  <2>3. Sorted(1, With(n, s, 0, t), exp)
    <3>1. Sorted(n, s, exp) /\ n + 1 = 1
      BY <1>2, <2>2 DEF Sorted
    <3>2. Sorted(n + 1, With(n, s, 0, t), exp)
      BY <1>1, <2>2, <3>1, WithSorted
    <3> QED BY <3>1, <3>2
  <2>4. PICK m : m = [l EXCEPT !.head = t, !.tail = t]
    OBVIOUS
  <2>5. m \in Lists /\ Linked(m, A \cup {t}, 1, With(n, s, 0, t))
    BY <1>2, <2>4, FirstLinks
  <2> QED BY <2>1, <2>3, <2>4, <2>5
<1>3. CASE n > 0 /\ exp[t] < exp[s[1]]
  <2>1. PICK m : m = [l EXCEPT !.head = t, !.next = [@ EXCEPT ![t] = l.head],
                                !.prev = [@ EXCEPT ![l.head] = t]]
    OBVIOUS
  <2>2. l.head = s[1] /\ s[1] # Null /\ 1 \in 1..n
    BY <1>1, <1>3, ListParameters
  <2>3. Added(l, t, exp) = m
    BY <1>3, <2>1, <2>2 DEF Added
  <2>4. m \in Lists /\ Linked(m, A \cup {t}, n + 1, With(n, s, 0, t))
    BY <1>3, <2>1, HeadLinks
  <2>5. ASSUME Sorted(n, s, exp)
        PROVE  Sorted(n + 1, With(n, s, 0, t), exp)
    <3>1. \A i \in 1..n : exp[s[1]] <= exp[s[i]]
      BY <2>2, <2>5 DEF Sorted
    <3>2. \A i \in 1..n : i > 0 => exp[t] <= exp[s[i]]
      BY <1>1, <1>3, <2>2, <3>1
    <3>3. \A i \in 1..n : i <= 0 => exp[s[i]] <= exp[t]
      OBVIOUS
    <3> QED BY <1>1, <2>5, <3>2, <3>3, WithSorted
  <2> QED BY <2>3, <2>4, <2>5
<1>4. CASE n > 0 /\ ~ (exp[t] < exp[s[1]])
  <2>1. l.head = s[1] /\ s[1] # Null /\ 1 \in 1..n /\ exp[s[1]] <= exp[t]
    BY <1>1, <1>4, ListParameters
  <2>2. Added(l, t, exp) = Insert(l, t, s[1], exp)
    BY <1>4, <2>1 DEF Added
  <2> QED BY <2>1, <2>2, InsertHolds
<1> QED BY <1>1, <1>2, <1>3, <1>4

LEMMA AdjustedHolds ==
    ASSUME NEW l \in Lists, NEW A, NEW n, NEW s, Linked(l, A, n, s),
           NEW k \in 1..n, NEW exp \in Times
    PROVE  /\ Adjusted(l, s[k], exp) \in Lists
           /\ \E n2, s2 : /\ Linked(Adjusted(l, s[k], exp), A, n2, s2)
                          /\ SortedBut(n, s, k, exp) => Sorted(n2, s2, exp)
<1>1. /\ n \in Nat /\ Listing(A, n, s) /\ s[k] \in A
      /\ \A i \in 1..n : s[i] \in Timers /\ s[i] # Null /\ exp[s[i]] \in Int
      /\ \A i, j \in 1..n : s[i] = s[j] => i = j
      /\ 1 \in 1..n
  BY ListParameters DEF Linked, Listing, Times
<1>2. /\ l.head = s[1]
      /\ l.next[s[k]] = IF k = n THEN Null ELSE s[k + 1]
      /\ k # n => k + 1 \in 1..n
  BY <1>1 DEF Linked
<1>3. CASE k = n \/ exp[s[k]] < exp[s[k + 1]]
  <2>1. Adjusted(l, s[k], exp) = l
    BY <1>1, <1>2, <1>3 DEF Adjusted
  <2> QED BY <1>1, <1>3, <2>1, StillSorted
<1>4. CASE ~ (k = n \/ exp[s[k]] < exp[s[k + 1]])
  <2> DEFINE w == Without(n, s, k)
  <2>1. /\ k # n /\ k + 1 \in 1..n /\ exp[s[k + 1]] <= exp[s[k]] /\ s[k + 1] # Null
        /\ exp[s[k]] >= exp[s[k + 1]]
        /\ k \in 1..n - 1 /\ w[k] = s[k + 1]
    BY <1>1, <1>2, <1>4 DEF Without
  <2>2. SortedBut(n, s, k, exp) => Sorted(n - 1, w, exp)
    BY <1>1, WithoutSorted
  <2>3. (A \ {s[k]}) \cup {s[k]} = A /\ s[k] \in Timers \ (A \ {s[k]})
    BY <1>1
  <2>4. ASSUME NEW m \in Lists, Linked(m, A \ {s[k]}, n - 1, w),
               Adjusted(l, s[k], exp) = Insert(m, s[k], s[k + 1], exp)
        PROVE  /\ Adjusted(l, s[k], exp) \in Lists
               /\ \E n2, s2 : /\ Linked(Adjusted(l, s[k], exp), A, n2, s2)
                              /\ SortedBut(n, s, k, exp) => Sorted(n2, s2, exp)
    <3> HIDE DEF w
    <3>1. /\ Insert(m, s[k], w[k], exp) \in Lists
          /\ \E n2, s2 : /\ Linked(Insert(m, s[k], w[k], exp), (A \ {s[k]}) \cup {s[k]}, n2, s2)
                         /\ Sorted(n - 1, w, exp) => Sorted(n2, s2, exp)
      BY <2>1, <2>3, <2>4, InsertHolds
    <3> QED BY <2>1, <2>2, <2>3, <2>4, <3>1
  <2>5. CASE k = 1
    <3>1. PICK rest : rest = SetHead(l, s[2])
      OBVIOUS
    <3>2. rest \in Lists /\ Linked(rest, A \ {s[1]}, n - 1, w)
      <4>1. 1 \in 0..n /\ s[2] = (IF 1 = n THEN Null ELSE s[1 + 1])
            /\ {s[i] : i \in 1..1} = {s[1]}
        BY <1>1, <2>1, <2>5
      <4>2. /\ SetHead(l, s[2]) \in Lists
            /\ Linked(SetHead(l, s[2]), A \ {s[i] : i \in 1..1}, n - 1, From(n, s, 1))
        BY <4>1, HeadUnlinks
      <4>3. From(n, s, 1) = w
        <5>1. \A i \in 1..n - 1 : From(n, s, 1)[i] = w[i]
          BY <1>1, <2>5 DEF From, Without
        <5> QED BY <5>1 DEF From, Without
      <4> QED BY <3>1, <4>1, <4>2, <4>3
    <3>3. PICK m : m = [rest EXCEPT !.next = [@ EXCEPT ![s[k]] = Null]]
      OBVIOUS
    <3>4. m \in Lists
      BY <3>2, <3>3 DEF Lists
    <3>5. Linked(m, A \ {s[k]}, n - 1, w)
      <4>1. /\ m.head = rest.head /\ m.tail = rest.tail
            /\ \A u \in A \ {s[k]} : m.next[u] = rest.next[u] /\ m.prev[u] = rest.prev[u]
        <5>1. A \subseteq Timers
          BY DEF Linked, Listing
        <5> QED BY <3>2, <3>3, <5>1 DEF Lists
      <4> HIDE DEF w
      <4> QED BY <2>5, <3>2, <4>1, LinksKept
    <3>6. Adjusted(l, s[k], exp) = Insert(m, s[k], s[k + 1], exp)
      <4>1. l.next[s[k]] = s[2] /\ s[k + 1] = s[2] /\ s[k] = l.head
        BY <1>2, <2>1, <2>5
      <4> QED BY <1>4, <2>1, <3>1, <3>3, <4>1 DEF Adjusted
    <3> QED BY <2>4, <3>4, <3>5, <3>6
  <2>6. CASE k # 1
    <3>1. k \in 2..n - 1
      BY <1>1, <2>1, <2>6
    <3>2. Unlink(l, s[k]) \in Lists /\ Linked(Unlink(l, s[k]), A \ {s[k]}, n - 1, w)
      BY <3>1, MiddleUnlinks
    <3>3. Adjusted(l, s[k], exp) = Insert(Unlink(l, s[k]), s[k], s[k + 1], exp)
      <4>1. l.next[s[k]] = s[k + 1] /\ s[k] # l.head
        BY <1>1, <1>2, <2>1, <2>6
      <4> QED BY <1>4, <2>1, <4>1 DEF Adjusted
    <3> QED BY <2>4, <3>2, <3>3
  <2> QED BY <2>5, <2>6
<1> QED BY <1>3, <1>4

LEMMA DeletedHolds ==
    ASSUME NEW l \in Lists, NEW A, NEW n, NEW s, Linked(l, A, n, s),
           NEW k \in 1..n, NEW exp
    PROVE  /\ Deleted(l, s[k]) \in Lists
           /\ \E n2, s2 : /\ Linked(Deleted(l, s[k]), A \ {s[k]}, n2, s2)
                          /\ Sorted(n, s, exp) => Sorted(n2, s2, exp)
<1>1. /\ n \in Nat /\ Listing(A, n, s) /\ 1 \in 1..n /\ n \in 1..n
      /\ \A i, j \in 1..n : s[i] = s[j] => i = j
  BY DEF Linked, Listing
<1>2. /\ l.head = s[1] /\ l.tail = s[n]
      /\ l.next[s[k]] = IF k = n THEN Null ELSE s[k + 1]
      /\ s[k] = l.head <=> k = 1
      /\ s[k] = l.tail <=> k = n
  BY <1>1 DEF Linked
<1>3. Sorted(n, s, exp) => Sorted(n - 1, Without(n, s, k), exp)
  BY <1>1, SortedIsSortedBut, WithoutSorted
<1>4. CASE k = 1 /\ k = n
  <2>1. Deleted(l, s[k]) = [l EXCEPT !.head = Null, !.tail = Null] /\ n = 1 /\ n - 1 = 0
    BY <1>2, <1>4 DEF Deleted
  <2>2. PICK m : m = [l EXCEPT !.head = Null, !.tail = Null]
    OBVIOUS
  <2>3. m \in Lists /\ Linked(m, A \ {s[1]}, 0, Without(n, s, 1))
    BY <2>1, <2>2, LastUnlinks
  <2> QED BY <1>3, <1>4, <2>1, <2>2, <2>3
<1>5. CASE k = 1 /\ k # n
  <2>1. Deleted(l, s[k]) = SetHead(l, s[2])
    <3>1. l.next[s[k]] = s[2]
      BY <1>2, <1>5
    <3> QED BY <1>2, <1>5, <3>1 DEF Deleted
  <2>2. 1 \in 0..n /\ s[2] = (IF 1 = n THEN Null ELSE s[1 + 1]) /\ {s[i] : i \in 1..1} = {s[k]}
    BY <1>1, <1>5
  <2>3. /\ SetHead(l, s[2]) \in Lists
        /\ Linked(SetHead(l, s[2]), A \ {s[i] : i \in 1..1}, n - 1, From(n, s, 1))
    BY <2>2, HeadUnlinks
  <2>4. Sorted(n, s, exp) => Sorted(n - 1, From(n, s, 1), exp)
    BY <1>1, <2>2, FromSorted
  <2> QED BY <2>1, <2>2, <2>3, <2>4
<1>6. CASE k # 1 /\ k = n
  <2>1. PICK m : m = [l EXCEPT !.tail = l.prev[s[n]],
                                !.next = [@ EXCEPT ![l.prev[s[n]]] = Null]]
    OBVIOUS
  <2>2. Deleted(l, s[k]) = m
    BY <1>2, <1>6, <2>1 DEF Deleted
  <2>3. n > 1
    BY <1>1, <1>6
  <2>4. m \in Lists /\ Linked(m, A \ {s[n]}, n - 1, Without(n, s, n))
    BY <2>1, <2>3, TailUnlinks
  <2> QED BY <1>3, <1>6, <2>2, <2>4
<1>7. CASE k # 1 /\ k # n
  <2>1. k \in 2..n - 1
    BY <1>1, <1>7
  <2>2. Deleted(l, s[k]) = Unlink(l, s[k])
    BY <1>2, <1>7 DEF Deleted
  <2> QED BY <1>3, <2>1, <2>2, MiddleUnlinks
<1> QED BY <1>4, <1>5, <1>6, <1>7

\* tick() takes the timers that have expired from the head on, up to the first that has not.
LEMMA TickIs ==
    ASSUME list \in Lists, NEW n, NEW s, Linked(list, alloc, n, s)
    PROVE  \E k \in 0..n :
               /\ FirstLeft = IF k = n THEN Null ELSE s[k + 1]
               /\ Upto(FirstLeft) = {s[i] : i \in 1..k}
               /\ \A i \in 1..k : ~ (now < expire[s[i]])
               /\ k # n => now < expire[s[k + 1]]
<1> DEFINE S == Timers \cup {Null}
           r == [i \in 1..n + 1 |-> IF i = n + 1 THEN Null ELSE s[i]]
<1>1. /\ n \in Nat /\ \A i \in 1..n : s[i] \in Timers /\ s[i] # Null
      /\ \A i, j \in 1..n : s[i] = s[j] => i = j
  BY ListParameters DEF Linked, Listing
<1>2. /\ list.head = IF n = 0 THEN Null ELSE s[1]
      /\ \A i \in 1..n : list.next[s[i]] = IF i = n THEN Null ELSE s[i + 1]
  BY <1>1 DEF Linked
<1>3. /\ n + 1 \in Nat /\ 1 \in 1..n + 1 /\ r[n + 1] = Null
      /\ \A i \in 1..n : r[i] = s[i] /\ i + 1 \in 1..n + 1
      /\ \A i \in 1..n + 1 : i # n + 1 => i \in 1..n
      /\ \A i \in 1..n : i # n => i + 1 # n + 1
  BY <1>1
<1>4. r[1] = list.head
  BY <1>1, <1>2
<1>5. \A i \in 1..n + 1 : r[i] \in S
  BY <1>1
<1>6. \A i \in 1..n : list.next[r[i]] = r[i + 1]
  <2> TAKE i \in 1..n
  <2>1. CASE i = n
    BY <1>2, <1>3, <2>1
  <2>2. CASE i # n
    <3>1. i + 1 \in 1..n
      BY <1>1, <2>2
    <3> QED BY <1>2, <1>3, <2>2, <3>1
  <2> QED BY <2>1, <2>2
<1>7. \A i, j \in 1..n + 1 : r[i] = r[j] => i = j
  BY <1>1, <1>3
<1> HIDE DEF r
<1>8. PICK g : Loops(g, S, list.next, Leaves) /\ FirstLeft = g[r[1]]
  BY <1>4, FirstLeftLoops
<1>9. PICK k \in 1..n + 1 : EndsAt(g, Leaves, 1, k, r)
  <2>1. Follows(S, list.next, Leaves, 1, n + 1, r)
    <3>1. ASSUME NEW i \in 1..n + 1, r[i] \notin Leaves
          PROVE  i # n + 1 /\ list.next[r[i]] = r[i + 1]
      BY <1>3, <1>6, <3>1 DEF Leaves
    <3> QED BY <1>5, <3>1 DEF Follows
  <2> HIDE DEF S
  <2> QED BY <1>3, <1>8, <2>1, LoopAlong
<1>10. /\ FirstLeft = r[k] /\ r[k] \in Leaves /\ \A i \in 1..k - 1 : r[i] \notin Leaves
  BY <1>8, <1>9 DEF EndsAt
<1>11. /\ k \in Nat /\ 1 \in 1..k /\ k \in 1..n + 1
       /\ \A i \in 1..k - 1 : i \in 1..n /\ i \in 1..n + 1 /\ i # k
       /\ \A i \in 1..k : i \in 1..n + 1
  BY <1>1
<1>12. PICK h, Stop : /\ Collects(h, S, list.next, Stop) /\ Stop = {Null, FirstLeft}
                      /\ Upto(FirstLeft) = h[r[1]]
  BY <1>4, UptoLoops
<1>13. Upto(FirstLeft) = {r[i] : i \in 1..k - 1}
  <2>1. Reaches(S, list.next, Stop, 1, k, r)
    <3>1. \A i \in 1..k - 1 : r[i] \notin Stop /\ list.next[r[i]] = r[i + 1]
      BY <1>1, <1>3, <1>6, <1>7, <1>10, <1>11, <1>12
    <3>2. r[k] \in Stop
      BY <1>10, <1>12
    <3> QED BY <1>5, <1>11, <3>1, <3>2 DEF Reaches
  <2> HIDE DEF S
  <2>2. Collected(h, 1, k, r)
    BY <1>11, <1>12, <2>1, CollectAlong
  <2> QED BY <1>12, <2>2 DEF Collected
<1>14. {r[i] : i \in 1..k - 1} = {s[i] : i \in 1..k - 1}
  BY <1>3, <1>11
<1>15. \A i \in 1..k - 1 : ~ (now < expire[s[i]])
  BY <1>1, <1>3, <1>10, <1>11 DEF Leaves
<1>16. /\ k - 1 \in 0..n /\ (k - 1 = n <=> k = n + 1) /\ k - 1 + 1 = k
       /\ k # n + 1 => k \in 1..n
  BY <1>1
<1>17. r[k] = IF k = n + 1 THEN Null ELSE s[k]
  BY <1>3, <1>16
<1>18. k # n + 1 => now < expire[s[k]]
  BY <1>1, <1>10, <1>16, <1>17 DEF Leaves
<1> QED BY <1>10, <1>13, <1>14, <1>15, <1>16, <1>17, <1>18

-----------------------------------------------------------------------------
(* The invariant: the list is a sequence of the allocated timers, in order   *)
(* unless the clock was set back; then no timer expires later than a new one *)
(* would, which is why adjust_timer() has to look towards the tail only.     *)

ListIInv ==
    /\ ListTypeOK
    /\ \E n, s : /\ Linked(list, alloc, n, s)
                 /\ ~stepped => Sorted(n, s, expire)
    /\ ~stepped => \A t \in alloc : expire[t] <= now + Life

LEMMA ListTypes ==
    ListTypeOK => /\ list \in Lists /\ expire \in Times /\ now \in Nat /\ Life \in Nat \ {0}
                  /\ alloc \subseteq Timers /\ stepped \in BOOLEAN
                  /\ \A t \in Timers : expire[t] \in 0..MaxNow + Life
  BY ListParameters DEF ListTypeOK, Lists, Times

LEMMA ListInitInv == ListInit => ListIInv
<1> SUFFICES ASSUME ListInit PROVE ListIInv
  OBVIOUS
<1>1. ListTypeOK
  <2>1. 0 \in 0..MaxNow /\ 0 \in 0..MaxNow + Life
    BY ListParameters
  <2> QED BY <2>1 DEF ListInit, ListTypeOK
<1> DEFINE s == [i \in 1..0 |-> Null]
<1>2. \A i \in 1..0 : FALSE
  OBVIOUS
<1>3. Linked(list, alloc, 0, s)
  BY <1>2 DEF ListInit, Linked, Listing
<1>4. Sorted(0, s, expire)
  BY <1>2 DEF Sorted
<1> QED BY <1>1, <1>3, <1>4 DEF ListIInv, ListInit

LEMMA AddInv ==
    ASSUME ListIInv, NEW t \in Timers, Add(t)
    PROVE  ListIInv'
<1> USE DEF ListIInv
<1>1. /\ t \notin alloc /\ alloc' = alloc \cup {t} /\ now' = now /\ stepped' = stepped
      /\ expire' = [expire EXCEPT ![t] = now + Life]
  BY DEF Add
<1>2. PICK n, s : Linked(list, alloc, n, s) /\ (~stepped => Sorted(n, s, expire))
  OBVIOUS
<1>3. PICK fresh : fresh = [list EXCEPT !.next = [@ EXCEPT ![t] = Null],
                                        !.prev = [@ EXCEPT ![t] = Null]]
  OBVIOUS
<1>4. list' = Added(fresh, t, expire')
  BY <1>3 DEF Add
<1>5. /\ expire' \in [Timers -> 0..MaxNow + Life] /\ expire' \in Times
      /\ expire'[t] = now + Life
      /\ \A u \in Timers : u # t => expire'[u] = expire[u]
  BY <1>1, ListParameters DEF ListTypeOK, Times
<1>6. /\ fresh \in Lists /\ fresh.next[t] = Null /\ fresh.prev[t] = Null
      /\ Linked(fresh, alloc, n, s)
  <2>1. /\ fresh \in Lists /\ fresh.next[t] = Null /\ fresh.prev[t] = Null
        /\ fresh.head = list.head /\ fresh.tail = list.tail
        /\ \A u \in alloc : fresh.next[u] = list.next[u] /\ fresh.prev[u] = list.prev[u]
    BY <1>1, <1>3 DEF ListTypeOK, Lists
  <2> QED BY <1>2, <2>1, LinksKept
<1>7. ~stepped => Sorted(n, s, expire')
  <2>1. \A i \in 1..n : s[i] \in alloc /\ s[i] \in Timers /\ s[i] # t
    BY <1>1, <1>2, ListingIs DEF Linked
  <2> QED BY <1>2, <1>5, <2>1 DEF Sorted
<1>8. PICK exp : exp = expire'
  OBVIOUS
<1>9. /\ Added(fresh, t, exp) \in Lists
      /\ \E n2, s2 : /\ Linked(Added(fresh, t, exp), alloc \cup {t}, n2, s2)
                     /\ Sorted(n, s, exp) => Sorted(n2, s2, exp)
  <2>1. t \in Timers \ alloc /\ exp \in Times
    BY <1>1, <1>5, <1>8
  <2> QED BY <1>6, <2>1, AddedHolds
<1>10. /\ list' \in Lists
       /\ \E n2, s2 : Linked(list', alloc', n2, s2) /\ (~stepped' => Sorted(n2, s2, expire'))
  BY <1>1, <1>4, <1>7, <1>8, <1>9
<1>11. ListTypeOK'
  BY <1>1, <1>5, <1>10 DEF ListTypeOK, Lists
<1>12. ~stepped' => \A u \in alloc' : expire'[u] <= now' + Life
  BY <1>1, <1>5, ListTypes
<1> QED BY <1>10, <1>11, <1>12

LEMMA AdjustInv ==
    ASSUME ListIInv, NEW t \in Timers, Adjust(t)
    PROVE  ListIInv'
<1> USE DEF ListIInv
<1>1. /\ t \in alloc /\ alloc' = alloc /\ now' = now /\ stepped' = stepped
      /\ expire' = [expire EXCEPT ![t] = now + Life] /\ list' = Adjusted(list, t, expire')
  BY DEF Adjust
<1>2. PICK n, s : Linked(list, alloc, n, s) /\ (~stepped => Sorted(n, s, expire))
  OBVIOUS
<1>3. PICK k \in 1..n : s[k] = t
  BY <1>1, <1>2, ListingIs DEF Linked
<1>4. /\ expire' \in [Timers -> 0..MaxNow + Life] /\ expire' \in Times
      /\ expire'[t] = now + Life /\ now + Life \in Int
      /\ \A u \in Timers : u # t => expire'[u] = expire[u]
      /\ list \in Lists /\ expire \in Times
  BY <1>1, ListParameters, ListTypes DEF ListTypeOK, Times
<1>5. ~stepped => SortedBut(n, s, k, expire')
  BY <1>1, <1>2, <1>3, <1>4, RaisedIsSortedBut DEF Linked
<1>6. PICK exp : exp = expire'
  OBVIOUS
<1>7. /\ Adjusted(list, s[k], exp) \in Lists
      /\ \E n2, s2 : /\ Linked(Adjusted(list, s[k], exp), alloc, n2, s2)
                     /\ SortedBut(n, s, k, exp) => Sorted(n2, s2, exp)
  BY <1>2, <1>4, <1>6, AdjustedHolds
<1>8. /\ list' \in Lists
      /\ \E n2, s2 : Linked(list', alloc', n2, s2) /\ (~stepped' => Sorted(n2, s2, expire'))
  BY <1>1, <1>3, <1>5, <1>6, <1>7
<1>9. ListTypeOK'
  BY <1>1, <1>4, <1>8 DEF ListTypeOK, Lists
<1>10. ~stepped' => \A u \in alloc' : expire'[u] <= now' + Life
  BY <1>1, <1>4, ListTypes
<1> QED BY <1>8, <1>9, <1>10

\* Nothing is out of order in an empty list.
LEMMA EmptySorted ==
    ASSUME NEW n, NEW s, NEW exp, Listing({}, n, s)
    PROVE  n = 0 /\ Sorted(n, s, exp)
<1>1. n \in Nat /\ \A i \in 1..n : FALSE
  BY ListingIs
<1>2. n = 0
  <2>1. n # 0 => 1 \in 1..n
    BY <1>1
  <2> QED BY <1>1, <2>1
<1> QED BY <1>1, <1>2 DEF Sorted

LEMMA DelInv ==
    ASSUME ListIInv, NEW t \in Timers, Del(t)
    PROVE  ListIInv'
<1> USE DEF ListIInv
<1>1. /\ t \in alloc /\ alloc' = alloc \ {t} /\ now' = now /\ expire' = expire
      /\ list' = Deleted(list, t) /\ stepped' = (stepped /\ alloc' # {})
  BY DEF Del
<1>2. PICK n, s : Linked(list, alloc, n, s) /\ (~stepped => Sorted(n, s, expire))
  OBVIOUS
<1>3. PICK k \in 1..n : s[k] = t
  BY <1>1, <1>2, ListingIs DEF Linked
<1>4. PICK n2, s2 : /\ list' \in Lists /\ Linked(list', alloc', n2, s2)
                    /\ Sorted(n, s, expire) => Sorted(n2, s2, expire)
  <2>1. list \in Lists
    BY ListTypes
  <2>2. PICK exp : exp = expire
    OBVIOUS
  <2>3. /\ Deleted(list, s[k]) \in Lists
        /\ \E n2, s2 : /\ Linked(Deleted(list, s[k]), alloc \ {s[k]}, n2, s2)
                       /\ Sorted(n, s, exp) => Sorted(n2, s2, exp)
    BY <1>2, <2>1, DeletedHolds
  <2> QED BY <1>1, <1>3, <2>2, <2>3
<1>5. ~stepped' => Sorted(n2, s2, expire')
  <2>1. CASE alloc' = {}
    BY <1>4, <2>1, EmptySorted DEF Linked
  <2>2. CASE alloc' # {}
    BY <1>1, <1>2, <1>4, <2>2, ListTypes
  <2> QED BY <2>1, <2>2
<1>6. ListTypeOK'
  BY <1>1, <1>4 DEF ListTypeOK, Lists
<1>7. ~stepped' => \A u \in alloc' : expire'[u] <= now' + Life
  BY <1>1, ListTypes
<1> QED BY <1>4, <1>5, <1>6, <1>7

LEMMA TickInv ==
    ASSUME ListIInv, Tick
    PROVE  ListIInv'
<1> USE DEF ListIInv
<1>1. /\ alloc' = alloc \ Upto(FirstLeft) /\ now' = now /\ expire' = expire
      /\ list' = IF Upto(FirstLeft) = {} THEN list ELSE SetHead(list, FirstLeft)
      /\ stepped' = (stepped /\ alloc' # {})
  BY DEF Tick
<1>2. PICK n, s : Linked(list, alloc, n, s) /\ (~stepped => Sorted(n, s, expire))
  OBVIOUS
<1>3. list \in Lists /\ n \in Nat /\ Listing(alloc, n, s)
  BY <1>2, ListTypes DEF Linked, Listing
<1>4. PICK k \in 0..n : /\ FirstLeft = IF k = n THEN Null ELSE s[k + 1]
                        /\ Upto(FirstLeft) = {s[i] : i \in 1..k}
  BY <1>2, <1>3, TickIs
<1>5. PICK n2, s2 : /\ list' \in Lists /\ Linked(list', alloc', n2, s2)
                    /\ Sorted(n, s, expire) => Sorted(n2, s2, expire)
  <2>1. CASE Upto(FirstLeft) = {}
    BY <1>1, <1>2, <1>3, <2>1
  <2>2. CASE Upto(FirstLeft) # {}
    <3>1. PICK first : first = FirstLeft
      OBVIOUS
    <3>2. /\ SetHead(list, first) \in Lists
          /\ Linked(SetHead(list, first), alloc \ {s[i] : i \in 1..k}, n - k, From(n, s, k))
      BY <1>2, <1>3, <1>4, <3>1, HeadUnlinks
    <3>3. Sorted(n, s, expire) => Sorted(n - k, From(n, s, k), expire)
      BY <1>3, FromSorted
    <3> QED BY <1>1, <1>4, <2>2, <3>1, <3>2, <3>3
  <2> QED BY <2>1, <2>2
<1>6. ~stepped' => Sorted(n2, s2, expire')
  <2>1. CASE alloc' = {}
    BY <1>5, <2>1, EmptySorted DEF Linked
  <2>2. CASE alloc' # {}
    BY <1>1, <1>2, <1>5, <2>2, ListTypes
  <2> QED BY <2>1, <2>2
<1>7. ListTypeOK'
  BY <1>1, <1>5 DEF ListTypeOK, Lists
<1>8. ~stepped' => \A u \in alloc' : expire'[u] <= now' + Life
  BY <1>1, ListTypes
<1> QED BY <1>5, <1>6, <1>7, <1>8

LEMMA ClockInv ==
    ASSUME ListIInv, Pass \/ SetBack
    PROVE  ListIInv'
<1> USE DEF ListIInv
<1>1. /\ alloc' = alloc /\ expire' = expire /\ list' = list
      /\ now' \in 0..MaxNow /\ stepped' \in BOOLEAN
      /\ ~stepped' /\ alloc # {} => now' = now + 1 /\ ~stepped
  <2>1. CASE Pass
    BY <2>1, ListParameters DEF Pass, ListTypeOK
  <2>2. CASE SetBack
    <3>1. alloc' = alloc /\ expire' = expire /\ list' = list /\ stepped' = (alloc # {})
      BY <2>2 DEF SetBack
    <3>2. now' \in 0..MaxNow
      BY <2>2, ListParameters DEF SetBack, ListTypeOK
    <3>3. stepped' \in BOOLEAN /\ (alloc # {} => stepped')
      BY <3>1, Zenon
    <3> QED BY <3>1, <3>2, <3>3
  <2> QED BY <2>1, <2>2
<1>2. PICK n, s : Linked(list, alloc, n, s) /\ (~stepped => Sorted(n, s, expire))
  OBVIOUS
<1>3. ListTypeOK'
  BY <1>1 DEF ListTypeOK
<1>4. ~stepped' => Sorted(n, s, expire)
  <2>1. CASE alloc = {}
    BY <1>2, <2>1, EmptySorted DEF Linked
  <2>2. CASE alloc # {}
    BY <1>1, <1>2, <2>2
  <2> QED BY <2>1, <2>2
<1>5. ~stepped' => \A u \in alloc' : expire'[u] <= now' + Life
  <2>1. CASE alloc = {}
    BY <1>1, <2>1
  <2>2. CASE alloc # {}
    <3>1. ASSUME NEW u \in alloc, ~stepped' PROVE expire[u] <= now' + Life
      <4>1. now' = now + 1 /\ expire[u] <= now + Life /\ expire[u] \in Int
        BY <1>1, <2>2, <3>1, ListTypes
      <4> QED BY <4>1, ListTypes
    <3> QED BY <1>1, <3>1
  <2> QED BY <2>1, <2>2
<1> QED BY <1>1, <1>2, <1>3, <1>4, <1>5

LEMMA ListStepInv == ListIInv /\ [ListNext]_listVars => ListIInv'
<1> SUFFICES ASSUME ListIInv, [ListNext]_listVars PROVE ListIInv'
  OBVIOUS
<1>1. CASE UNCHANGED listVars
  BY <1>1 DEF listVars, ListIInv, ListTypeOK
<1>2. CASE ListNext
  BY <1>2, AddInv, AdjustInv, DelInv, TickInv, ClockInv DEF ListNext
<1> QED BY <1>1, <1>2

\* Every set that holds s[1], or s[n], and is closed under the link holds the whole list.
LEMMA ReachIs ==
    ASSUME NEW A, NEW n, NEW s, Linked(list, A, n, s)
    PROVE  Reach(list.head, list.next) = A /\ (n > 0 => Reach(list.tail, list.prev) = A)
<1>1. /\ n \in Nat /\ \A i \in 1..n : s[i] \in A /\ s[i] \in Timers /\ s[i] # Null
      /\ \A a \in A : a \in Timers /\ \E i \in 1..n : s[i] = a
  BY ListingIs, ListParameters DEF Linked
<1>2. /\ list.head = IF n = 0 THEN Null ELSE s[1]
      /\ n > 0 => list.tail = s[n]
      /\ \A i \in 1..n : list.next[s[i]] = IF i = n THEN Null ELSE s[i + 1]
      /\ \A i \in 1..n : list.prev[s[i]] = IF i = 1 THEN Null ELSE s[i - 1]
  BY <1>1 DEF Linked
<1>3. /\ A \in SUBSET Timers
      /\ list.head # Null => list.head \in A
      /\ n > 0 => list.tail \in A
      /\ \A u \in A : list.next[u] # Null => list.next[u] \in A
      /\ \A u \in A : list.prev[u] # Null => list.prev[u] \in A
  <2>1. n > 0 => 1 \in 1..n /\ n \in 1..n
    BY <1>1
  <2>2. \A i \in 1..n : (i # n => i + 1 \in 1..n) /\ (i # 1 => i - 1 \in 1..n)
    BY <1>1
  <2>3. \A i \in 1..n : /\ list.next[s[i]] # Null => list.next[s[i]] \in A
                        /\ list.prev[s[i]] # Null => list.prev[s[i]] \in A
    BY <1>1, <1>2, <2>2
  <2> QED BY <1>1, <1>2, <2>1, <2>3
<1>4. Reach(list.head, list.next) \subseteq A /\ (n > 0 => Reach(list.tail, list.prev) \subseteq A)
  BY <1>3 DEF Reach
<1>5. ASSUME NEW C \in SUBSET Timers, list.head # Null => list.head \in C,
             \A u \in C : list.next[u] # Null => list.next[u] \in C
      PROVE  \A i \in 1..n : s[i] \in C
  <2> DEFINE D == {i \in 1..n : s[i] \notin C}
  <2> SUFFICES ASSUME D # {} PROVE FALSE
    OBVIOUS
  <2>1. PICK m \in D : \A d \in D : m <= d
    <3>1. D \subseteq Nat
      OBVIOUS
    <3> HIDE DEF D
    <3> QED BY <3>1, Least
  <2>2. m \in 1..n /\ s[m] \notin C
    BY <2>1
  <2>3. m # 1
    BY <1>1, <1>2, <1>5, <2>2
  <2>4. m - 1 \in 1..n /\ m - 1 # n /\ m - 1 + 1 = m /\ ~ (m <= m - 1)
    BY <1>1, <2>2, <2>3
  <2>5. s[m - 1] \in C
    BY <2>1, <2>4
  <2>6. list.next[s[m - 1]] = s[m]
    BY <1>2, <2>4
  <2> QED BY <1>1, <1>5, <2>2, <2>5, <2>6
<1>6. ASSUME n > 0, NEW C \in SUBSET Timers, list.tail # Null => list.tail \in C,
             \A u \in C : list.prev[u] # Null => list.prev[u] \in C
      PROVE  \A i \in 1..n : s[i] \in C
  <2> DEFINE D == {i \in 1..n : s[i] \notin C}
  <2> SUFFICES ASSUME D # {} PROVE FALSE
    OBVIOUS
  <2>1. PICK m \in D : \A d \in D : d <= m
    <3>1. D \subseteq 0..n /\ n \in Nat
      BY <1>1
    <3> HIDE DEF D
    <3> QED BY <3>1, Greatest
  <2>2. m \in 1..n /\ s[m] \notin C
    BY <2>1
  <2>3. m # n
    BY <1>1, <1>2, <1>6, <2>2
  <2>4. m + 1 \in 1..n /\ m + 1 # 1 /\ m + 1 - 1 = m /\ ~ (m + 1 <= m)
    BY <1>1, <2>2, <2>3
  <2>5. s[m + 1] \in C
    BY <2>1, <2>4
  <2>6. list.prev[s[m + 1]] = s[m]
    BY <1>2, <2>4
  <2> QED BY <1>1, <1>6, <2>2, <2>5, <2>6
<1>7. A \subseteq Reach(list.head, list.next)
  <2> SUFFICES ASSUME NEW a \in A, NEW C \in SUBSET Timers, list.head # Null => list.head \in C,
                      \A u \in C : list.next[u] # Null => list.next[u] \in C
               PROVE  a \in C
    BY <1>1 DEF Reach
  <2> QED BY <1>1, <1>5
<1>8. n > 0 => A \subseteq Reach(list.tail, list.prev)
  <2> SUFFICES ASSUME n > 0, NEW a \in A, NEW C \in SUBSET Timers,
                      list.tail # Null => list.tail \in C,
                      \A u \in C : list.prev[u] # Null => list.prev[u] \in C
               PROVE  a \in C
    BY <1>1 DEF Reach
  <2> QED BY <1>1, <1>6
<1> QED BY <1>4, <1>7, <1>8

LEMMA ListIInvWellFormed == ListIInv => WellFormed
<1> SUFFICES ASSUME ListIInv PROVE WellFormed
  OBVIOUS
<1>1. PICK n, s : Linked(list, alloc, n, s)
  BY DEF ListIInv
<1>2. /\ n \in Nat /\ \A i \in 1..n : s[i] \in alloc /\ s[i] # Null
      /\ \A a \in alloc : \E i \in 1..n : s[i] = a
      /\ \A i, j \in 1..n : s[i] = s[j] => i = j
  BY <1>1, ListingIs, ListParameters DEF Linked, Listing
<1>3. /\ list.head = IF n = 0 THEN Null ELSE s[1]
      /\ n > 0 => list.tail = s[n]
      /\ \A i \in 1..n : list.next[s[i]] = IF i = n THEN Null ELSE s[i + 1]
      /\ \A i \in 1..n : list.prev[s[i]] = IF i = 1 THEN Null ELSE s[i - 1]
  BY <1>1, <1>2 DEF Linked
<1>4. n > 0 => 1 \in 1..n /\ n \in 1..n
  BY <1>2
<1>5. n = 0 => \A i \in 1..n : FALSE
  BY <1>2
<1>6. list.head = Null <=> alloc = {}
  BY <1>2, <1>3, <1>4, <1>5
<1>7. alloc # {} => n > 0
  BY <1>2, <1>5
<1>8. Reach(list.head, list.next) = alloc /\ (n > 0 => Reach(list.tail, list.prev) = alloc)
  BY <1>1, ReachIs
<1>9. n > 0 => list.prev[list.head] = Null /\ list.next[list.tail] = Null
  BY <1>3, <1>4
<1>10. \A t, u \in alloc : list.next[t] = u <=> list.prev[u] = t
  <2>1. ASSUME NEW i \in 1..n, NEW j \in 1..n
        PROVE  list.next[s[i]] = s[j] <=> list.prev[s[j]] = s[i]
    <3>1. list.next[s[i]] = s[j] <=> i # n /\ j = i + 1
      <4>1. i # n => i + 1 \in 1..n
        BY <1>2
      <4> QED BY <1>2, <1>3, <4>1
    <3>2. list.prev[s[j]] = s[i] <=> j # 1 /\ i = j - 1
      <4>1. j # 1 => j - 1 \in 1..n
        BY <1>2
      <4> QED BY <1>2, <1>3, <4>1
    <3>3. (i # n /\ j = i + 1) <=> (j # 1 /\ i = j - 1)
      BY <1>2
    <3> QED BY <3>1, <3>2, <3>3
  <2> QED BY <1>2, <2>1
<1> QED BY <1>6, <1>7, <1>8, <1>9, <1>10 DEF WellFormed

LEMMA ListIInvAscending == ListIInv => Ascending
<1> SUFFICES ASSUME ListIInv, ~stepped, NEW t \in alloc, list.next[t] # Null
             PROVE  expire[t] <= expire[list.next[t]]
  BY DEF Ascending
<1>1. PICK n, s : Linked(list, alloc, n, s) /\ Sorted(n, s, expire)
  BY DEF ListIInv
<1>2. PICK i \in 1..n : s[i] = t /\ n \in Nat
  BY <1>1, ListingIs DEF Linked
<1>3. i # n /\ list.next[t] = s[i + 1]
  BY <1>1, <1>2 DEF Linked
<1>4. i + 1 \in 1..n /\ i <= i + 1
  BY <1>2, <1>3
<1> QED BY <1>1, <1>2, <1>3, <1>4 DEF Sorted

LEMMA ListIInvHolds == ListSpec => []ListIInv
  BY ListInitInv, ListStepInv, PTL DEF ListSpec

\* The timer list keeps its types; in particular every pointer of a timer is a timer's
\* address or NULL, and no timer expires later than 3*TIMESLOT after the bound on the time.
THEOREM ListTypeCorrect == ListSpec => []ListTypeOK
  BY ListIInvHolds, PTL DEF ListIInv

\* After every sequence of add_timer(), adjust_timer(), del_timer() and tick(), for any
\* number of timers: head by next and tail by prev reach exactly the timers that are
\* allocated, in opposite orders, and the timers are in the order in which they expire
\* unless the wall clock was set back.
THEOREM ListIsWellFormed == ListSpec => []ListInv
<1>1. ListIInv => ListInv
  BY ListIInvWellFormed, ListIInvAscending DEF ListInv, ListIInv
<1> QED BY <1>1, ListIInvHolds, PTL

-----------------------------------------------------------------------------
(* The list implements a set of timers with the time each has left. *)

Left == [t \in Timers |-> IF t \in alloc /\ expire[t] > now THEN expire[t] - now ELSE 0]

\* tick() deletes exactly the timers that have expired, if the list is in order, and also
\* whenever it deletes all of them.
LEMMA TickTakesExpired ==
    ASSUME ListIInv, ~stepped \/ alloc \subseteq Upto(FirstLeft)
    PROVE  /\ alloc \ Upto(FirstLeft) = {t \in alloc : expire[t] > now}
           /\ Upto(FirstLeft) \subseteq alloc
<1>1. PICK n, s : Linked(list, alloc, n, s) /\ (~stepped => Sorted(n, s, expire))
  BY DEF ListIInv
<1>2. /\ n \in Nat /\ \A i \in 1..n : s[i] \in alloc /\ expire[s[i]] \in Int
      /\ \A a \in alloc : \E i \in 1..n : s[i] = a
      /\ \A i, j \in 1..n : s[i] = s[j] => i = j
      /\ now \in Int
  <2>1. ListTypeOK
    BY DEF ListIInv
  <2> QED BY <1>1, <2>1, ListingIs DEF Linked, Listing, ListTypeOK
<1>3. PICK k \in 0..n : /\ Upto(FirstLeft) = {s[i] : i \in 1..k}
                        /\ \A i \in 1..k : ~ (now < expire[s[i]])
                        /\ k # n => now < expire[s[k + 1]]
  <2>1. list \in Lists
    BY ListTypes DEF ListIInv
  <2> QED BY <1>1, <2>1, TickIs
<1>4. \A t : t \in Upto(FirstLeft) <=> \E i \in 1..k : s[i] = t
  BY <1>3
<1>5. \A i \in 1..k : i \in 1..n
  BY <1>2
<1>6. Upto(FirstLeft) \subseteq alloc
  BY <1>2, <1>4, <1>5
<1>7. ASSUME NEW t \in Upto(FirstLeft) PROVE ~ (expire[t] > now)
  BY <1>2, <1>3, <1>4, <1>5
<1>8. ASSUME NEW t \in alloc, t \notin Upto(FirstLeft) PROVE expire[t] > now
  <2>1. PICK i \in 1..n : s[i] = t
    BY <1>2
  <2>2. i > k
    <3>1. i \notin 1..k
      BY <1>4, <1>8, <2>1
    <3> QED BY <1>2, <3>1
  <2>3. k # n /\ k + 1 \in 1..n /\ k + 1 <= i
    BY <1>2, <2>2
  <2>4. Sorted(n, s, expire)
    BY <1>1, <1>8
  <2>5. now < expire[s[k + 1]] /\ expire[s[k + 1]] <= expire[s[i]]
    BY <1>3, <2>3, <2>4 DEF Sorted
  <2> QED BY <1>2, <2>1, <2>3, <2>5
<1> QED BY <1>6, <1>7, <1>8

LEMMA ListInitImplements == ListInit => Set!Init
  BY DEF ListInit, Set!Init

LEMMA ListStepImplements ==
    ASSUME ListIInv, [ListNext]_listVars
    PROVE  [stepped' \/ Set!Next]_<<alloc, expire, now>>
<1>1. /\ now \in Nat /\ Life \in Nat \ {0} /\ Null \notin Timers /\ alloc \subseteq Timers
      /\ \A t \in Timers : expire[t] \in Nat
      /\ expire = [t \in Timers |-> expire[t]]
  BY ListParameters DEF ListIInv, ListTypeOK
<1>2. ASSUME NEW t \in Timers, Add(t) PROVE Set!Add(t)
  <2>1. /\ t \notin alloc /\ alloc' = alloc \cup {t} /\ now' = now
        /\ expire' = [expire EXCEPT ![t] = now + Life]
    BY <1>2 DEF Add
  <2>2. Left' = [Left EXCEPT ![t] = Life]
    <3>1. /\ expire'[t] = now + Life /\ now + Life > now /\ now + Life - now = Life
          /\ \A u \in Timers : u # t => expire'[u] = expire[u]
      BY <1>1, <2>1
    <3>2. ASSUME NEW u \in Timers
          PROVE  Left'[u] = IF u = t THEN Life ELSE Left[u]
      <4>1. CASE u = t
        BY <1>1, <2>1, <3>1, <4>1 DEF Left
      <4>2. CASE u # t
        BY <2>1, <3>1, <4>2 DEF Left
      <4> QED BY <4>1, <4>2
    <3>3. Left' = [u \in Timers |-> Left'[u]] /\ Left = [u \in Timers |-> Left[u]]
      BY DEF Left
    <3> HIDE DEF Left
    <3> QED BY <3>2, <3>3
  <2> QED BY <2>1, <2>2 DEF Set!Add, Left
<1>3. ASSUME NEW t \in Timers, Adjust(t) PROVE Set!Adjust(t)
  <2>1. /\ t \in alloc /\ alloc' = alloc /\ now' = now
        /\ expire' = [expire EXCEPT ![t] = now + Life]
    BY <1>3 DEF Adjust
  <2>2. Left' = [Left EXCEPT ![t] = Life]
    <3>1. /\ expire'[t] = now + Life /\ now + Life > now /\ now + Life - now = Life
          /\ \A u \in Timers : u # t => expire'[u] = expire[u]
      BY <1>1, <2>1
    <3>2. ASSUME NEW u \in Timers
          PROVE  Left'[u] = IF u = t THEN Life ELSE Left[u]
      <4>1. CASE u = t
        BY <1>1, <2>1, <3>1, <4>1 DEF Left
      <4>2. CASE u # t
        BY <2>1, <3>1, <4>2 DEF Left
      <4> QED BY <4>1, <4>2
    <3>3. Left' = [u \in Timers |-> Left'[u]] /\ Left = [u \in Timers |-> Left[u]]
      BY DEF Left
    <3> HIDE DEF Left
    <3> QED BY <3>2, <3>3
  <2> QED BY <2>1, <2>2 DEF Set!Adjust, Left
<1>4. ASSUME NEW t \in Timers, Del(t) PROVE Set!Del(t)
  <2>1. t \in alloc /\ alloc' = alloc \ {t} /\ now' = now /\ expire' = expire
    BY <1>4 DEF Del
  <2>2. Left' = [Left EXCEPT ![t] = 0]
    BY <2>1 DEF Left
  <2> QED BY <2>1, <2>2 DEF Set!Del, Left
<1>5. ASSUME Tick, ~stepped' PROVE Set!Tick
  <2>1. /\ alloc' = alloc \ Upto(FirstLeft) /\ now' = now /\ expire' = expire
        /\ stepped' = (stepped /\ alloc' # {})
    BY <1>5 DEF Tick
  <2>2. ~stepped \/ alloc \subseteq Upto(FirstLeft)
    BY <1>5, <2>1
  <2>3. alloc' = {t \in alloc : expire[t] > now}
    BY <2>1, <2>2, TickTakesExpired
  <2>4. Set!Expired = {t \in alloc : ~ (expire[t] > now)}
    <3>1. \A t \in alloc : Left[t] = 0 <=> ~ (expire[t] > now)
      BY <1>1 DEF Left
    <3> QED BY <3>1 DEF Set!Expired, Left
  <2>5. Left' = Left
    <3>1. \A t \in Timers : (t \in alloc' /\ expire[t] > now) <=> (t \in alloc /\ expire[t] > now)
      BY <2>3
    <3> QED BY <2>1, <3>1 DEF Left
  <2>6. alloc' = alloc \ Set!Expired
    BY <2>3, <2>4
  <2> QED BY <2>5, <2>6 DEF Set!Tick, Left
<1>6. ASSUME Pass PROVE Set!Pass
  <2>1. alloc' = alloc /\ now' = now + 1 /\ expire' = expire
    BY <1>6 DEF Pass
  <2>2. Left' = [t \in Timers |-> IF Left[t] > 0 THEN Left[t] - 1 ELSE 0]
    <3>1. ASSUME NEW t \in Timers
          PROVE  Left'[t] = IF Left[t] > 0 THEN Left[t] - 1 ELSE 0
      BY <1>1, <2>1 DEF Left
    <3> QED BY <3>1 DEF Left
  <2> QED BY <2>1, <2>2 DEF Set!Pass, Left
<1>7. ASSUME SetBack, ~stepped' PROVE Set!Pass
  <2>1. alloc' = alloc /\ alloc = {} /\ expire' = expire
    BY <1>7 DEF SetBack
  <2>2. Left = [t \in Timers |-> 0] /\ Left' = [t \in Timers |-> 0]
    BY <2>1 DEF Left
  <2>3. Left' = [t \in Timers |-> IF Left[t] > 0 THEN Left[t] - 1 ELSE 0]
    BY <2>2
  <2> QED BY <2>1, <2>3 DEF Set!Pass, Left
<1>8. CASE UNCHANGED listVars
  BY <1>8 DEF listVars
<1> QED BY <1>2, <1>3, <1>4, <1>5, <1>6, <1>7, <1>8 DEF ListNext, Set!Next

\* The doubly linked list implements TimerSet, for any number of timers: every operation
\* does to the allocated timers and the time they have left what it does to that set, and
\* tick() removes exactly the expired ones, as long as the wall clock was not set back
\* while the list had timers.
THEOREM ListIsSet == ListSpec => ImplementsSet
<1>1. ListIInv /\ [ListNext]_listVars => [stepped' \/ Set!Next]_<<alloc, expire, now>>
  BY ListStepImplements
<1> QED BY <1>1, ListInitImplements, ListIInvHolds, PTL DEF ListSpec, ImplementsSet

-----------------------------------------------------------------------------
(***************************************************************************)
(* The parser.  Stream is described cell by cell (StreamIs), and what      *)
(* parse_line() finds in it once for each state of the parse; after that a *)
(* step is linear arithmetic over the indices.                             *)
(***************************************************************************)

\* The inductive invariant.

Crlf == request.eol = <<CR, LF>>
Length == Len(Stream(request))
BodyAt == 3 * Len(request.headers) + 5     \* where the body begins in the buffer
BodyLength == Len(request.body)

\* Nothing is asked and nothing is left of what was.
Idle ==
    /\ pc = "armed" /\ m_check_state = "REQUESTLINE" /\ inbox = <<>> /\ unsent = <<>>
    /\ m_read_idx = 0 /\ m_checked_idx = 0 /\ m_start_line = 0
    /\ m_method = "GET" /\ m_linger = FALSE /\ m_content_length = 0 /\ m_string = <<>>

\* What is not read yet is in the inbox and with the client, in its order.
Flowing ==
    /\ m_read_idx + Len(inbox) + Len(unsent) = Length
    /\ \A i \in 1..Len(inbox) : inbox[i] = Stream(request)[m_read_idx + i]
    /\ \A i \in 1..Len(unsent) : unsent[i] = Stream(request)[m_read_idx + Len(inbox) + i]

\* The body is partly read only when it was cut, or the buffer ended in it.
Cutting ==
    /\ Len(unsent) \in 1..BodyLength - 1 => bodyCut
    /\ Crlf /\ m_read_idx \in BodyAt + 1..Length - 1 => bodyCut \/ m_read_idx = BufSize

\* From the line that is parsed on, the buffer is as the client wrote it.
Buffered == \A i \in m_start_line..m_read_idx - 1 : m_read_buf[i] = Stream(request)[i + 1]

Keeps(h, k) == \E j \in 1..k : h[j] = "keep"

InRequestLine ==
    /\ m_start_line = 0 /\ m_checked_idx \in 0..1
    /\ m_method = "GET" /\ m_linger = FALSE /\ m_content_length = 0

Accepted ==
    /\ Crlf /\ request.line # "put"
    /\ m_method = IF request.line = "post" THEN "POST" ELSE "GET"

\* k headers are parsed.
Headers(k) ==
    /\ m_start_line = 3 * k + 3
    /\ m_checked_idx \in m_start_line..IF k < Len(request.headers) THEN m_start_line + 1
                                       ELSE m_start_line
    /\ m_linger = Keeps(request.headers, k)
    /\ m_content_length = Declared(request.headers, k)

\* parse_line() went into the body only when some of it was missing.
InBody ==
    /\ m_start_line >= BodyAt
    /\ m_linger = Keeps(request.headers, Len(request.headers))
    /\ m_content_length = BodyLength /\ BodyLength > 0
    /\ m_checked_idx > BodyAt => bodyCut \/ (m_read_idx = BufSize /\ m_read_idx < Length)
    /\ pc = "loop" /\ line_status # "LINE_OK" => m_read_idx < BodyLength + m_checked_idx

Parsing ==
    /\ Buffered /\ m_string = <<>>
    /\ CASE m_check_state = "REQUESTLINE" -> InRequestLine
         [] m_check_state = "HEADER" -> Accepted /\ \E k \in 0..Len(request.headers) : Headers(k)
         [] m_check_state = "CONTENT" -> Accepted /\ InBody

\* The next request of the connection begins where this one ends.
Told == Outcome = Meaning(request) /\ (m_linger => m_read_idx = Length)

Held ==
    /\ Flowing /\ Cutting
    /\ pc = "done" => Told
    /\ pc \in {"armed", "loop"} => Parsing
    /\ WaitsForMoreOnly

ParseIInv == ParseTypeOK /\ (pc # "closed" => IF request = NoRequest THEN Idle ELSE Held)

-----------------------------------------------------------------------------
(* The cells of a request. *)

LEMMA Joined ==
    ASSUME NEW T, NEW s \in Seq(T), NEW t \in Seq(T)
    PROVE  /\ s \o t \in Seq(T) /\ Len(s \o t) = Len(s) + Len(t)
           /\ \A i \in 1..Len(s) : (s \o t)[i] = s[i]
           /\ \A i \in 1..Len(t) : (s \o t)[Len(s) + i] = t[i]
  BY SMT

\* Where the three cells of header j are.
LEMMA HeaderCells ==
    ASSUME NEW h \in Seq(Cells)
    PROVE  /\ HeaderLines(h) \in Seq(Cells) /\ Len(HeaderLines(h)) = 3 * Len(h)
           /\ \A j \in 1..Len(h) : /\ HeaderLines(h)[3 * j - 2] = h[j]
                                   /\ HeaderLines(h)[3 * j - 1] = CR
                                   /\ HeaderLines(h)[3 * j] = LF
<1>1. PICK n : n = Len(h)
  OBVIOUS
<1>2. n \in Nat /\ \A j \in 1..n : h[j] \in Cells
  BY <1>1
<1>3. \A k \in 1..3 * n : k % 3 = 1 => (k - 1) \div 3 + 1 \in 1..n
  BY <1>2
<1>4. CR \in Cells /\ LF \in Cells
  BY DEF Cells
<1>5. \A k \in 1..3 * n : (IF k % 3 = 1 THEN h[(k - 1) \div 3 + 1]
                           ELSE IF k % 3 = 2 THEN CR ELSE LF) \in Cells
  BY <1>2, <1>3, <1>4
<1>6. HeaderLines(h) \in [1..3 * n -> Cells] /\ 3 * n \in Nat
  BY <1>1, <1>2, <1>5 DEF HeaderLines
<1>7. HeaderLines(h) \in Seq(Cells) /\ Len(HeaderLines(h)) = 3 * n
  BY <1>6
<1>8. ASSUME NEW j \in 1..n
      PROVE  /\ HeaderLines(h)[3 * j - 2] = h[j]
             /\ HeaderLines(h)[3 * j - 1] = CR
             /\ HeaderLines(h)[3 * j] = LF
  <2>1. /\ 3 * j - 2 \in 1..3 * n /\ 3 * j - 1 \in 1..3 * n /\ 3 * j \in 1..3 * n
        /\ (3 * j - 2) % 3 = 1 /\ (3 * j - 1) % 3 = 2 /\ (3 * j) % 3 = 0
        /\ (3 * j - 2 - 1) \div 3 + 1 = j
    BY <1>2
  <2> QED BY <1>1, <2>1 DEF HeaderLines
<1> QED BY <1>1, <1>7, <1>8

LEMMA Within ==
    ASSUME NEW T, NEW U, NEW s \in Seq(T), \A c \in T : c \in U
    PROVE  s \in Seq(U) /\ \A j \in 1..Len(s) : s[j] \in T
  BY SMT

\* r is well formed as ParseParameters says.
LEMMA RequestIs ==
    ASSUME NEW r \in Requests
    PROVE  /\ r.line \in {"get", "post", "put"} /\ r.line \in Cells
           /\ r.eol \in {<<CR, LF>>, <<LF>>, <<CR, "x">>}
           /\ r.headers \in Seq(Cells) /\ r.body \in Seq(Cells)
           /\ \A j \in 1..Len(r.headers) : r.headers[j] \notin {CR, LF, NUL}
           /\ Len(r.body) = Declared(r.headers, Len(r.headers))
<1>1. /\ r.line \in {"get", "post", "put"} /\ r.eol \in {<<CR, LF>>, <<LF>>, <<CR, "x">>}
      /\ r.headers \in Seq({"keep", "other"} \cup DOMAIN LengthHeaders)
      /\ r.body \in Seq({"x", "y", CR, LF})
      /\ Len(r.body) = Declared(r.headers, Len(r.headers))
  BY ParseParameters
<1>2. PICK T : T = {"keep", "other"} \cup DOMAIN LengthHeaders
  OBVIOUS
<1>10. (\A c \in T : c \in Cells) /\ (\A c \in T : c \notin {CR, LF, NUL})
  BY <1>2, ParseParameters DEF Cells, CR, LF, NUL
<1>3. \A c \in {"x", "y", CR, LF} : c \in Cells
  BY DEF Cells
<1>4. /\ r.headers \in Seq(Cells)
      /\ \A j \in 1..Len(r.headers) : r.headers[j] \notin {CR, LF, NUL}
  <2>1. r.headers \in Seq(T)
    BY <1>1, <1>2
  <2> QED BY <1>10, <2>1, Within
<1>5. r.body \in Seq(Cells)
  BY <1>1, <1>3, Within
<1>6. r.line \in Cells
  BY <1>1 DEF Cells
<1> QED BY <1>1, <1>4, <1>5, <1>6

\* s is made of line, eol, h and body; where the first line ends in CR LF, cell by cell.
Shape(s, r) ==
    /\ s \in Seq(Cells) /\ Len(s) >= Len(r.eol) + Len(r.body) + 3
    /\ s[1] = r.line /\ s[2] = r.eol[1] /\ (Len(r.eol) = 2 => s[3] = r.eol[2])
    /\ Len(r.eol) = 2 =>
        /\ Len(s) = 3 * Len(r.headers) + 5 + Len(r.body)
        /\ \A j \in 1..Len(r.headers) :
            s[3 * j + 1] = r.headers[j] /\ s[3 * j + 2] = CR /\ s[3 * j + 3] = LF
        /\ s[3 * Len(r.headers) + 4] = CR /\ s[3 * Len(r.headers) + 5] = LF
        /\ \A i \in 1..Len(r.body) : s[3 * Len(r.headers) + 5 + i] = r.body[i]

LEMMA StreamIs ==
    ASSUME NEW r \in Requests
    PROVE  Shape(Stream(r), r)
<1>1. PICK e, h, body, p : e = r.eol /\ h = r.headers /\ body = r.body /\ p = <<r.line>>
  OBVIOUS
<1>2. PICK c : c = <<CR, LF>>
  OBVIOUS
<1>3. PICK g : g = HeaderLines(h)
  OBVIOUS
<1>4. PICK a1 : a1 = p \o e
  OBVIOUS
<1>5. PICK a2 : a2 = a1 \o g
  OBVIOUS
<1>6. PICK a3 : a3 = a2 \o c
  OBVIOUS
<1>7. PICK s : s = a3 \o body
  OBVIOUS
<1>8. s = Stream(r)
  BY <1>1, <1>2, <1>3, <1>4, <1>5, <1>6, <1>7 DEF Stream
<1>9. /\ p \in Seq(Cells) /\ Len(p) = 1 /\ p[1] = r.line
      /\ c \in Seq(Cells) /\ Len(c) = 2 /\ c[1] = CR /\ c[2] = LF
  <2>1. r.line \in Cells /\ CR \in Cells /\ LF \in Cells
    BY RequestIs DEF Cells
  <2> QED BY <1>1, <1>2, <2>1
<1>10. e \in Seq(Cells) /\ Len(e) \in 1..2
  <2>1. CR \in Cells /\ LF \in Cells /\ "x" \in Cells
    BY DEF Cells
  <2>2. e \in {<<CR, LF>>, <<LF>>, <<CR, "x">>}
    BY <1>1, RequestIs
  <2>3. CASE e = <<CR, LF>>
    BY <2>1, <2>3
  <2>4. CASE e = <<LF>>
    BY <2>1, <2>4
  <2>5. CASE e = <<CR, "x">>
    BY <2>1, <2>5
  <2> QED BY <2>2, <2>3, <2>4, <2>5
<1>11. h \in Seq(Cells) /\ body \in Seq(Cells)
  BY <1>1, RequestIs
<1>12. /\ g \in Seq(Cells) /\ Len(g) = 3 * Len(h)
       /\ \A j \in 1..Len(h) : g[3 * j - 2] = h[j] /\ g[3 * j - 1] = CR /\ g[3 * j] = LF
  BY <1>3, <1>11, HeaderCells
<1>13. /\ a1 \in Seq(Cells) /\ Len(a1) = 1 + Len(e) /\ a1[1] = r.line
       /\ \A i \in 1..Len(e) : a1[1 + i] = e[i]
  <2>1. p \in Seq(Cells) /\ e \in Seq(Cells)
    BY <1>9, <1>10
  <2>2. /\ a1 \in Seq(Cells) /\ Len(a1) = Len(p) + Len(e)
        /\ \A i \in 1..Len(p) : a1[i] = p[i]
        /\ \A i \in 1..Len(e) : a1[Len(p) + i] = e[i]
    BY <1>4, <2>1, Joined
  <2>3. 1 \in 1..Len(p) /\ Len(p) = 1 /\ p[1] = r.line
    BY <1>9
  <2> QED BY <2>2, <2>3
<1>14. /\ a2 \in Seq(Cells) /\ Len(a2) = Len(a1) + Len(g)
       /\ \A i \in 1..Len(a1) : a2[i] = a1[i]
       /\ \A i \in 1..Len(g) : a2[Len(a1) + i] = g[i]
  <2>1. a1 \in Seq(Cells) /\ g \in Seq(Cells)
    BY <1>12, <1>13
  <2> QED BY <1>5, <2>1, Joined
<1>15. /\ a3 \in Seq(Cells) /\ Len(a3) = Len(a2) + 2
       /\ \A i \in 1..Len(a2) : a3[i] = a2[i]
       /\ \A i \in 1..2 : a3[Len(a2) + i] = c[i]
  <2>1. a2 \in Seq(Cells) /\ c \in Seq(Cells)
    BY <1>9, <1>14
  <2>2. Len(c) = 2
    BY <1>9
  <2>3. /\ a3 \in Seq(Cells) /\ Len(a3) = Len(a2) + Len(c)
        /\ \A i \in 1..Len(a2) : a3[i] = a2[i]
        /\ \A i \in 1..Len(c) : a3[Len(a2) + i] = c[i]
    BY <1>6, <2>1, Joined
  <2> QED BY <2>2, <2>3
<1>16. /\ s \in Seq(Cells) /\ Len(s) = Len(a3) + Len(body)
       /\ \A i \in 1..Len(a3) : s[i] = a3[i]
       /\ \A i \in 1..Len(body) : s[Len(a3) + i] = body[i]
  <2>1. a3 \in Seq(Cells) /\ body \in Seq(Cells)
    BY <1>11, <1>15
  <2> QED BY <1>7, <2>1, Joined
<1>17. PICK n, m, b : n = Len(e) /\ m = Len(h) /\ b = Len(body)
  OBVIOUS
<1>18. /\ n \in 1..2 /\ m \in Nat /\ b \in Nat
       /\ Len(a1) = n + 1 /\ Len(g) = 3 * m /\ Len(a2) = n + 1 + 3 * m
       /\ Len(a3) = n + 3 + 3 * m /\ Len(s) = n + 3 + 3 * m + b
  <2>1. n \in 1..2 /\ m \in Nat /\ b \in Nat
    BY <1>10, <1>11, <1>17
  <2>2. PICK l1, l2, l3, l4, lg : /\ l1 = Len(a1) /\ l2 = Len(a2) /\ l3 = Len(a3)
                                  /\ l4 = Len(s) /\ lg = Len(g)
    OBVIOUS
  <2>3. l1 = 1 + n /\ lg = 3 * m /\ l2 = l1 + lg /\ l3 = l2 + 2 /\ l4 = l3 + b
    BY <1>12, <1>13, <1>14, <1>15, <1>16, <1>17, <2>2
  <2>4. /\ l1 = n + 1 /\ l2 = n + 1 + 3 * m
        /\ l3 = n + 3 + 3 * m /\ l4 = n + 3 + 3 * m + b
    BY <2>1, <2>3
  <2> QED BY <2>1, <2>2, <2>3, <2>4
<1>19. s[1] = r.line /\ s[2] = e[1] /\ (n = 2 => s[3] = e[2])
  <2>1. \A i \in 1..n + 1 : s[i] = a1[i]
    BY <1>14, <1>15, <1>16, <1>18
  <2>2. 1 \in 1..n /\ (n = 2 => 2 \in 1..n) /\ 1 + 1 = 2 /\ 1 + 2 = 3
    BY <1>18
  <2> QED BY <1>13, <1>17, <1>18, <2>1, <2>2
<1>20. \A j \in 1..3 * m : s[n + 1 + j] = g[j]
  BY <1>14, <1>15, <1>16, <1>18
<1>21. s[n + 2 + 3 * m] = CR /\ s[n + 3 + 3 * m] = LF
  <2>1. s[n + 1 + 3 * m + 1] = c[1] /\ s[n + 1 + 3 * m + 2] = c[2]
    BY <1>15, <1>16, <1>18
  <2>2. n + 1 + 3 * m + 1 = n + 2 + 3 * m /\ n + 1 + 3 * m + 2 = n + 3 + 3 * m
    BY <1>18
  <2> QED BY <1>9, <2>1, <2>2
<1>22. \A i \in 1..b : s[n + 3 + 3 * m + i] = body[i]
  BY <1>16, <1>17, <1>18
<1>23. ASSUME n = 2
       PROVE  /\ \A j \in 1..m : s[3 * j + 1] = h[j] /\ s[3 * j + 2] = CR /\ s[3 * j + 3] = LF
              /\ s[3 * m + 4] = CR /\ s[3 * m + 5] = LF
              /\ \A i \in 1..b : s[3 * m + 5 + i] = body[i]
  <2>1. ASSUME NEW j \in 1..m
        PROVE  s[3 * j + 1] = h[j] /\ s[3 * j + 2] = CR /\ s[3 * j + 3] = LF
    <3>1. /\ 3 * j - 2 \in 1..3 * m /\ 3 * j - 1 \in 1..3 * m /\ 3 * j \in 1..3 * m
          /\ n + 1 + (3 * j - 2) = 3 * j + 1 /\ n + 1 + (3 * j - 1) = 3 * j + 2
          /\ n + 1 + 3 * j = 3 * j + 3
      BY <1>18, <1>23
    <3>2. g[3 * j - 2] = h[j] /\ g[3 * j - 1] = CR /\ g[3 * j] = LF
      BY <1>12, <1>17
    <3> QED BY <1>20, <3>1, <3>2
  <2>2. /\ n + 2 + 3 * m = 3 * m + 4 /\ n + 3 + 3 * m = 3 * m + 5
        /\ \A i \in 1..b : n + 3 + 3 * m + i = 3 * m + 5 + i
    BY <1>18, <1>23
  <2> QED BY <1>21, <1>22, <2>1, <2>2
<1>24. Len(s) >= n + b + 3 /\ (n = 2 => Len(s) = 3 * m + 5 + b)
  BY <1>18
<1> QED BY <1>1, <1>8, <1>16, <1>17, <1>19, <1>23, <1>24 DEF Shape

\* What the last of k headers adds.
LEMMA DeclaredNext ==
    ASSUME NEW h \in Seq(Cells), NEW k \in 0..Len(h) - 1
    PROVE  Declared(h, k + 1) = IF h[k + 1] \in DOMAIN LengthHeaders
                                THEN LengthHeaders[h[k + 1]] ELSE Declared(h, k)
<1> DEFINE G(n) == {j \in 1..n : h[j] \in DOMAIN LengthHeaders}
           Latest(g) == CHOOSE j \in g : \A i \in g : i <= j
<1>1. \A n : Declared(h, n) = IF G(n) = {} THEN 0 ELSE LengthHeaders[h[Latest(G(n))]]
  BY DEF Declared
<1>2. CASE h[k + 1] \in DOMAIN LengthHeaders
  <2>1. k + 1 \in G(k + 1) /\ \A i \in G(k + 1) : i <= k + 1 /\ i \in Nat
    BY <1>2
  <2>2. PICK g : g = G(k + 1)
    OBVIOUS
  <2>3. \A j \in g : (\A i \in g : i <= j) => j = k + 1
    <3> HIDE DEF G
    <3> QED BY <2>1, <2>2
  <2>4. Latest(g) = k + 1
    <3> HIDE DEF G
    <3> QED BY <2>1, <2>2, <2>3
  <2> HIDE DEF G, Latest
  <2> QED BY <1>1, <1>2, <2>1, <2>2, <2>4
<1>3. CASE h[k + 1] \notin DOMAIN LengthHeaders
  <2>1. G(k + 1) = G(k)
    BY <1>3
  <2> HIDE DEF G, Latest
  <2> QED BY <1>1, <1>3, <2>1
<1> QED BY <1>2, <1>3

LEMMA DeclaredNone ==
    ASSUME NEW h
    PROVE  Declared(h, 0) = 0
  BY DEF Declared

LEMMA KeepsNext ==
    ASSUME NEW h, NEW k \in Nat
    PROVE  /\ Keeps(h, k + 1) = (Keeps(h, k) \/ h[k + 1] = "keep")
           /\ Keeps(h, 0) = FALSE
<1>1. Keeps(h, k + 1) <=> (Keeps(h, k) \/ h[k + 1] = "keep")
  BY DEF Keeps
<1>2. ~Keeps(h, 0)
  BY DEF Keeps
<1>3. Keeps(h, k + 1) \in BOOLEAN /\ Keeps(h, 0) \in BOOLEAN
  BY DEF Keeps
<1> QED BY <1>1, <1>2, <1>3, Zenon

-----------------------------------------------------------------------------
(* parse_line(). *)

LEMMA Types ==
    ASSUME ParseTypeOK
    PROVE  /\ m_read_idx \in Nat /\ m_checked_idx \in Nat /\ m_start_line \in Nat
           /\ m_start_line <= m_checked_idx /\ m_checked_idx <= m_read_idx
           /\ m_read_idx <= BufSize /\ BufSize \in Nat \ {0}
           /\ Len(inbox) \in Nat /\ Len(unsent) \in Nat
           /\ (inbox = <<>> <=> Len(inbox) = 0) /\ (unsent = <<>> <=> Len(unsent) = 0)
  BY ParseParameters DEF ParseTypeOK

\* From m_checked_idx on, the first CR or LF is at e, or there is none before e.
NextEnd(e) ==
    /\ e \in Nat /\ m_checked_idx <= e
    /\ \A i \in m_checked_idx..m_read_idx - 1 : i < e => m_read_buf[i] \notin {CR, LF}
    /\ e < m_read_idx => m_read_buf[e] \in {CR, LF}

CrlfAt(e) ==
    /\ NextEnd(e)
    /\ e < m_read_idx => m_read_buf[e] = CR
    /\ e + 1 < m_read_idx => m_read_buf[e + 1] = LF

Open(i) == [status |-> "LINE_OPEN", at |-> i]
Complete(i) == [status |-> "LINE_OK", at |-> i]

LEMMA ParseLineIs ==
    ASSUME m_read_idx \in Nat, m_checked_idx \in Nat, NEW e, NextEnd(e)
    PROVE  ParseLine = IF e < m_read_idx THEN EndsLine(e) ELSE Open(m_read_idx)
<1> DEFINE D == {i \in m_checked_idx..(m_read_idx - 1) : m_read_buf[i] \in {CR, LF}}
           F(g) == CHOOSE i \in g : \A j \in g : i <= j
<1>1. ParseLine = IF D = {} THEN Open(m_read_idx) ELSE EndsLine(F(D))
  BY Zenon DEF ParseLine, Open
<1>2. CASE e < m_read_idx
  <2>1. e \in D /\ \A j \in D : j \in Nat /\ e <= j
    BY <1>2 DEF NextEnd
  <2>2. PICK g : g = D
    OBVIOUS
  <2>3. F(g) = e
    <3> HIDE DEF D
    <3>1. \A i \in g : (\A j \in g : i <= j) => i = e
      BY <2>1, <2>2 DEF NextEnd
    <3> QED BY <2>1, <2>2, <3>1
  <2> HIDE DEF D, F
  <2> QED BY <1>1, <1>2, <2>1, <2>2, <2>3
<1>3. CASE ~(e < m_read_idx)
  <2>1. D = {}
    BY <1>3 DEF NextEnd
  <2> HIDE DEF D, F
  <2> QED BY <1>1, <1>3, <2>1
<1> QED BY <1>2, <1>3

LEMMA CrlfLine ==
    ASSUME m_read_idx \in Nat, m_checked_idx \in Nat, NEW e, CrlfAt(e)
    PROVE  ParseLine = IF m_read_idx <= e THEN Open(m_read_idx)
                       ELSE IF m_read_idx = e + 1 THEN Open(e) ELSE Complete(e + 2)
<1>1. e \in Nat /\ ParseLine = IF e < m_read_idx THEN EndsLine(e) ELSE Open(m_read_idx)
  BY ParseLineIs DEF CrlfAt, NextEnd
<1>2. ASSUME e < m_read_idx
      PROVE  EndsLine(e) = IF m_read_idx = e + 1 THEN Open(e) ELSE Complete(e + 2)
  <2>1. m_read_buf[e] = CR
    BY <1>2 DEF CrlfAt
  <2>2. CASE e + 1 = m_read_idx
    BY <1>1, <2>1, <2>2 DEF EndsLine, Open
  <2>3. CASE e + 1 # m_read_idx
    <3>1. m_read_buf[e + 1] = LF
      BY <1>1, <1>2, <2>3 DEF CrlfAt
    <3> QED BY <1>1, <2>1, <2>3, <3>1 DEF EndsLine, Complete
  <2> QED BY <2>2, <2>3
<1> QED BY <1>1, <1>2

\* CR LF at e and e + 1 become NUL.
LEMMA EndedIs ==
    ASSUME m_checked_idx \in Nat, m_read_buf \in [0..BufSize - 1 -> Cells],
           NEW e \in Nat, m_checked_idx <= e, Line = Complete(e + 2)
    PROVE  /\ Ended = [m_read_buf EXCEPT ![e] = NUL, ![e + 1] = NUL]
           /\ Ended \in [0..BufSize - 1 -> Cells]
           /\ Line.at = e + 2 /\ Line.status = "LINE_OK"
<1>1. Line.at = e + 2 /\ Line.status = "LINE_OK"
  BY DEF Complete
<1>2. e + 2 # m_checked_idx /\ e + 2 - 2 = e /\ e + 2 - 1 = e + 1
  OBVIOUS
<1>3. Ended = [m_read_buf EXCEPT ![e] = NUL, ![e + 1] = NUL]
  <2>1. Line.at # m_checked_idx /\ Line.at - 2 = e /\ Line.at - 1 = e + 1
    BY <1>1, <1>2
  <2>2. Ended = [m_read_buf EXCEPT ![Line.at - 2] = NUL, ![Line.at - 1] = NUL]
    BY <2>1 DEF Ended
  <2> QED BY <2>1, <2>2, Zenon
<1>4. NUL \in Cells
  BY DEF Cells
<1> QED BY <1>1, <1>3, <1>4

-----------------------------------------------------------------------------
(* What parse_line() finds where the parse stands. *)

LEMMA AsWritten ==
    ASSUME ParseTypeOK, Buffered, request \in Requests
    PROVE  /\ m_read_idx \in Nat /\ m_checked_idx \in Nat /\ m_start_line \in Nat
           /\ m_start_line <= m_checked_idx /\ m_checked_idx <= m_read_idx
           /\ m_read_idx <= BufSize /\ BufSize \in Nat /\ Length \in Nat
           /\ Shape(Stream(request), request)
           /\ \A i \in m_start_line..m_read_idx - 1 : m_read_buf[i] = Stream(request)[i + 1]
           /\ Len(request.headers) \in Nat /\ BodyLength \in Nat
<1>1. Shape(Stream(request), request)
  BY StreamIs
<1>2. Length \in Nat
  BY <1>1 DEF Length, Shape
<1>3. Len(request.headers) \in Nat /\ BodyLength \in Nat
  BY RequestIs DEF BodyLength
<1>4. /\ m_read_idx \in Nat /\ m_checked_idx \in Nat /\ m_start_line \in Nat
      /\ m_start_line <= m_checked_idx /\ m_checked_idx <= m_read_idx
      /\ m_read_idx <= BufSize /\ BufSize \in Nat
  BY ParseParameters DEF ParseTypeOK
<1> QED BY <1>1, <1>2, <1>3, <1>4 DEF Buffered

LEMMA InRequestLineIs ==
    ASSUME ParseTypeOK, Buffered, request \in Requests, m_check_state = "REQUESTLINE", InRequestLine
    PROVE  /\ Crlf => /\ CrlfAt(1)
                      /\ Line = IF m_read_idx <= 1 THEN Open(m_read_idx)
                                ELSE IF m_read_idx = 2 THEN Open(1) ELSE Complete(3)
           /\ Line.at \in m_checked_idx..m_read_idx
           /\ Line.status # "LINE_OK" => Line.at \in 0..1 /\ Line.status \in {"LINE_OPEN", "LINE_BAD"}
           /\ Line.status = "LINE_OK" => Crlf
<1>1. PICK s, R, r : s = Stream(request) /\ R = m_read_idx /\ r = request
  OBVIOUS
<1>2. /\ R \in Nat /\ m_checked_idx \in 0..1 /\ m_checked_idx <= R
      /\ \A i \in 0..R - 1 : m_read_buf[i] = s[i + 1]
      /\ s[1] = r.line /\ s[2] = r.eol[1] /\ (Len(r.eol) = 2 => s[3] = r.eol[2])
      /\ m_start_line = 0
  BY <1>1, AsWritten DEF Shape, InRequestLine
<1>3. /\ R >= 1 => m_read_buf[0] = s[1]
      /\ R >= 2 => m_read_buf[1] = s[2]
      /\ R >= 3 => m_read_buf[2] = s[3]
  <2>1. /\ R >= 1 => 0 \in 0..R - 1
        /\ R >= 2 => 1 \in 0..R - 1
        /\ R >= 3 => 2 \in 0..R - 1
        /\ 0 + 1 = 1 /\ 1 + 1 = 2 /\ 2 + 1 = 3
    BY <1>2
  <2> QED BY <1>2, <2>1
<1>4. r.line \notin {CR, LF} /\ r.eol \in {<<CR, LF>>, <<LF>>, <<CR, "x">>}
  BY <1>1, RequestIs DEF CR, LF
<1>5. r.eol[1] \in {CR, LF}
  BY <1>4
<1>6. Line = ParseLine
  BY DEF Line
<1>7. NextEnd(1)
  <2>1. \A i \in m_checked_idx..R - 1 : i < 1 => i = 0 /\ R >= 1
    BY <1>2
  <2> QED BY <1>1, <1>2, <1>3, <1>4, <1>5, <2>1 DEF NextEnd
<1>8. CASE Crlf
  <2>1. r.eol[1] = CR /\ r.eol[2] = LF /\ Len(r.eol) = 2
    BY <1>1, <1>8 DEF Crlf
  <2>2. CrlfAt(1)
    BY <1>1, <1>2, <1>3, <1>7, <2>1 DEF CrlfAt
  <2>3. Line = IF R <= 1 THEN Open(R) ELSE IF R = 1 + 1 THEN Open(1) ELSE Complete(1 + 2)
    BY <1>1, <1>2, <1>6, <2>2, CrlfLine, m_checked_idx \in Nat
  <2>4. 1 + 1 = 2 /\ 1 + 2 = 3
    OBVIOUS
  <2>5. Line = IF R <= 1 THEN Open(R) ELSE IF R = 2 THEN Open(1) ELSE Complete(3)
    BY <2>3, <2>4
  <2> QED BY <1>1, <1>2, <1>8, <2>2, <2>5 DEF Open, Complete
<1>9. CASE ~Crlf
  <2>1. r.eol \in {<<LF>>, <<CR, "x">>}
    BY <1>1, <1>4, <1>9 DEF Crlf
  <2>2. Line = IF 1 < R THEN EndsLine(1) ELSE Open(R)
    BY <1>1, <1>2, <1>6, <1>7, ParseLineIs, m_checked_idx \in Nat
  <2>3. CASE R <= 1
    BY <1>1, <1>2, <1>9, <2>2, <2>3 DEF Open
  <2>4. CASE R > 1
    <3>1. EndsLine(1).at = 1 /\ EndsLine(1).status \in {"LINE_OPEN", "LINE_BAD"}
      <4>1. CASE r.eol = <<LF>>
        <5>1. m_read_buf[1] = LF /\ LF # CR
          BY <1>2, <1>3, <2>4, <4>1 DEF CR, LF
        <5> QED BY <5>1 DEF EndsLine
      <4>2. CASE r.eol = <<CR, "x">>
        <5>1. m_read_buf[1] = CR /\ (R > 2 => m_read_buf[2] # LF)
          BY <1>2, <1>3, <2>4, <4>2 DEF LF
        <5>2. CASE 1 + 1 = R
          BY <1>1, <5>1, <5>2 DEF EndsLine
        <5>3. CASE 1 + 1 # R
          BY <1>1, <1>2, <2>4, <5>1, <5>3 DEF EndsLine
        <5> QED BY <5>2, <5>3
      <4> QED BY <2>1, <4>1, <4>2
    <3> QED BY <1>1, <1>2, <1>9, <2>2, <2>4, <3>1
  <2> QED BY <1>2, <2>3, <2>4
<1> QED BY <1>8, <1>9

\* The line of header k + 1, or the empty line after the last.
EndOf(k) == IF k < Len(request.headers) THEN m_start_line + 1 ELSE m_start_line

LEMMA InHeaderIs ==
    ASSUME ParseTypeOK, Buffered, request \in Requests, m_check_state = "HEADER", Crlf,
           NEW k \in 0..Len(request.headers), Headers(k)
    PROVE  /\ EndOf(k) \in Nat /\ CrlfAt(EndOf(k)) /\ EndOf(k) + 2 <= Length
           /\ Line = IF m_read_idx <= EndOf(k) THEN Open(m_read_idx)
                     ELSE IF m_read_idx = EndOf(k) + 1 THEN Open(EndOf(k)) ELSE Complete(EndOf(k) + 2)
           /\ k < Len(request.headers) /\ m_start_line < m_read_idx =>
                m_read_buf[m_start_line] = request.headers[k + 1]
<1>1. PICK s, R, r, m, e, st : /\ s = Stream(request) /\ R = m_read_idx /\ r = request
                               /\ m = Len(request.headers) /\ e = EndOf(k) /\ st = m_start_line
  OBVIOUS
<1>2. /\ R \in Nat /\ m_checked_idx \in Nat /\ m_checked_idx <= R /\ m \in Nat
      /\ \A i \in st..R - 1 : m_read_buf[i] = s[i + 1]
      /\ Shape(s, r) /\ Len(s) = Length
  BY <1>1, AsWritten DEF Length
<1>3. /\ k \in 0..m /\ st = 3 * k + 3 /\ e = (IF k < m THEN st + 1 ELSE st) /\ m_checked_idx \in st..e
  BY <1>1 DEF Headers, EndOf
<1>4. Len(r.eol) = 2
  BY <1>1 DEF Crlf
<1>5. /\ Len(s) = 3 * m + 5 + Len(r.body)
      /\ \A j \in 1..m : s[3 * j + 1] = r.headers[j] /\ s[3 * j + 2] = CR /\ s[3 * j + 3] = LF
      /\ s[3 * m + 4] = CR /\ s[3 * m + 5] = LF
  BY <1>1, <1>2, <1>4 DEF Shape
<1>6. s[e + 1] = CR /\ s[e + 2] = LF /\ (k < m => s[st + 1] = r.headers[k + 1])
  <2>1. CASE k < m
    <3>1. PICK j : j = k + 1
      OBVIOUS
    <3>2. m \in Nat /\ k \in 0..m /\ k < m /\ st = 3 * k + 3 /\ e = st + 1
      BY <1>2, <1>3, <2>1
    <3>3. j \in 1..m /\ 3 * j + 1 = st + 1 /\ 3 * j + 2 = e + 1 /\ 3 * j + 3 = e + 2
      BY <3>1, <3>2
    <3>4. s[3 * j + 1] = r.headers[j] /\ s[3 * j + 2] = CR /\ s[3 * j + 3] = LF
      BY <1>5, <3>3
    <3> QED BY <3>1, <3>3, <3>4
  <2>2. CASE k = m
    <3>1. 3 * m + 4 = e + 1 /\ 3 * m + 5 = e + 2 /\ ~(k < m)
      BY <1>2, <1>3, <2>2
    <3>2. s[3 * m + 4] = CR /\ s[3 * m + 5] = LF
      BY <1>5
    <3> QED BY <3>1, <3>2, Zenon
  <2> QED BY <1>2, <1>3, <2>1, <2>2
<1>7. e \in Nat /\ e + 2 <= Len(s)
  <2>1. PICK b, L : b = Len(r.body) /\ L = Len(s)
    OBVIOUS
  <2>2. b \in Nat
    BY <1>1, <2>1, RequestIs
  <2>3. L = 3 * m + 5 + b
    BY <1>5, <2>1
  <2>4. m \in Nat /\ k \in 0..m /\ st = 3 * k + 3 /\ e = (IF k < m THEN st + 1 ELSE st)
    BY <1>2, <1>3
  <2>5. e \in Nat /\ e + 2 <= L
    <3>1. CASE k < m
      BY <2>2, <2>3, <2>4, <3>1
    <3>2. CASE ~(k < m)
      BY <2>2, <2>3, <2>4, <3>2
    <3> QED BY <3>1, <3>2
  <2> QED BY <2>1, <2>5
<1>8. /\ e < R => m_read_buf[e] = s[e + 1]
      /\ e + 1 < R => m_read_buf[e + 1] = s[e + 2]
      /\ st < R => m_read_buf[st] = s[st + 1]
  <2>1. /\ e < R => e \in st..R - 1
        /\ e + 1 < R => e + 1 \in st..R - 1
        /\ st < R => st \in st..R - 1
        /\ e + 1 + 1 = e + 2
    BY <1>2, <1>3, <1>7
  <2> QED BY <1>2, <2>1
<1>9. NextEnd(e)
  <2>1. ASSUME NEW i \in m_checked_idx..R - 1, i < e
        PROVE  m_read_buf[i] \notin {CR, LF}
    <3>1. i = st /\ k < m /\ st < R
      BY <1>2, <1>3, <2>1
    <3>2. k + 1 \in 1..m
      BY <1>2, <1>3, <3>1
    <3>3. r.headers[k + 1] \notin {CR, LF}
      BY <1>1, <3>2, RequestIs
    <3> QED BY <1>6, <1>8, <3>1, <3>3
  <2>2. m_checked_idx <= e
    BY <1>2, <1>3, <1>7
  <2> QED BY <1>1, <1>6, <1>7, <1>8, <2>1, <2>2 DEF NextEnd
<1>10. CrlfAt(e)
  BY <1>1, <1>6, <1>8, <1>9 DEF CrlfAt
<1>11. Line = ParseLine
  BY DEF Line
<1>12. Line = IF R <= e THEN Open(R) ELSE IF R = e + 1 THEN Open(e) ELSE Complete(e + 2)
  BY <1>1, <1>2, <1>10, <1>11, CrlfLine
<1>13. k < m /\ st < R => m_read_buf[st] = r.headers[k + 1]
  BY <1>6, <1>8
<1> QED BY <1>1, <1>2, <1>7, <1>10, <1>12, <1>13

\* A line that ends in a body, which may hold CR and LF, ends after m_checked_idx.
LEMMA InBodyIs ==
    ASSUME ParseTypeOK, m_check_state = "CONTENT"
    PROVE  /\ line_status = "LINE_OK" => Line = Complete(m_checked_idx)
           /\ line_status # "LINE_OK" =>
                /\ Line.at \in m_checked_idx..m_read_idx
                /\ Line.status \in {"LINE_OK", "LINE_OPEN", "LINE_BAD"}
                /\ Line.status = "LINE_OK" => m_checked_idx < Line.at /\ Line.at >= 2
<1>1. PICK R, c : R = m_read_idx /\ c = m_checked_idx
  OBVIOUS
<1>2. R \in Nat /\ c \in Nat /\ c <= R
  BY <1>1, Types
<1>3. line_status = "LINE_OK" => Line = Complete(m_checked_idx)
  BY DEF Line, Complete
<1>4. line_status # "LINE_OK" => Line = ParseLine
  BY DEF Line
<1>5. \E e \in c..R : NextEnd(e)
  <2> DEFINE D == {i \in c..R - 1 : m_read_buf[i] \in {CR, LF}}
  <2>1. CASE D = {}
    <3>1. NextEnd(R)
      BY <1>1, <1>2, <2>1 DEF NextEnd
    <3> QED BY <1>2, <3>1
  <2>2. CASE D # {}
    <3>1. D \subseteq Nat
      BY <1>2
    <3>2. PICK e \in D : \A d \in D : e <= d
      <4> HIDE DEF D
      <4> QED BY <2>2, <3>1, Least
    <3>3. NextEnd(e) /\ e \in c..R
      BY <1>1, <1>2, <3>2 DEF NextEnd
    <3> QED BY <3>3
  <2> QED BY <2>1, <2>2
<1>6. PICK e \in c..R : NextEnd(e)
  BY <1>5
<1>7. ParseLine = IF e < R THEN EndsLine(e) ELSE Open(R)
  BY <1>1, <1>2, <1>6, ParseLineIs
<1>8. CASE ~(e < R)
  BY <1>1, <1>2, <1>3, <1>4, <1>7, <1>8 DEF Open
<1>9. CASE e < R
  <2>1. e \in Nat /\ c <= e
    BY <1>2, <1>6
  <2>2. CASE m_read_buf[e] = CR
    <3>1. CASE e + 1 = R
      <4>1. EndsLine(e) = Open(e)
        BY <1>1, <2>2, <3>1 DEF EndsLine, Open
      <4> QED BY <1>1, <1>2, <1>3, <1>4, <1>7, <1>9, <2>1, <4>1 DEF Open
    <3>2. CASE e + 1 # R /\ m_read_buf[e + 1] = LF
      <4>1. EndsLine(e) = Complete(e + 2)
        BY <1>1, <2>2, <3>2 DEF EndsLine, Complete
      <4>2. e + 2 \in c..R /\ c < e + 2 /\ e + 2 >= 2
        BY <1>2, <1>9, <2>1, <3>2
      <4> QED BY <1>1, <1>3, <1>4, <1>7, <1>9, <4>1, <4>2 DEF Complete
    <3>3. CASE e + 1 # R /\ m_read_buf[e + 1] # LF
      <4>1. EndsLine(e) = [status |-> "LINE_BAD", at |-> e]
        BY <1>1, <2>2, <3>3 DEF EndsLine
      <4> QED BY <1>1, <1>2, <1>3, <1>4, <1>7, <1>9, <2>1, <4>1
    <3> QED BY <3>1, <3>2, <3>3
  <2>3. CASE m_read_buf[e] # CR
    <3>1. CASE e > 1 /\ m_read_buf[e - 1] = CR
      <4>1. EndsLine(e) = Complete(e + 1)
        BY <2>3, <3>1 DEF EndsLine, Complete
      <4>2. e + 1 \in c..R /\ c < e + 1 /\ e + 1 >= 2
        BY <1>2, <1>9, <2>1, <3>1
      <4> QED BY <1>1, <1>3, <1>4, <1>7, <1>9, <4>1, <4>2 DEF Complete
    <3>2. CASE ~(e > 1 /\ m_read_buf[e - 1] = CR)
      <4>1. EndsLine(e) = [status |-> "LINE_BAD", at |-> e]
        BY <2>3, <3>2 DEF EndsLine
      <4> QED BY <1>1, <1>2, <1>3, <1>4, <1>7, <1>9, <2>1, <4>1
    <3> QED BY <3>1, <3>2
  <2> QED BY <2>2, <2>3
<1> QED BY <1>8, <1>9

-----------------------------------------------------------------------------
(* The start, the client, and what is outside of process_read(). *)

LEMMA LengthIs ==
    ASSUME NEW r \in Requests
    PROVE  /\ Len(Stream(r)) \in Nat /\ Len(r.body) \in Nat /\ Len(r.headers) \in Nat
           /\ Len(Stream(r)) >= Len(r.body) + 4 /\ 3 * Len(r.headers) + 5 \in Nat
           /\ r.eol = <<CR, LF>> => Len(Stream(r)) = 3 * Len(r.headers) + 5 + Len(r.body)
<1>1. PICK n, b, m, L : n = Len(r.eol) /\ b = Len(r.body) /\ m = Len(r.headers) /\ L = Len(Stream(r))
  OBVIOUS
<1>2. /\ Stream(r) \in Seq(Cells) /\ L >= n + b + 3
      /\ n = 2 => L = 3 * m + 5 + b
  BY <1>1, StreamIs DEF Shape
<1>3. b \in Nat /\ m \in Nat
  BY <1>1, RequestIs
<1>4. n \in 1..2 /\ (r.eol = <<CR, LF>> => n = 2)
  <2>1. r.eol \in {<<CR, LF>>, <<LF>>, <<CR, "x">>}
    BY RequestIs
  <2>2. CASE r.eol = <<CR, LF>>
    BY <1>1, <2>2
  <2>3. CASE r.eol = <<LF>>
    BY <1>1, <2>3
  <2>4. CASE r.eol = <<CR, "x">>
    BY <1>1, <2>4 DEF LF
  <2> QED BY <2>1, <2>2, <2>3, <2>4
<1>5. L \in Nat
  BY <1>1, <1>2
<1>6. L >= b + 4
  BY <1>2, <1>3, <1>4, <1>5
<1>7. 3 * m + 5 \in Nat
  BY <1>3
<1> QED BY <1>1, <1>2, <1>3, <1>4, <1>5, <1>6, <1>7

LEMMA AskedIs ==
    ASSUME request \in Requests
    PROVE  /\ Length \in Nat /\ BodyLength \in Nat /\ BodyAt \in Nat
           /\ Length >= BodyLength + 4
           /\ Crlf => Length = BodyAt + BodyLength
<1>1. PICK q : q = request /\ q \in Requests
  OBVIOUS
<1>2. /\ Len(Stream(q)) \in Nat /\ Len(q.body) \in Nat /\ 3 * Len(q.headers) + 5 \in Nat
      /\ Len(Stream(q)) >= Len(q.body) + 4
      /\ q.eol = <<CR, LF>> => Len(Stream(q)) = 3 * Len(q.headers) + 5 + Len(q.body)
  BY <1>1, LengthIs
<1>3. /\ Length = Len(Stream(q)) /\ BodyLength = Len(q.body) /\ BodyAt = 3 * Len(q.headers) + 5
      /\ Crlf = (q.eol = <<CR, LF>>)
  BY <1>1 DEF Length, BodyLength, BodyAt, Crlf
<1> QED BY <1>2, <1>3

\* The request is read to its end when nothing of it is under way.
LEMMA WaitingIs ==
    ASSUME ParseTypeOK, Flowing, request \in Requests
    PROVE  /\ WaitsForMoreOnly <=> (pc = "armed" /\ Plain => m_read_idx < Length)
           /\ m_read_idx <= Length
<1>1. m_read_idx + Len(inbox) + Len(unsent) = Length
  BY DEF Flowing
<1>2. m_read_idx < Length <=> (unsent # <<>> \/ inbox # <<>>)
  BY <1>1, Types, AskedIs
<1> QED BY <1>1, <1>2, Types, AskedIs DEF WaitsForMoreOnly

LEMMA Fresh ==
    /\ [i \in 0..BufSize - 1 |-> NUL] \in [0..BufSize - 1 -> Cells]
    /\ 0 \in 0..BufSize /\ 0 \in 0..0 /\ <<>> \in Seq(Cells)
<1>1. NUL \in Cells
  BY DEF Cells
<1> QED BY <1>1, ParseParameters

LEMMA ResetTypes ==
    ASSUME Reset
    PROVE  /\ m_read_buf' \in [0..BufSize - 1 -> Cells]
           /\ m_read_idx' \in 0..BufSize
           /\ m_checked_idx' \in 0..m_read_idx' /\ m_start_line' \in 0..m_checked_idx'
           /\ m_check_state' \in {"REQUESTLINE", "HEADER", "CONTENT"}
           /\ m_method' \in {"GET", "POST"} /\ m_linger' \in BOOLEAN
           /\ m_content_length' \in Nat /\ m_string' \in Seq(Cells)
<1>1. /\ m_read_buf' \in [0..BufSize - 1 -> Cells]
      /\ m_read_idx' \in 0..BufSize /\ m_string' \in Seq(Cells)
  BY Fresh DEF Reset
<1>2. m_checked_idx' \in 0..m_read_idx' /\ m_start_line' \in 0..m_checked_idx'
  BY DEF Reset
<1>3. /\ m_check_state' \in {"REQUESTLINE", "HEADER", "CONTENT"}
      /\ m_method' \in {"GET", "POST"} /\ m_linger' \in BOOLEAN /\ m_content_length' \in Nat
  BY DEF Reset
<1> QED BY <1>1, <1>2, <1>3

LEMMA InitHolds ==
    ASSUME ParseInit
    PROVE  ParseIInv
<1>1. ParseTypeOK
  BY Fresh DEF ParseInit, ParseTypeOK
<1>2. request = NoRequest /\ Idle
  BY DEF ParseInit, Idle
<1> QED BY <1>1, <1>2 DEF ParseIInv

LEMMA ClosedHolds ==
    ASSUME ParseTypeOK, UNCHANGED <<m_TRIGMode, client, indices, m_check_state, line_status, parsed, ret>>,
           pc' = "closed"
    PROVE  ParseIInv'
<1>1. ParseTypeOK'
  BY DEF ParseTypeOK, client, indices, parsed
<1> QED BY <1>1 DEF ParseIInv

LEMMA AskHolds ==
    ASSUME ParseIInv, NEW r \in Requests, Ask(r)
    PROVE  ParseIInv'
<1> USE DEF client, indices, parsed
<1>1. ParseTypeOK /\ Idle /\ request' \in Requests /\ unsent' = Stream(request')
      /\ bodyCut' = FALSE /\ m_read_buf' = m_read_buf
  BY DEF ParseIInv, Ask
<1>3. /\ m_read_idx' = 0 /\ m_checked_idx' = 0 /\ m_start_line' = 0 /\ inbox' = <<>>
      /\ m_check_state' = "REQUESTLINE" /\ pc' = "armed"
      /\ m_method' = "GET" /\ m_linger' = FALSE /\ m_content_length' = 0 /\ m_string' = <<>>
  BY <1>1 DEF Ask, Idle
<1>4. Stream(r) \in Seq(Cells)
  BY StreamIs DEF Shape
<1>5. ParseTypeOK'
  BY <1>1, <1>3, <1>4 DEF Ask, ParseTypeOK
<1>6. PICK L, B, b : L = Len(Stream(r)) /\ B = 3 * Len(r.headers) + 5 /\ b = Len(r.body)
  OBVIOUS
<1>7. L \in Nat /\ B \in Nat /\ b \in Nat /\ L >= b + 4
  BY <1>6, LengthIs
<1>8. /\ Length' = L /\ BodyAt' = B /\ BodyLength' = b /\ request' = r
      /\ Len(unsent') = L /\ Len(inbox') = 0
  BY <1>1, <1>3, <1>6 DEF Length, BodyLength, BodyAt, Ask
<1>9. Flowing' /\ Cutting'
  <2>1. 0 + 0 + L = L /\ (\A i \in 1..L : 0 + 0 + i = i) /\ (\A i \in 1..0 : FALSE)
    BY <1>7
  <2>2. L \notin 1..b - 1 /\ 0 \notin B + 1..L - 1
    BY <1>7
  <2>3. Flowing'
    BY <1>1, <1>3, <1>8, <2>1 DEF Flowing
  <2>4. Cutting'
    BY <1>3, <1>8, <2>2 DEF Cutting
  <2> QED BY <2>3, <2>4
<1>10. Parsing'
  BY <1>3 DEF Parsing, Buffered, InRequestLine
<1>11. unsent' # <<>>
  BY <1>7, <1>8
<1> QED BY <1>1, <1>3, <1>5, <1>8, <1>9, <1>10, <1>11, ParseParameters
        DEF ParseIInv, Held, WaitsForMoreOnly

LEMMA SendHolds ==
    ASSUME ParseIInv, NEW n \in DOMAIN unsent, Send(n)
    PROVE  ParseIInv'
<1> USE DEF client, indices, parsed
<1>1. ParseTypeOK /\ request # NoRequest /\ request \in Requests /\ Held /\ pc # "closed"
  <2>1. unsent # <<>>
    BY DEF ParseIInv, ParseTypeOK
  <2>2. ParseTypeOK /\ pc # "closed" /\ (IF request = NoRequest THEN Idle ELSE Held)
    BY DEF ParseIInv, Send
  <2>3. request # NoRequest
    BY <2>1, <2>2 DEF Idle
  <2> QED BY <2>2, <2>3 DEF ParseTypeOK
<1>2. PICK u, v, U, V : u = unsent /\ v = inbox /\ U = unsent' /\ V = inbox'
  OBVIOUS
<1>3. /\ u \in Seq(Cells) /\ v \in Seq(Cells) /\ n \in 1..Len(u)
      /\ V = v \o SubSeq(u, 1, n) /\ U = SubSeq(u, n + 1, Len(u))
  BY <1>1, <1>2 DEF Send, ParseTypeOK
<1>4. /\ U \in Seq(Cells) /\ Len(U) = Len(u) - n /\ \A i \in 1..Len(u) - n : U[i] = u[n + i]
  BY <1>3
<1>5. PICK w : w = SubSeq(u, 1, n)
  OBVIOUS
<1>6. w \in Seq(Cells) /\ Len(w) = n /\ \A i \in 1..n : w[i] = u[i]
  BY <1>3, <1>5
<1>7. /\ V \in Seq(Cells) /\ Len(V) = Len(v) + Len(w)
      /\ \A i \in 1..Len(v) : V[i] = v[i]
      /\ \A i \in 1..Len(w) : V[Len(v) + i] = w[i]
  <2>1. V = v \o w
    BY <1>3, <1>5
  <2> QED BY <1>3, <1>6, <2>1, Joined
<1>8. PICK R, s : R = m_read_idx /\ s = Stream(request)
  OBVIOUS
<1>9. /\ R \in Nat /\ Len(v) \in Nat /\ Len(u) \in Nat /\ n \in 1..Len(u) /\ Len(s) \in Nat
      /\ R + Len(v) + Len(u) = Len(s)
      /\ \A i \in 1..Len(v) : v[i] = s[R + i]
      /\ \A i \in 1..Len(u) : u[i] = s[R + Len(v) + i]
  BY <1>1, <1>2, <1>3, <1>8, Types, AskedIs DEF Held, Flowing, Length
<1>10. /\ R + Len(V) + Len(U) = Len(s) /\ Len(V) \in Nat /\ Len(V) > 0
       /\ Len(V) = Len(v) + n /\ Len(U) = Len(u) - n
  <2>1. Len(V) = Len(v) + n /\ Len(U) = Len(u) - n
    BY <1>4, <1>6, <1>7
  <2> QED BY <1>9, <2>1
<1>11. ASSUME NEW i \in 1..Len(V)
       PROVE  V[i] = s[R + i]
  <2>1. CASE i <= Len(v)
    BY <1>7, <1>9, <1>10, <2>1
  <2>2. CASE i > Len(v)
    <3>1. PICK j : j = i - Len(v)
      OBVIOUS
    <3>2. j \in 1..n /\ j \in 1..Len(u) /\ j \in 1..Len(w) /\ i = Len(v) + j /\ R + i = R + Len(v) + j
      <4>1. PICK lu, lv, lw, lV : lu = Len(u) /\ lv = Len(v) /\ lw = Len(w) /\ lV = Len(V)
        OBVIOUS
      <4>2. /\ lu \in Nat /\ lv \in Nat /\ n \in 1..lu /\ lw = n /\ lV = lv + n /\ R \in Nat
            /\ i \in 1..lV /\ i > lv
        BY <1>6, <1>9, <1>10, <2>2, <4>1
      <4>3. j \in 1..n /\ j \in 1..lu /\ j \in 1..lw /\ i = lv + j /\ R + i = R + lv + j
        BY <3>1, <4>1, <4>2
      <4> QED BY <4>1, <4>3
    <3>3. V[i] = w[j] /\ w[j] = u[j] /\ u[j] = s[R + Len(v) + j]
      BY <1>6, <1>7, <1>9, <3>2
    <3> QED BY <3>2, <3>3
  <2> QED BY <1>9, <1>10, <2>1, <2>2
<1>12. ASSUME NEW i \in 1..Len(U)
       PROVE  U[i] = s[R + Len(V) + i]
  <2>1. i \in 1..Len(u) - n /\ n + i \in 1..Len(u) /\ R + Len(v) + (n + i) = R + Len(V) + i
    <3>1. PICK lu, lv, lU, lV : lu = Len(u) /\ lv = Len(v) /\ lU = Len(U) /\ lV = Len(V)
      OBVIOUS
    <3>2. /\ lu \in Nat /\ lv \in Nat /\ n \in 1..lu /\ R \in Nat
          /\ lV = lv + n /\ lU = lu - n /\ i \in 1..lU
      BY <1>9, <1>10, <3>1
    <3>3. i \in 1..lu - n /\ n + i \in 1..lu /\ R + lv + (n + i) = R + lV + i
      BY <3>2
    <3> QED BY <3>1, <3>3
  <2> QED BY <1>4, <1>9, <2>1
<1>13. /\ pc' = pc /\ request' = request /\ m_read_idx' = R /\ m_read_buf' = m_read_buf
       /\ m_checked_idx' = m_checked_idx /\ m_start_line' = m_start_line
       /\ m_check_state' = m_check_state /\ line_status' = line_status
       /\ m_method' = m_method /\ m_linger' = m_linger
       /\ m_content_length' = m_content_length /\ m_string' = m_string /\ ret' = ret
       /\ m_TRIGMode' = m_TRIGMode
  BY <1>8 DEF Send
<1>14. /\ bodyCut => bodyCut'
       /\ bodyCut' \in BOOLEAN
       /\ Len(u) - n \in 1..BodyLength - 1 => bodyCut'
  BY <1>2 DEF Send, BodyLength
<1>15. ParseTypeOK'
  <2>1. inbox' \in Seq(Cells) /\ unsent' \in Seq(Cells)
    BY <1>2, <1>4, <1>7
  <2> QED BY <1>1, <1>8, <1>13, <1>14, <2>1 DEF ParseTypeOK
<1>16. /\ Length' = Length /\ BodyLength' = BodyLength /\ BodyAt' = BodyAt /\ (Crlf' <=> Crlf)
       /\ Stream(request)' = s
  BY <1>8, <1>13 DEF Length, BodyLength, BodyAt, Crlf
<1>17. Flowing'
  BY <1>2, <1>8, <1>10, <1>11, <1>12, <1>13, <1>16 DEF Flowing, Length
<1>18. Cutting'
  <2>1. Len(U) \in 1..BodyLength - 1 => bodyCut'
    BY <1>4, <1>14
  <2>2. Cutting
    BY <1>1 DEF Held
  <2> QED BY <1>2, <1>8, <1>13, <1>14, <1>16, <2>1, <2>2 DEF Cutting
<1>19. pc \in {"armed", "loop"} => Parsing'
  <2>1. SUFFICES ASSUME pc \in {"armed", "loop"} PROVE Parsing'
    OBVIOUS
  <2>2. Parsing
    BY <1>1, <2>1 DEF Held
  <2>3. Buffered' /\ m_string' = <<>>
    BY <1>8, <1>13, <1>16, <2>2 DEF Parsing, Buffered
  <2>4. InRequestLine => InRequestLine'
    BY <1>13 DEF InRequestLine
  <2>5. Accepted => Accepted'
    BY <1>13, <1>16 DEF Accepted
  <2>6. \A k \in 0..Len(request.headers) : Headers(k) => Headers(k)'
    BY <1>13 DEF Headers
  <2>7. InBody => InBody'
    BY <1>8, <1>13, <1>14, <1>16 DEF InBody
  <2>8. CASE m_check_state = "REQUESTLINE"
    BY <1>13, <2>2, <2>3, <2>4, <2>8 DEF Parsing
  <2>9. CASE m_check_state = "HEADER"
    <3>1. PICK k \in 0..Len(request.headers) : Headers(k)
      BY <2>2, <2>9 DEF Parsing
    <3>2. Headers(k)'
      BY <2>6, <3>1
    <3>3. Accepted'
      BY <2>2, <2>5, <2>9 DEF Parsing
    <3> QED BY <1>13, <2>3, <2>9, <3>1, <3>2, <3>3 DEF Parsing
  <2>10. CASE m_check_state = "CONTENT"
    BY <1>13, <2>2, <2>3, <2>5, <2>7, <2>10 DEF Parsing
  <2> QED BY <1>1, <2>8, <2>9, <2>10 DEF ParseTypeOK
<1>20. pc = "done" => Told'
  BY <1>1, <1>8, <1>13, <1>16 DEF Held, Told, Outcome, Meaning
<1>21. WaitsForMoreOnly'
  <2>1. V # <<>>
    BY <1>7, <1>10
  <2> QED BY <1>2, <2>1 DEF WaitsForMoreOnly
<1> QED BY <1>1, <1>13, <1>15, <1>17, <1>18, <1>19, <1>20, <1>21 DEF ParseIInv, Held

LEMMA AcceptHolds ==
    ASSUME ParseIInv, Accept
    PROVE  ParseIInv'
<1>1. ParseTypeOK'
  <2>1. m_TRIGMode \in {0, 1}
    BY DEF ParseIInv, ParseTypeOK
  <2> QED BY <2>1, Fresh, ResetTypes DEF Accept, ParseTypeOK
<1>2. request' = NoRequest /\ Idle'
  BY DEF Accept, Reset, Idle
<1> QED BY <1>1, <1>2 DEF ParseIInv

LEMMA HangUpHolds ==
    ASSUME ParseIInv, HangUp
    PROVE  ParseIInv'
  BY ClosedHolds DEF ParseIInv, HangUp

LEMMA AnsweredHolds ==
    ASSUME ParseIInv, Answered
    PROVE  ParseIInv'
<1>1. CASE m_linger
  <2>1. ParseTypeOK /\ request # NoRequest /\ Held /\ request \in Requests
    BY DEF ParseIInv, Answered, Idle, ParseTypeOK
  <2>2. m_read_idx = Length /\ m_read_idx + Len(inbox) + Len(unsent) = Length
    BY <1>1, <2>1 DEF Held, Told, Flowing, Answered
  <2>3. inbox = <<>> /\ unsent = <<>>
    BY <2>1, <2>2, Types, AskedIs
  <2>4. ParseTypeOK'
    BY <1>1, <2>1, Fresh, ResetTypes DEF Answered, ParseTypeOK
  <2>5. request' = NoRequest /\ Idle'
    BY <1>1, <2>3 DEF Answered, Reset, Idle
  <2> QED BY <2>4, <2>5 DEF ParseIInv
<1>2. CASE ~m_linger
  BY <1>2, ClosedHolds DEF ParseIInv, Answered
<1> QED BY <1>1, <1>2

-----------------------------------------------------------------------------
(* read_once(). *)

LEMMA TakenIs ==
    ASSUME ParseTypeOK
    PROVE  /\ Taken \in 0..Len(inbox) /\ m_read_idx + Taken <= BufSize
           /\ Taken = Len(inbox) \/ m_read_idx + Taken = BufSize
  BY Types DEF Taken

LEMMA ReadHolds ==
    ASSUME ParseIInv, Read
    PROVE  ParseIInv'
<1>1. ParseTypeOK /\ request # NoRequest /\ request \in Requests /\ Held /\ pc = "armed"
  BY DEF ParseIInv, ParseTypeOK, Read, Idle
<1>2. PICK R, T, v, V, s : /\ R = m_read_idx /\ T = Taken /\ v = inbox /\ V = inbox'
                           /\ s = Stream(request)
  OBVIOUS
<1>3. /\ R \in Nat /\ v \in Seq(Cells) /\ Len(v) \in Nat /\ T \in 0..Len(v) /\ R + T <= BufSize
      /\ T = Len(v) \/ R + T = BufSize
      /\ BufSize \in Nat /\ Len(unsent) \in Nat
  BY <1>1, <1>2, Types, TakenIs DEF ParseTypeOK
<1>4. V \in Seq(Cells) /\ Len(V) = Len(v) - T /\ \A i \in 1..Len(v) - T : V[i] = v[T + i]
  <2>1. V = SubSeq(v, T + 1, Len(v))
    BY <1>2 DEF Read
  <2> QED BY <1>3, <2>1
<1>5. /\ m_read_idx' = R + T /\ request' = request /\ unsent' = unsent /\ bodyCut' = bodyCut
      /\ m_checked_idx' = m_checked_idx /\ m_start_line' = m_start_line
      /\ m_check_state' = m_check_state /\ line_status' = "LINE_OK"
      /\ m_method' = m_method /\ m_linger' = m_linger
      /\ m_content_length' = m_content_length /\ m_string' = m_string /\ ret' = ret
      /\ m_TRIGMode' = m_TRIGMode
  BY <1>2 DEF Read, parsed
<1>6. /\ m_read_buf' \in [0..BufSize - 1 -> Cells]
      /\ \A i \in 0..BufSize - 1 : m_read_buf'[i] = IF i \in R..R + T - 1 THEN v[i - R + 1]
                                                    ELSE m_read_buf[i]
  <2>1. m_read_buf' = [i \in 0..BufSize - 1 |->
                        IF i \in R..(R + T - 1) THEN v[i - R + 1] ELSE m_read_buf[i]]
    BY <1>2 DEF Read
  <2>2. m_read_buf \in [0..BufSize - 1 -> Cells]
    BY <1>1 DEF ParseTypeOK
  <2>3. \A i \in 0..BufSize - 1 : i \in R..(R + T - 1) => i - R + 1 \in 1..Len(v)
    BY <1>3
  <2>4. \A i \in 1..Len(v) : v[i] \in Cells
    BY <1>3
  <2> QED BY <2>1, <2>2, <2>3, <2>4
<1>7. ParseTypeOK'
  <2>1. m_read_idx' \in 0..BufSize
    BY <1>3, <1>5
  <2>2. m_checked_idx' \in 0..m_read_idx' /\ m_start_line' \in 0..m_checked_idx'
    BY <1>1, <1>2, <1>3, <1>5, Types
  <2>3. pc' \in {"armed", "loop", "done", "closed"}
    BY DEF Read
  <2> QED BY <1>1, <1>2, <1>4, <1>5, <1>6, <2>1, <2>2, <2>3 DEF ParseTypeOK
<1>8. /\ Length' = Length /\ BodyLength' = BodyLength /\ BodyAt' = BodyAt /\ (Crlf' <=> Crlf)
      /\ Stream(request)' = s /\ Length = Len(s)
  BY <1>2, <1>5 DEF Length, BodyLength, BodyAt, Crlf
<1>9. /\ R + Len(v) + Len(unsent) = Len(s)
      /\ \A i \in 1..Len(v) : v[i] = s[R + i]
      /\ \A i \in 1..Len(unsent) : unsent[i] = s[R + Len(v) + i]
  BY <1>1, <1>2 DEF Held, Flowing, Length
<1>10. Flowing'
  <2>1. R + T + Len(V) + Len(unsent) = Len(s) /\ R + T + Len(V) = R + Len(v)
    <3>1. PICK n, l, u, L : n = Len(v) /\ l = Len(V) /\ u = Len(unsent) /\ L = Len(s)
      OBVIOUS
    <3>2. n \in Nat /\ T \in 0..n /\ l = n - T /\ R \in Nat /\ u \in Nat /\ R + n + u = L
      BY <1>3, <1>4, <1>9, <3>1
    <3>3. R + T + l + u = L /\ R + T + l = R + n
      BY <3>2
    <3> QED BY <3>1, <3>3
  <2>2. \A i \in 1..Len(V) : V[i] = s[R + T + i]
    <3>1. ASSUME NEW i \in 1..Len(V)
          PROVE  V[i] = s[R + T + i]
      <4>1. i \in 1..Len(v) - T /\ T + i \in 1..Len(v) /\ R + (T + i) = R + T + i
        BY <1>3, <1>4
      <4> QED BY <1>4, <1>9, <4>1
    <3> QED BY <3>1
  <2> QED BY <1>2, <1>5, <1>8, <1>9, <2>1, <2>2 DEF Flowing
<1>11. Cutting'
  <2>1. Len(unsent) \in 1..BodyLength - 1 => bodyCut
    BY <1>1 DEF Held, Cutting
  <2>2. PICK L, B, b, u, n : L = Length /\ B = BodyAt /\ b = BodyLength /\ u = Len(unsent) /\ n = Len(v)
    OBVIOUS
  <2>3. /\ L \in Nat /\ B \in Nat /\ b \in Nat /\ (Crlf => L = B + b)
        /\ u \in Nat /\ n \in Nat /\ T \in Nat /\ R + n + u = L
        /\ T = n \/ R + T = BufSize
    BY <1>1, <1>3, <1>8, <1>9, <2>2, AskedIs
  <2>4. Crlf /\ R + T \in B + 1..L - 1 => u \in 1..b - 1 \/ R + T = BufSize
    BY <1>3, <2>3
  <2> QED BY <1>5, <1>8, <2>1, <2>2, <2>4 DEF Cutting
<1>12. ASSUME pc' = "loop"
       PROVE  Parsing'
  <2>1. R < BufSize /\ Parsing
    BY <1>1, <1>2, <1>12 DEF Read, ReadSucceeds, Held
  <2>2. Buffered'
    <3>1. ASSUME NEW i \in m_start_line..R + T - 1
          PROVE  m_read_buf'[i] = s[i + 1]
      <4>1. i \in 0..BufSize - 1 /\ i \in Int
        BY <1>1, <1>3, Types
      <4>2. CASE i < R
        <5>1. i \in m_start_line..R - 1 /\ i \notin R..R + T - 1
          BY <1>1, <1>3, <4>2, Types
        <5>2. m_read_buf[i] = s[i + 1]
          BY <1>2, <2>1, <5>1 DEF Parsing, Buffered
        <5> QED BY <1>6, <4>1, <5>1, <5>2
      <4>3. CASE i >= R
        <5>1. i \in R..R + T - 1 /\ i - R + 1 \in 1..Len(v) /\ R + (i - R + 1) = i + 1
          BY <1>3, <4>1, <4>3
        <5> QED BY <1>6, <1>9, <4>1, <5>1
      <4> QED BY <1>3, <4>1, <4>2, <4>3
    <3>2. PICK st, R1, m : st = m_start_line' /\ R1 = m_read_idx' /\ m = m_read_buf'
      OBVIOUS
    <3>3. st = m_start_line /\ R1 = R + T
      BY <1>5, <3>2
    <3>4. \A i \in st..R1 - 1 : m[i] = s[i + 1]
      <4>1. \A i \in m_start_line..R + T - 1 : m[i] = s[i + 1]
        BY <3>1, <3>2
      <4>2. st = m_start_line /\ R1 - 1 = R + T - 1
        BY <1>3, <3>3
      <4> QED BY <4>1, <4>2
    <3> QED BY <1>8, <3>2, <3>4 DEF Buffered
  <2>3. InRequestLine => InRequestLine'
    BY <1>5 DEF InRequestLine
  <2>4. Accepted => Accepted'
    BY <1>5, <1>8 DEF Accepted
  <2>5. \A k \in 0..Len(request.headers) : Headers(k) => Headers(k)'
    BY <1>5 DEF Headers
  <2>6. InBody => InBody'
    <3>1. ~(R = BufSize)
      BY <1>3, <2>1
    <3> QED BY <1>2, <1>5, <1>8, <3>1 DEF InBody
  <2>7. m_string' = <<>>
    BY <1>5, <2>1 DEF Parsing
  <2>8. CASE m_check_state = "REQUESTLINE"
    BY <1>5, <2>1, <2>2, <2>3, <2>7, <2>8 DEF Parsing
  <2>9. CASE m_check_state = "HEADER"
    <3>1. PICK k \in 0..Len(request.headers) : Headers(k)
      BY <2>1, <2>9 DEF Parsing
    <3>2. Headers(k)'
      BY <2>5, <3>1
    <3>3. Accepted'
      BY <2>1, <2>4, <2>9 DEF Parsing
    <3> QED BY <1>5, <2>2, <2>7, <2>9, <3>1, <3>2, <3>3 DEF Parsing
  <2>10. CASE m_check_state = "CONTENT"
    BY <1>5, <2>1, <2>2, <2>4, <2>6, <2>7, <2>10 DEF Parsing
  <2> QED BY <1>1, <2>8, <2>9, <2>10 DEF ParseTypeOK
<1>13. pc' \in {"loop", "closed"}
  BY DEF Read
<1> QED BY <1>1, <1>5, <1>7, <1>10, <1>11, <1>12, <1>13 DEF ParseIInv, Held, WaitsForMoreOnly

-----------------------------------------------------------------------------
(* process_read(). *)

LEMMA InLoop ==
    ASSUME ParseIInv, pc = "loop"
    PROVE  /\ ParseTypeOK /\ request \in Requests /\ request # NoRequest
           /\ Held /\ Parsing /\ Buffered /\ m_read_idx <= Length
<1>1. ParseTypeOK /\ request \in Requests /\ request # NoRequest /\ Held
  BY DEF ParseIInv, Idle, ParseTypeOK
<1>2. Parsing /\ m_read_idx <= Length
  BY <1>1, WaitingIs DEF Held
<1> QED BY <1>1, <1>2 DEF Parsing

LEMMA Unmoved ==
    ASSUME Held, UNCHANGED <<client, m_read_idx>>
    PROVE  /\ Flowing' /\ Cutting' /\ Length' = Length /\ BodyLength' = BodyLength
           /\ BodyAt' = BodyAt /\ (Crlf' <=> Crlf) /\ Stream(request)' = Stream(request)
           /\ request' = request /\ bodyCut' = bodyCut
<1>1. request' = request /\ bodyCut' = bodyCut /\ inbox' = inbox /\ unsent' = unsent
  BY DEF client
<1>2. /\ Length' = Length /\ BodyLength' = BodyLength
      /\ BodyAt' = BodyAt /\ (Crlf' <=> Crlf) /\ Stream(request)' = Stream(request)
  BY <1>1 DEF Length, BodyLength, BodyAt, Crlf
<1>3. Flowing' /\ Cutting'
  BY <1>1, <1>2 DEF Held, Flowing, Cutting
<1> QED BY <1>1, <1>2, <1>3

\* m_start_line and m_checked_idx go on to the end of a line, and from there on the buffer stays.
LEMMA Advanced ==
    ASSUME ParseTypeOK, Buffered, UNCHANGED <<client, m_read_idx>>, NEW e \in Nat,
           m_checked_idx <= e, e + 2 <= m_read_idx, Line = Complete(e + 2),
           TakeLine, m_read_buf' = Ended
    PROVE  /\ Buffered' /\ m_start_line' = e + 2 /\ m_checked_idx' = e + 2
           /\ m_read_buf' \in [0..BufSize - 1 -> Cells]
           /\ m_read_idx' \in 0..BufSize /\ m_checked_idx' \in 0..m_read_idx'
           /\ m_start_line' \in 0..m_checked_idx'
           /\ \A i \in 0..BufSize - 1 :
                Ended[i] = IF i \in {e, e + 1} THEN NUL ELSE m_read_buf[i]
<1>1. PICK R, s : R = m_read_idx /\ s = Stream(request)
  OBVIOUS
<1>2. /\ R \in Nat /\ R <= BufSize /\ BufSize \in Nat /\ e + 2 <= R
      /\ m_start_line \in Nat /\ m_checked_idx \in Nat /\ m_start_line <= m_checked_idx
  BY <1>1, Types
<1>3. m_read_buf \in [0..BufSize - 1 -> Cells]
  BY DEF ParseTypeOK
<1>4. /\ Ended = [m_read_buf EXCEPT ![e] = NUL, ![e + 1] = NUL]
      /\ Ended \in [0..BufSize - 1 -> Cells] /\ Line.at = e + 2
  BY <1>2, <1>3, EndedIs
<1>5. \A i \in 0..BufSize - 1 : Ended[i] = IF i \in {e, e + 1} THEN NUL ELSE m_read_buf[i]
  BY <1>3, <1>4
<1>6. m_start_line' = e + 2 /\ m_checked_idx' = e + 2 /\ m_read_idx' = R /\ request' = request
  BY <1>1, <1>4 DEF TakeLine, client
<1>7. ASSUME NEW i \in e + 2..R - 1
      PROVE  m_read_buf'[i] = s[i + 1]
  <2>1. i \in 0..BufSize - 1 /\ i \notin {e, e + 1} /\ i \in m_start_line..R - 1
    BY <1>2
  <2>2. m_read_buf[i] = s[i + 1]
    BY <1>1, <2>1 DEF Buffered
  <2> QED BY <1>5, <2>1, <2>2
<1>8. Buffered'
  BY <1>1, <1>6, <1>7 DEF Buffered
<1>9. /\ m_read_idx' \in 0..BufSize /\ m_checked_idx' \in 0..m_read_idx'
      /\ m_start_line' \in 0..m_checked_idx'
  BY <1>2, <1>6
<1> QED BY <1>4, <1>5, <1>6, <1>8, <1>9

LEMMA NeedMoreHolds ==
    ASSUME ParseIInv, NeedMore
    PROVE  ParseIInv'
<1>1. /\ ParseTypeOK /\ request \in Requests /\ request # NoRequest
      /\ Held /\ Parsing /\ Buffered /\ m_read_idx <= Length
  BY InLoop DEF NeedMore
<1>2. PICK R, L, B, b, c, st : /\ R = m_read_idx /\ L = Length /\ B = BodyAt /\ b = BodyLength
                               /\ c = m_checked_idx /\ st = m_start_line
  OBVIOUS
<1>3. /\ R \in Nat /\ L \in Nat /\ B \in Nat /\ b \in Nat /\ c \in Nat /\ st \in Nat
      /\ st <= c /\ c <= R /\ R <= L /\ (Crlf => L = B + b) /\ L >= b + 4
  BY <1>1, <1>2, Types, AskedIs
<1>4. /\ Flowing' /\ Cutting' /\ Length' = L /\ BodyLength' = b
      /\ BodyAt' = B /\ (Crlf' <=> Crlf) /\ Stream(request)' = Stream(request)
      /\ request' = request /\ bodyCut' = bodyCut
  <2>1. UNCHANGED <<client, m_read_idx>>
    BY DEF NeedMore
  <2> QED BY <1>1, <1>2, <2>1, Unmoved
<1>5. /\ pc' = "armed" /\ m_checked_idx' = Line.at /\ m_read_idx' = R /\ m_start_line' = st
      /\ m_read_buf' = m_read_buf /\ m_check_state' = m_check_state
      /\ m_method' = m_method /\ m_linger' = m_linger
      /\ m_content_length' = m_content_length /\ m_string' = m_string
      /\ Line.status # "LINE_OK" /\ line_status' = Line.status /\ ret' = "NO_REQUEST"
      /\ m_TRIGMode' = m_TRIGMode /\ inbox' = inbox /\ unsent' = unsent
  BY <1>2 DEF NeedMore, parsed, client
<1>6. Buffered' /\ m_string' = <<>>
  BY <1>1, <1>2, <1>4, <1>5 DEF Buffered, Parsing
<1>7. \* What is enough for each state.
      ASSUME Line.at \in c..R, Line.status \in {"LINE_OPEN", "LINE_BAD"},
             Plain => R < L,
             CASE m_check_state = "REQUESTLINE" -> InRequestLine'
               [] m_check_state = "HEADER" ->
                    Accepted' /\ \E k \in 0..Len(request.headers) : Headers(k)'
               [] m_check_state = "CONTENT" -> Accepted' /\ InBody'
      PROVE  ParseIInv'
  <2>1. ParseTypeOK'
    <3>1. m_checked_idx' \in 0..m_read_idx' /\ m_start_line' \in 0..m_checked_idx'
      BY <1>3, <1>5, <1>7
    <3>2. m_read_idx' = m_read_idx
      BY <1>2, <1>5
    <3> QED BY <1>1, <1>4, <1>5, <1>7, <3>1, <3>2 DEF ParseTypeOK
  <2>2. Parsing'
    <3>1. CASE m_check_state = "REQUESTLINE"
      BY <1>5, <1>6, <1>7, <3>1 DEF Parsing
    <3>2. CASE m_check_state = "HEADER"
      <4>1. PICK k \in 0..Len(request.headers) : Headers(k)'
        BY <1>7, <3>2
      <4>2. Accepted' /\ m_check_state' = "HEADER" /\ k \in 0..Len(request'.headers)
        BY <1>4, <1>5, <1>7, <3>2
      <4> QED BY <1>6, <4>1, <4>2 DEF Parsing
    <3>3. CASE m_check_state = "CONTENT"
      BY <1>5, <1>6, <1>7, <3>3 DEF Parsing
    <3> QED BY <1>1, <3>1, <3>2, <3>3 DEF ParseTypeOK
  <2>3. WaitsForMoreOnly'
    <3>1. Plain => unsent # <<>> \/ inbox # <<>>
      <4>1. R < L => unsent # <<>> \/ inbox # <<>>
        <5>1. R + Len(inbox) + Len(unsent) = L
          BY <1>1, <1>2 DEF Held, Flowing
        <5> QED BY <1>1, <1>3, <5>1, Types
      <4> QED BY <1>7, <4>1
    <3> QED BY <1>4, <1>5, <3>1 DEF WaitsForMoreOnly, Plain
  <2> QED BY <1>1, <1>4, <1>5, <2>1, <2>2, <2>3 DEF ParseIInv, Held
<1>8. CASE m_check_state = "REQUESTLINE"
  <2>1. InRequestLine
    BY <1>1, <1>8 DEF Parsing
  <2>2. /\ Crlf => Line = IF R <= 1 THEN Open(R) ELSE IF R = 2 THEN Open(1) ELSE Complete(3)
        /\ Line.at \in c..R /\ Line.at \in 0..1 /\ Line.status \in {"LINE_OPEN", "LINE_BAD"}
    BY <1>1, <1>2, <1>5, <1>8, <2>1, InRequestLineIs
  <2>3. Plain => R < L
    <3>1. Crlf => R <= 2
      BY <1>3, <1>5, <2>2 DEF Complete
    <3> QED BY <1>3, <3>1 DEF Plain, Crlf
  <2>4. InRequestLine'
    BY <1>2, <1>5, <2>1, <2>2 DEF InRequestLine
  <2> QED BY <1>7, <1>8, <2>2, <2>3, <2>4
<1>9. CASE m_check_state = "HEADER"
  <2>1. Accepted /\ \E k \in 0..Len(request.headers) : Headers(k)
    BY <1>1, <1>9 DEF Parsing
  <2>2. PICK k \in 0..Len(request.headers) : Headers(k)
    BY <2>1
  <2>3. PICK e : e = EndOf(k)
    OBVIOUS
  <2>4. /\ e \in Nat /\ e + 2 <= L
        /\ Line = IF R <= e THEN Open(R) ELSE IF R = e + 1 THEN Open(e) ELSE Complete(e + 2)
    BY <1>1, <1>2, <1>9, <2>1, <2>2, <2>3, InHeaderIs DEF Accepted
  <2>5. c \in st..e
    BY <1>2, <2>2, <2>3 DEF Headers, EndOf
  <2>6. R <= e + 1 /\ Line \in {Open(R), Open(e)} /\ (R <= e => Line = Open(R)) /\ (R > e => Line = Open(e))
    BY <1>3, <1>5, <2>4 DEF Complete
  <2>7. Line.at \in c..R /\ Line.at \in st..e /\ Line.status = "LINE_OPEN"
    <3>1. CASE R <= e
      <4>1. Line.at = R /\ Line.status = "LINE_OPEN"
        BY <2>6, <3>1 DEF Open
      <4> QED BY <1>3, <2>4, <2>5, <3>1, <4>1
    <3>2. CASE R > e
      <4>1. Line.at = e /\ Line.status = "LINE_OPEN"
        BY <2>6, <3>2 DEF Open
      <4> QED BY <1>3, <2>4, <2>5, <3>2, <4>1
    <3> QED BY <1>3, <2>4, <3>1, <3>2
  <2>8. R < L
    BY <1>3, <2>4, <2>6
  <2>9. Headers(k)'
    <3>1. m_checked_idx' \in m_start_line'..e
      BY <1>5, <2>7
    <3>2. e = IF k < Len(request'.headers) THEN m_start_line' + 1 ELSE m_start_line'
      BY <1>2, <1>4, <1>5, <2>3 DEF EndOf
    <3>3. m_start_line' = m_start_line
      BY <1>2, <1>5
    <3> QED BY <1>4, <1>5, <2>2, <3>1, <3>2, <3>3 DEF Headers
  <2>10. Accepted'
    BY <1>4, <1>5, <2>1 DEF Accepted
  <2> QED BY <1>7, <1>9, <2>7, <2>8, <2>9, <2>10
<1>10. CASE m_check_state = "CONTENT"
  <2>1. Accepted /\ InBody /\ Crlf
    BY <1>1, <1>10 DEF Parsing, Accepted
  <2>2. /\ line_status = "LINE_OK" => Line = Complete(c)
        /\ line_status # "LINE_OK" =>
             Line.at \in c..R /\ Line.status \in {"LINE_OK", "LINE_OPEN", "LINE_BAD"}
    BY <1>1, <1>2, <1>10, InBodyIs
  <2>3. line_status # "LINE_OK" /\ Line.at \in c..R /\ Line.status \in {"LINE_OPEN", "LINE_BAD"}
    BY <1>5, <2>2 DEF Complete
  <2>4. R < b + c /\ (c > B => bodyCut \/ (R = BufSize /\ R < L)) /\ st >= B
    BY <1>2, <2>1, <2>3 DEF InBody, NeedMore
  <2>5. ~bodyCut => R < L
    BY <1>3, <2>1, <2>4
  <2>6. R > B => bodyCut \/ (R = BufSize /\ R < L)
    <3>1. R \in B + 1..L - 1 => bodyCut \/ R = BufSize
      BY <1>1, <1>2, <2>1 DEF Held, Cutting
    <3> QED BY <1>3, <2>5, <3>1
  <2>7. InBody'
    <3>1. Line.at > B => R > B
      BY <1>3, <2>3
    <3> QED BY <1>2, <1>4, <1>5, <2>1, <2>4, <2>6, <3>1 DEF InBody
  <2>8. Accepted'
    BY <1>4, <1>5, <2>1 DEF Accepted
  <2>9. Line.at \in c..R
    BY <2>3
  <2>10. Plain => R < L
    BY <2>5 DEF Plain
  <2> QED BY <1>7, <1>10, <2>3, <2>7, <2>8, <2>9, <2>10
<1> QED BY <1>1, <1>8, <1>9, <1>10 DEF ParseTypeOK

LEMMA RequestLineHolds ==
    ASSUME ParseIInv, RequestLine, pc = "loop"
    PROVE  ParseIInv'
<1>1. /\ ParseTypeOK /\ request \in Requests /\ request # NoRequest
      /\ Held /\ Parsing /\ Buffered /\ m_read_idx <= Length /\ m_check_state = "REQUESTLINE"
      /\ InRequestLine /\ m_string = <<>>
  BY InLoop DEF RequestLine, Parsing
<1>2. UNCHANGED <<client, m_read_idx>> /\ TakeLine /\ m_read_buf' = Ended
  BY DEF RequestLine
<1>3. /\ Flowing' /\ Cutting' /\ (Crlf' <=> Crlf) /\ request' = request /\ bodyCut' = bodyCut
      /\ inbox' = inbox /\ unsent' = unsent /\ m_read_idx' = m_read_idx
  BY <1>1, <1>2, Unmoved DEF client
<1>4. Crlf /\ Line = Complete(1 + 2) /\ 1 + 2 <= m_read_idx /\ 1 \in Nat /\ m_checked_idx <= 1
  <2>1. Line.status = "LINE_OK"
    BY <1>2 DEF TakeLine
  <2>2. /\ Crlf /\ m_read_idx \in Nat /\ m_checked_idx <= 1
        /\ Line = IF m_read_idx <= 1 THEN Open(m_read_idx)
                  ELSE IF m_read_idx = 2 THEN Open(1) ELSE Complete(3)
    <3>1. /\ Crlf => Line = IF m_read_idx <= 1 THEN Open(m_read_idx)
                       ELSE IF m_read_idx = 2 THEN Open(1) ELSE Complete(3)
          /\ Line.status = "LINE_OK" => Crlf
      BY <1>1, InRequestLineIs
    <3>2. m_read_idx \in Nat /\ m_checked_idx <= 1
      BY <1>1, Types DEF InRequestLine
    <3> QED BY <2>1, <3>1, <3>2
  <2>3. m_read_idx > 2 /\ Line = Complete(3)
    BY <2>1, <2>2 DEF Open
  <2> QED BY <2>2, <2>3
<1>5. /\ Buffered' /\ m_start_line' = 3 /\ m_checked_idx' = 3
      /\ m_read_buf' \in [0..BufSize - 1 -> Cells]
      /\ m_read_idx' \in 0..BufSize /\ m_checked_idx' \in 0..m_read_idx'
      /\ m_start_line' \in 0..m_checked_idx'
      /\ \A i \in 0..BufSize - 1 :
           Ended[i] = IF i \in {1, 2} THEN NUL ELSE m_read_buf[i]
  <2>1. 1 + 2 = 3 /\ 1 + 1 = 2
    OBVIOUS
  <2> QED BY <1>1, <1>2, <1>4, <2>1, Advanced
<1>6. Text = request.line
  <2>1. m_start_line = 0 /\ 0 \in 0..BufSize - 1 /\ 0 \in 0..m_read_idx - 1 /\ 0 \notin {1, 2}
    BY <1>1, <1>4, Types DEF InRequestLine
  <2>2. m_read_buf[0] = Stream(request)[0 + 1] /\ 0 + 1 = 1
    BY <1>1, <2>1 DEF Buffered
  <2>3. Stream(request)[1] = request.line
    BY <1>1, StreamIs DEF Shape
  <2> QED BY <1>5, <2>1, <2>2, <2>3 DEF Text
<1>7. m_method = "GET" /\ m_linger = FALSE /\ m_content_length = 0
  BY <1>1 DEF InRequestLine
<1>8. CASE request.line \in {"get", "post"}
  <2>1. /\ m_method' = IF request.line = "post" THEN "POST" ELSE "GET"
        /\ m_check_state' = "HEADER" /\ line_status' = "LINE_OK" /\ pc' = pc /\ ret' = ret
        /\ m_linger' = FALSE /\ m_content_length' = 0 /\ m_string' = <<>>
        /\ m_TRIGMode' = m_TRIGMode
    BY <1>1, <1>6, <1>7, <1>8 DEF RequestLine, Continue
  <2>2. ParseTypeOK'
    BY <1>1, <1>3, <1>5, <2>1 DEF ParseTypeOK
  <2>3. Accepted'
    BY <1>3, <1>4, <1>8, <2>1 DEF Accepted
  <2>4. Headers(0)' /\ 0 \in 0..Len(request'.headers)
    <3>1. PICK h : h = request'.headers
      OBVIOUS
    <3>2. Len(h) \in Nat
      BY <1>1, <1>3, <3>1, RequestIs
    <3>3. Declared(h, 0) = 0 /\ Keeps(h, 0) = FALSE
      BY DeclaredNone, KeepsNext
    <3>4. 3 = 3 * 0 + 3 /\ 0 \in 0..Len(h) /\ 3 \in 3..(IF 0 < Len(h) THEN 3 + 1 ELSE 3)
      BY <3>2
    <3> QED BY <1>5, <2>1, <3>1, <3>3, <3>4 DEF Headers
  <2>5. Parsing'
    BY <1>5, <2>1, <2>3, <2>4 DEF Parsing
  <2> QED BY <1>1, <1>3, <2>1, <2>2, <2>5 DEF ParseIInv, Held, WaitsForMoreOnly
<1>9. CASE request.line \notin {"get", "post"}
  <2>1. /\ m_method' = "GET" /\ m_check_state' = m_check_state /\ line_status' = line_status
        /\ pc' = "done" /\ ret' = "BAD_REQUEST"
        /\ m_linger' = FALSE /\ m_content_length' = 0 /\ m_string' = <<>>
        /\ m_TRIGMode' = m_TRIGMode
    BY <1>1, <1>6, <1>7, <1>9 DEF RequestLine, Return
  <2>2. ParseTypeOK'
    BY <1>1, <1>3, <1>5, <2>1 DEF ParseTypeOK
  <2>3. request.line = "put"
    BY <1>1, <1>9, RequestIs
  <2>4. Told'
    BY <1>3, <2>1, <2>3 DEF Told, Outcome, Meaning
  <2> QED BY <1>1, <1>3, <2>1, <2>2, <2>4 DEF ParseIInv, Held, WaitsForMoreOnly
<1> QED BY <1>8, <1>9

\* A line of the headers is complete: it is header k + 1 if there is one, else the empty line.
LEMMA HeaderLine ==
    ASSUME ParseIInv, pc = "loop", m_check_state = "HEADER", UNCHANGED <<client, m_read_idx>>,
           TakeLine, m_read_buf' = Ended, NEW k \in 0..Len(request.headers), Headers(k)
    PROVE  /\ Buffered' /\ m_start_line' = EndOf(k) + 2 /\ m_checked_idx' = EndOf(k) + 2
           /\ m_read_buf' \in [0..BufSize - 1 -> Cells]
           /\ m_read_idx' \in 0..BufSize /\ m_checked_idx' \in 0..m_read_idx'
           /\ m_start_line' \in 0..m_checked_idx' /\ EndOf(k) + 2 <= m_read_idx
           /\ k < Len(request.headers) => Text = request.headers[k + 1] /\ Text # NUL
           /\ ~(k < Len(request.headers)) => Text = NUL
<1>1. /\ ParseTypeOK /\ request \in Requests /\ Buffered /\ Crlf
      /\ m_read_idx \in Nat /\ m_start_line \in Nat /\ m_read_idx <= BufSize /\ BufSize \in Nat
      /\ m_checked_idx \in Nat
  BY InLoop, Types DEF Parsing, Accepted
<1>2. PICK e, R, st, m : /\ e = EndOf(k) /\ R = m_read_idx /\ st = m_start_line
                         /\ m = Len(request.headers)
  OBVIOUS
<1>3. /\ e \in Nat /\ CrlfAt(e)
      /\ Line = IF R <= e THEN Open(R) ELSE IF R = e + 1 THEN Open(e) ELSE Complete(e + 2)
      /\ k < m /\ st < R => m_read_buf[st] = request.headers[k + 1]
  BY <1>1, <1>2, InHeaderIs
<1>4. e + 2 <= R /\ Line = Complete(e + 2)
  <2>1. Line.status = "LINE_OK"
    BY DEF TakeLine
  <2>2. ~(R <= e) /\ R # e + 1
    BY <1>3, <2>1 DEF Open
  <2> QED BY <1>1, <1>2, <1>3, <2>2
<1>5. m_checked_idx <= e
  BY <1>3 DEF CrlfAt, NextEnd
<1>6. /\ Buffered' /\ m_start_line' = e + 2 /\ m_checked_idx' = e + 2
      /\ m_read_buf' \in [0..BufSize - 1 -> Cells]
      /\ m_read_idx' \in 0..BufSize /\ m_checked_idx' \in 0..m_read_idx'
      /\ m_start_line' \in 0..m_checked_idx'
      /\ \A i \in 0..BufSize - 1 :
           Ended[i] = IF i \in {e, e + 1} THEN NUL ELSE m_read_buf[i]
  BY <1>1, <1>2, <1>3, <1>4, <1>5, Advanced
<1>7. e = IF k < m THEN st + 1 ELSE st
  BY <1>2 DEF EndOf
<1>8. st \in 0..BufSize - 1 /\ st < R /\ st \in Nat
  BY <1>1, <1>2, <1>3, <1>4, <1>7
<1>9. ASSUME k < m
      PROVE  Text = request.headers[k + 1] /\ Text # NUL
  <2>1. st \notin {e, e + 1}
    BY <1>7, <1>8, <1>9
  <2>2. Text = m_read_buf[st]
    BY <1>2, <1>6, <1>8, <2>1 DEF Text
  <2>3. k + 1 \in 1..m
    BY <1>2, <1>9
  <2>4. request.headers[k + 1] # NUL
    BY <1>1, <1>2, <2>3, RequestIs
  <2> QED BY <1>3, <1>8, <1>9, <2>2, <2>4
<1>10. ASSUME ~(k < m)
       PROVE  Text = NUL
  BY <1>2, <1>6, <1>7, <1>8, <1>10 DEF Text
<1> QED BY <1>2, <1>4, <1>6, <1>9, <1>10

LEMMA HeaderHolds ==
    ASSUME ParseIInv, Header, pc = "loop"
    PROVE  ParseIInv'
<1>1. /\ ParseTypeOK /\ request \in Requests /\ request # NoRequest
      /\ Held /\ Parsing /\ m_check_state = "HEADER" /\ Accepted /\ m_string = <<>>
      /\ \E k \in 0..Len(request.headers) : Headers(k)
  BY InLoop DEF Header, Parsing
<1>2. UNCHANGED <<client, m_read_idx>> /\ TakeLine /\ m_read_buf' = Ended /\ Text # NUL
  BY DEF Header
<1>3. PICK k \in 0..Len(request.headers) : Headers(k)
  BY <1>1
<1>4. PICK h, m : h = request.headers /\ m = Len(h)
  OBVIOUS
<1>5. h \in Seq(Cells) /\ m \in Nat
  BY <1>1, <1>4, RequestIs
<1>6. /\ Buffered' /\ m_start_line' = EndOf(k) + 2 /\ m_checked_idx' = EndOf(k) + 2
      /\ m_read_buf' \in [0..BufSize - 1 -> Cells]
      /\ m_read_idx' \in 0..BufSize /\ m_checked_idx' \in 0..m_read_idx'
      /\ m_start_line' \in 0..m_checked_idx'
      /\ k < m => Text = h[k + 1]
      /\ ~(k < m) => Text = NUL
  BY <1>1, <1>2, <1>3, <1>4, HeaderLine
<1>7. k < m /\ k \in 0..m - 1 /\ k + 1 \in 0..m /\ k \in Nat /\ Text = h[k + 1]
  BY <1>2, <1>3, <1>4, <1>5, <1>6
<1>8. /\ m_linger' = (m_linger \/ Text = "keep")
      /\ m_content_length' = IF Text \in DOMAIN LengthHeaders THEN LengthHeaders[Text]
                             ELSE m_content_length
      /\ line_status' = "LINE_OK" /\ pc' = pc /\ ret' = ret
      /\ m_check_state' = m_check_state /\ m_method' = m_method /\ m_string' = m_string
      /\ m_TRIGMode' = m_TRIGMode
  BY DEF Header, Continue
<1>9. /\ Flowing' /\ Cutting' /\ (Crlf' <=> Crlf) /\ request' = request /\ bodyCut' = bodyCut
      /\ inbox' = inbox /\ unsent' = unsent /\ m_read_idx' = m_read_idx
  BY <1>1, <1>2, Unmoved DEF client
<1>10. m_linger' = Keeps(h, k + 1) /\ m_content_length' = Declared(h, k + 1)
  <2>1. m_linger = Keeps(h, k) /\ m_content_length = Declared(h, k)
    BY <1>3, <1>4 DEF Headers
  <2>2. m_linger' = Keeps(h, k + 1)
    <3>1. Keeps(h, k + 1) = (Keeps(h, k) \/ h[k + 1] = "keep")
      BY <1>7, KeepsNext
    <3> QED BY <1>7, <1>8, <2>1, <3>1, Zenon
  <2>3. Declared(h, k + 1) = IF h[k + 1] \in DOMAIN LengthHeaders
                             THEN LengthHeaders[h[k + 1]] ELSE Declared(h, k)
    BY <1>4, <1>5, <1>7, DeclaredNext
  <2> QED BY <1>7, <1>8, <2>1, <2>2, <2>3
<1>11. Headers(k + 1)'
  <2>1. m_start_line' = 3 * (k + 1) + 3 /\ m_checked_idx' = m_start_line'
    <3>1. EndOf(k) = m_start_line + 1 /\ m_start_line = 3 * k + 3
      BY <1>3, <1>4, <1>7 DEF EndOf, Headers
    <3> QED BY <1>6, <1>7, <3>1
  <2>2. PICK st : st = m_start_line'
    OBVIOUS
  <2>3. st \in st..(IF k + 1 < m THEN st + 1 ELSE st)
    BY <1>7, <2>1, <2>2
  <2> QED BY <1>4, <1>9, <1>10, <2>1, <2>2, <2>3 DEF Headers
<1>12. ParseTypeOK'
  <2>1. m_linger' \in BOOLEAN
    BY <1>8
  <2>2. m_content_length' \in Nat
    BY <1>1, <1>8, ParseParameters DEF ParseTypeOK
  <2> QED BY <1>1, <1>6, <1>8, <1>9, <2>1, <2>2 DEF ParseTypeOK
<1>13. Parsing'
  <2>1. Accepted'
    BY <1>1, <1>8, <1>9 DEF Accepted
  <2>2. k + 1 \in 0..Len(request'.headers)
    BY <1>4, <1>7, <1>9
  <2> QED BY <1>1, <1>6, <1>8, <1>11, <2>1, <2>2 DEF Parsing
<1> QED BY <1>1, <1>8, <1>9, <1>12, <1>13 DEF ParseIInv, Held, WaitsForMoreOnly

LEMMA EndOfHeadersHolds ==
    ASSUME ParseIInv, EndOfHeaders, pc = "loop"
    PROVE  ParseIInv'
<1>1. /\ ParseTypeOK /\ request \in Requests /\ request # NoRequest /\ m_read_idx <= Length
      /\ Held /\ Parsing /\ m_check_state = "HEADER" /\ Accepted /\ m_string = <<>> /\ Crlf
      /\ \E k \in 0..Len(request.headers) : Headers(k)
  BY InLoop DEF EndOfHeaders, Parsing, Accepted
<1>2. UNCHANGED <<client, m_read_idx>> /\ TakeLine /\ m_read_buf' = Ended /\ Text = NUL
  BY DEF EndOfHeaders
<1>3. PICK k \in 0..Len(request.headers) : Headers(k)
  BY <1>1
<1>4. PICK h, m, B, b, L, R : /\ h = request.headers /\ m = Len(h) /\ B = BodyAt
                              /\ b = BodyLength /\ L = Length /\ R = m_read_idx
  OBVIOUS
<1>5. /\ h \in Seq(Cells) /\ m \in Nat /\ B = 3 * m + 5 /\ B \in Nat /\ b \in Nat /\ L = B + b
      /\ R \in Nat /\ R <= L
  BY <1>1, <1>4, RequestIs, AskedIs, Types DEF BodyAt
<1>6. /\ Buffered' /\ m_start_line' = EndOf(k) + 2 /\ m_checked_idx' = EndOf(k) + 2
      /\ m_read_buf' \in [0..BufSize - 1 -> Cells]
      /\ m_read_idx' \in 0..BufSize /\ m_checked_idx' \in 0..m_read_idx'
      /\ m_start_line' \in 0..m_checked_idx' /\ EndOf(k) + 2 <= R
      /\ k < m => Text # NUL
  BY <1>1, <1>2, <1>3, <1>4, HeaderLine
<1>7. k = m
  BY <1>2, <1>3, <1>4, <1>5, <1>6
<1>8. EndOf(k) + 2 = B /\ B <= R
  <2>1. EndOf(k) = m_start_line /\ m_start_line = 3 * k + 3
    BY <1>3, <1>4, <1>5, <1>7 DEF EndOf, Headers
  <2> QED BY <1>5, <1>6, <1>7, <2>1
<1>9. m_linger = Keeps(h, m) /\ m_content_length = b
  <2>1. m_linger = Keeps(h, m) /\ m_content_length = Declared(h, m)
    BY <1>3, <1>4, <1>7 DEF Headers
  <2>2. b = Declared(h, m)
    BY <1>1, <1>4, RequestIs DEF BodyLength
  <2> QED BY <2>1, <2>2
<1>10. /\ Flowing' /\ Cutting' /\ (Crlf' <=> Crlf) /\ request' = request /\ bodyCut' = bodyCut
       /\ Length' = L /\ BodyAt' = B /\ BodyLength' = b
       /\ inbox' = inbox /\ unsent' = unsent /\ m_read_idx' = m_read_idx
  BY <1>1, <1>2, <1>4, Unmoved DEF client
<1>11. /\ m_method' = m_method /\ m_linger' = m_linger
       /\ m_content_length' = m_content_length /\ m_string' = <<>> /\ m_TRIGMode' = m_TRIGMode
  BY <1>1 DEF EndOfHeaders, parsed
<1>12. CASE b # 0
  <2>1. m_check_state' = "CONTENT" /\ line_status' = "LINE_OK" /\ pc' = pc /\ ret' = ret
    BY <1>9, <1>12 DEF EndOfHeaders, Continue
  <2>2. ParseTypeOK'
    BY <1>1, <1>6, <1>10, <1>11, <2>1 DEF ParseTypeOK
  <2>3. Accepted'
    BY <1>1, <1>10, <1>11 DEF Accepted
  <2>4. InBody'
    <3>1. B >= B /\ ~(B > B) /\ b > 0
      BY <1>5, <1>12
    <3> QED BY <1>4, <1>6, <1>8, <1>9, <1>10, <1>11, <2>1, <3>1 DEF InBody
  <2>5. Parsing'
    BY <1>6, <1>11, <2>1, <2>3, <2>4 DEF Parsing
  <2> QED BY <1>1, <1>10, <2>1, <2>2, <2>5 DEF ParseIInv, Held, WaitsForMoreOnly
<1>13. CASE b = 0
  <2>1. /\ m_check_state' = m_check_state /\ line_status' = line_status
        /\ pc' = "done" /\ ret' = "GET_REQUEST"
    BY <1>9, <1>13 DEF EndOfHeaders, Return
  <2>2. ParseTypeOK'
    BY <1>1, <1>6, <1>10, <1>11, <2>1 DEF ParseTypeOK
  <2>3. Told'
    <3>1. R = L
      BY <1>5, <1>8, <1>13
    <3>2. request.body = <<>>
      <4>1. PICK body : body = request.body
        OBVIOUS
      <4>2. body \in Seq(Cells) /\ Len(body) = 0
        BY <1>1, <1>4, <1>13, <4>1, RequestIs DEF BodyLength
      <4> QED BY <4>1, <4>2
    <3>3. m_linger = (\E i \in DOMAIN request.headers : request.headers[i] = "keep")
      BY <1>4, <1>5, <1>9 DEF Keeps
    <3>4. Meaning(request) = [code |-> "GET_REQUEST", method |-> m_method, linger |-> m_linger,
                              body |-> <<>>]
      BY <1>1, <3>2, <3>3 DEF Meaning, Accepted, Crlf
    <3> QED BY <1>4, <1>10, <1>11, <2>1, <3>1, <3>4 DEF Told, Outcome
  <2> QED BY <1>1, <1>10, <2>1, <2>2, <2>3 DEF ParseIInv, Held, WaitsForMoreOnly
<1> QED BY <1>12, <1>13

LEMMA ContentHolds ==
    ASSUME ParseIInv, Content, pc = "loop"
    PROVE  ParseIInv'
<1>1. /\ ParseTypeOK /\ request \in Requests /\ request # NoRequest /\ m_read_idx <= Length
      /\ Held /\ Parsing /\ Buffered /\ m_check_state = "CONTENT" /\ Accepted /\ m_string = <<>>
      /\ Crlf /\ InBody
  BY InLoop DEF Content, Parsing, Accepted
<1>2. UNCHANGED <<client, m_read_idx>> /\ Line.status = "LINE_OK"
  BY DEF Content, TakeLine
<1>3. PICK R, L, B, b, c, st, m, s : /\ R = m_read_idx /\ L = Length /\ B = BodyAt
                                  /\ b = BodyLength /\ c = m_checked_idx /\ st = m_start_line
                                  /\ m = Len(request.headers) /\ s = Stream(request)
  OBVIOUS
<1>4. /\ R \in Nat /\ L \in Nat /\ B \in Nat /\ b \in Nat /\ c \in Nat /\ st \in Nat
      /\ st <= c /\ c <= R /\ R <= L /\ L = B + b /\ m \in Nat /\ B = 3 * m + 5
      /\ R <= BufSize /\ BufSize \in Nat
  BY <1>1, <1>3, Types, AskedIs, RequestIs DEF BodyAt
<1>13. PICK a, buf : a = Line.at /\ buf = Ended
  OBVIOUS
<1>5. /\ a \in c..R /\ buf \in [0..BufSize - 1 -> Cells]
      /\ \A i \in a..R - 1 : buf[i] = m_read_buf[i]
      /\ a = c => buf = m_read_buf
      /\ a = c \/ line_status # "LINE_OK"
  <2>1. m_read_buf \in [0..BufSize - 1 -> Cells] /\ NUL \in Cells
    BY <1>1 DEF ParseTypeOK, Cells
  <2>2. CASE a = c
    <3>1. buf = m_read_buf
      BY <1>3, <1>13, <2>2 DEF Ended
    <3> QED BY <1>4, <2>1, <2>2, <3>1
  <2>3. CASE a # c
    <3>1. a \in c..R /\ a >= 2 /\ line_status # "LINE_OK"
      <4>1. line_status # "LINE_OK"
        BY <1>1, <1>3, <1>13, <2>3, InBodyIs DEF Complete
      <4> QED BY <1>1, <1>2, <1>3, <1>13, <4>1, InBodyIs
    <3>2. buf = [m_read_buf EXCEPT ![a - 2] = NUL, ![a - 1] = NUL]
      BY <1>3, <1>13, <2>3, Zenon DEF Ended
    <3>3. \A i \in a..R - 1 : i \in 0..BufSize - 1 /\ i # a - 2 /\ i # a - 1
      BY <1>4, <3>1
    <3> QED BY <2>1, <2>3, <3>1, <3>2, <3>3
  <2> QED BY <2>2, <2>3
<1>6. /\ m_checked_idx' = a /\ m_start_line' = a /\ m_read_idx' = R
      /\ m_check_state' = m_check_state /\ m_method' = m_method /\ m_linger' = m_linger
      /\ m_content_length' = m_content_length /\ m_TRIGMode' = m_TRIGMode
  BY <1>3, <1>13 DEF Content, TakeLine
<1>7. /\ Flowing' /\ Cutting' /\ (Crlf' <=> Crlf) /\ request' = request /\ bodyCut' = bodyCut
      /\ Length' = L /\ BodyAt' = B /\ BodyLength' = b /\ Stream(request)' = s
      /\ inbox' = inbox /\ unsent' = unsent
  BY <1>1, <1>2, <1>3, Unmoved DEF client
<1>8. /\ st >= B /\ m_linger = Keeps(request.headers, m) /\ m_content_length = b /\ b > 0
      /\ c > B => bodyCut \/ (R = BufSize /\ R < L)
      /\ line_status # "LINE_OK" => R < b + c
  BY <1>1, <1>3 DEF InBody, Content, TakeLine
<1>9. m_read_idx' \in 0..BufSize /\ m_checked_idx' \in 0..m_read_idx' /\ m_start_line' \in 0..m_checked_idx'
  BY <1>4, <1>5, <1>6
<1>11. CASE R >= b + a
  <2>1. BodyComplete
    BY <1>3, <1>8, <1>11, <1>13 DEF BodyComplete
  <2>2. a = c /\ c = B /\ st = B /\ R = L /\ buf = m_read_buf
    <3>1. a = c /\ c = B /\ st = B /\ R = L
      BY <1>4, <1>5, <1>8, <1>11
    <3> QED BY <1>5, <3>1
  <2>3. /\ m_read_buf' = IF st + b < BufSize THEN [buf EXCEPT ![st + b] = NUL] ELSE buf
        /\ m_string' = [i \in 1..b |-> buf[st + i - 1]]
        /\ pc' = "done" /\ ret' = "GET_REQUEST" /\ line_status' = line_status
    BY <1>3, <1>8, <1>13, <2>1 DEF Content, Return
  <2>4. m_read_buf' \in [0..BufSize - 1 -> Cells]
    <3>1. NUL \in Cells
      BY DEF Cells
    <3> QED BY <1>5, <2>3, <3>1
  <2>5. m_string' = request.body
    <3>1. PICK body : body = request.body
      OBVIOUS
    <3>2. /\ body \in Seq(Cells) /\ Len(body) = b
          /\ \A i \in 1..b : s[B + i] = body[i]
      <4>1. Shape(s, request) /\ Len(request.eol) = 2
        BY <1>1, <1>3, StreamIs DEF Crlf
      <4>2. \A i \in 1..Len(body) : s[3 * m + 5 + i] = body[i]
        BY <1>3, <3>1, <4>1 DEF Shape
      <4> QED BY <1>1, <1>3, <1>4, <3>1, <4>2, RequestIs DEF BodyLength
    <3>3. ASSUME NEW i \in 1..b
          PROVE  buf[st + i - 1] = body[i]
      <4>1. st + i - 1 \in st..R - 1 /\ st + i - 1 + 1 = B + i
        BY <1>4, <2>2
      <4>2. m_read_buf[st + i - 1] = s[st + i - 1 + 1]
        BY <1>1, <1>3, <4>1 DEF Buffered
      <4> QED BY <2>2, <3>2, <4>1, <4>2
    <3>4. body = [i \in 1..b |-> body[i]]
      BY <3>2
    <3> QED BY <2>3, <3>1, <3>3, <3>4
  <2>6. ParseTypeOK'
    <3>1. m_string' \in Seq(Cells)
      BY <1>1, <2>5, RequestIs
    <3> QED BY <1>1, <1>6, <1>7, <1>9, <2>3, <2>4, <3>1 DEF ParseTypeOK
  <2>7. Told'
    <3>1. m_linger = (\E i \in DOMAIN request.headers : request.headers[i] = "keep")
      <4>1. DOMAIN request.headers = 1..m
        BY <1>1, <1>3, RequestIs
      <4> QED BY <1>8, <4>1 DEF Keeps
    <3>2. Meaning(request) = [code |-> "GET_REQUEST", method |-> m_method, linger |-> m_linger,
                              body |-> request.body]
      BY <1>1, <3>1 DEF Meaning, Accepted, Crlf
    <3> QED BY <1>6, <1>7, <2>2, <2>3, <2>5, <3>2 DEF Told, Outcome
  <2> QED BY <1>1, <1>7, <2>3, <2>6, <2>7 DEF ParseIInv, Held, WaitsForMoreOnly
<1>12. CASE R < b + a
  <2>1. ~BodyComplete
    BY <1>3, <1>4, <1>5, <1>8, <1>12, <1>13 DEF BodyComplete
  <2>2. /\ m_read_buf' = buf /\ line_status' = "LINE_OPEN" /\ m_string' = <<>>
        /\ pc' = pc /\ ret' = ret
    BY <1>1, <1>13, <2>1 DEF Content
  <2>3. ParseTypeOK'
    BY <1>1, <1>5, <1>6, <1>7, <1>9, <2>2 DEF ParseTypeOK
  <2>4. Buffered'
    <3>1. ASSUME NEW i \in a..R - 1
          PROVE  buf[i] = s[i + 1]
      <4>1. i \in st..R - 1
        BY <1>4, <1>5
      <4> QED BY <1>1, <1>3, <1>5, <4>1 DEF Buffered
    <3> QED BY <1>6, <1>7, <2>2, <3>1 DEF Buffered
  <2>5. Accepted'
    BY <1>1, <1>6, <1>7 DEF Accepted
  <2>6. InBody'
    <3>1. a >= B
      BY <1>4, <1>5, <1>8
    <3>2. a > B => bodyCut \/ (R = BufSize /\ R < L)
      <4>1. c > B \/ R < L
        <5>1. R < b + c
          BY <1>5, <1>8, <1>12
        <5> QED BY <1>4, <1>8, <5>1
      <4>2. R \in B + 1..L - 1 => bodyCut \/ R = BufSize
        BY <1>1, <1>3 DEF Held, Cutting
      <4> QED BY <1>4, <1>5, <1>8, <4>1, <4>2
    <3> QED BY <1>3, <1>6, <1>7, <1>8, <1>12, <3>1, <3>2 DEF InBody
  <2>7. Parsing'
    BY <1>1, <1>6, <2>2, <2>4, <2>5, <2>6 DEF Parsing
  <2> QED BY <1>1, <1>7, <2>2, <2>3, <2>7 DEF ParseIInv, Held, WaitsForMoreOnly
<1> QED BY <1>4, <1>5, <1>11, <1>12

-----------------------------------------------------------------------------
LEMMA ParseStepHolds ==
    ASSUME ParseIInv, [ParseNext]_parseVars
    PROVE  ParseIInv'
<1>1. CASE UNCHANGED parseVars
  <2>1. /\ UNCHANGED <<m_TRIGMode, request, unsent, inbox, bodyCut, pc, m_read_buf, m_read_idx>>
        /\ UNCHANGED <<m_checked_idx, m_start_line, m_check_state, line_status, m_method>>
        /\ UNCHANGED <<m_linger, m_content_length, m_string, ret>>
    BY <1>1 DEF parseVars, client, indices, parsed
  <2>2. ParseTypeOK'
    BY <2>1 DEF ParseIInv, ParseTypeOK
  <2>3. Idle => Idle'
    BY <2>1 DEF Idle
  <2>4. ASSUME Held
        PROVE  Held'
    <3>1. /\ Flowing' /\ Cutting' /\ Length' = Length /\ BodyLength' = BodyLength
          /\ BodyAt' = BodyAt /\ (Crlf' <=> Crlf) /\ Stream(request)' = Stream(request)
      BY <2>1, <2>4, Unmoved DEF client
    <3>2. Told => Told'
      BY <2>1, <3>1 DEF Told, Outcome, Meaning
    <3>3. ASSUME Parsing
          PROVE  Parsing'
      <4>1. Buffered' /\ m_string' = <<>>
        BY <2>1, <3>1, <3>3 DEF Parsing, Buffered
      <4>2. InRequestLine => InRequestLine'
        BY <2>1 DEF InRequestLine
      <4>3. Accepted => Accepted'
        BY <2>1, <3>1 DEF Accepted
      <4>4. \A k \in 0..Len(request.headers) : Headers(k) => Headers(k)'
        BY <2>1 DEF Headers
      <4>5. InBody => InBody'
        BY <2>1, <3>1 DEF InBody
      <4>6. CASE m_check_state = "REQUESTLINE"
        BY <2>1, <3>3, <4>1, <4>2, <4>6 DEF Parsing
      <4>7. CASE m_check_state = "HEADER"
        <5>1. PICK k \in 0..Len(request.headers) : Headers(k)
          BY <3>3, <4>7 DEF Parsing
        <5>2. Headers(k)' /\ Accepted'
          BY <3>3, <4>3, <4>4, <4>7, <5>1 DEF Parsing
        <5> QED BY <2>1, <4>1, <4>7, <5>1, <5>2 DEF Parsing
      <4>8. CASE m_check_state = "CONTENT"
        BY <2>1, <3>3, <4>1, <4>3, <4>5, <4>8 DEF Parsing
      <4> QED BY <4>6, <4>7, <4>8 DEF ParseIInv, ParseTypeOK
    <3>4. WaitsForMoreOnly'
      BY <2>1, <2>4 DEF Held, WaitsForMoreOnly, Plain
    <3> QED BY <2>1, <2>4, <3>1, <3>2, <3>3, <3>4 DEF Held
  <2> QED BY <2>1, <2>2, <2>3, <2>4 DEF ParseIInv
<1>2. CASE ParseNext
  <2>1. ASSUME NEW r \in Requests, Ask(r) PROVE ParseIInv'
    BY <2>1, AskHolds
  <2>2. ASSUME NEW n \in DOMAIN unsent, Send(n) PROVE ParseIInv'
    BY <2>2, SendHolds
  <2>3. CASE Accept
    BY <2>3, AcceptHolds
  <2>4. CASE Read
    BY <2>4, ReadHolds
  <2>5. CASE ProcessRead
    <3>1. CASE NeedMore
      BY <3>1, NeedMoreHolds
    <3>2. CASE RequestLine
      BY <3>2, RequestLineHolds DEF RequestLine, TakeLine
    <3>3. CASE Header
      BY <3>3, HeaderHolds DEF Header, TakeLine
    <3>4. CASE EndOfHeaders
      BY <3>4, EndOfHeadersHolds DEF EndOfHeaders, TakeLine
    <3>5. CASE Content
      BY <3>5, ContentHolds DEF Content, TakeLine
    <3> QED BY <2>5, <3>1, <3>2, <3>3, <3>4, <3>5 DEF ProcessRead
  <2>6. CASE Answered
    BY <2>6, AnsweredHolds
  <2>7. CASE HangUp
    BY <2>7, HangUpHolds
  <2> QED BY <1>2, <2>1, <2>2, <2>3, <2>4, <2>5, <2>6, <2>7 DEF ParseNext
<1> QED BY <1>1, <1>2

LEMMA ParseIInvHolds == ParseSpec => []ParseIInv
<1>1. ParseInit => ParseIInv
  BY InitHolds
<1>2. ParseIInv /\ [ParseNext]_parseVars => ParseIInv'
  BY ParseStepHolds
<1> QED BY <1>1, <1>2, PTL DEF ParseSpec

\* The parser's variables keep their types, and its indices are in their order within the buffer.
THEOREM ParseTypeCorrect == ParseSpec => []ParseTypeOK
<1>1. ParseIInv => ParseTypeOK
  BY DEF ParseIInv
<1> QED BY <1>1, ParseIInvHolds, PTL

\* For every set of requests, every buffer and every way to cut the bytes into segments:
\* what process_read() ends with is what the request means, also for the second and later
\* requests of a connection, and it does not wait for more of a plain request it has whole.
THEOREM ParseIsRight == ParseSpec => []ParseInv
<1>1. ParseIInv => ParseInv
  <2>1. SUFFICES ASSUME ParseIInv PROVE ParseTypeOK /\ SameAsWhole /\ WaitsForMoreOnly
    BY DEF ParseInv
  <2>2. ParseTypeOK
    BY <2>1 DEF ParseIInv
  <2>3. SameAsWhole
    BY <2>1 DEF ParseIInv, Idle, Held, Told, SameAsWhole
  <2>4. WaitsForMoreOnly
    BY <2>1 DEF ParseIInv, Held, WaitsForMoreOnly, Plain
  <2> QED BY <2>2, <2>3, <2>4
<1> QED BY <1>1, ParseIInvHolds, PTL

\* read_once() fails, and the connection is closed, only for a request that is too long for
\* the buffer, whatever BufSize is.
THEOREM ClosesOnlyTooLong == ParseSpec => ClosedIfTooLong
<1>1. ASSUME ParseIInv, Read, pc' = "closed"
      PROVE  Len(Stream(request)) >= BufSize + 1 - m_TRIGMode
  <2>1. /\ ParseTypeOK /\ request \in Requests /\ Held /\ inbox # <<>> /\ ~ReadSucceeds
        /\ m_TRIGMode \in {0, 1}
    BY <1>1 DEF ParseIInv, ParseTypeOK, Read, Idle
  <2>2. PICK R, T, n, u, L : /\ R = m_read_idx /\ T = Taken /\ n = Len(inbox) /\ u = Len(unsent)
                             /\ L = Length
    OBVIOUS
  <2>3. /\ R \in Nat /\ n \in Nat /\ u \in Nat /\ n # 0 /\ R + n + u = L /\ T \in 0..n
        /\ L \in Nat /\ BufSize \in Nat
    BY <2>1, <2>2, Types, TakenIs, AskedIs DEF Held, Flowing
  <2>4. R >= BufSize \/ (m_TRIGMode = 1 /\ R + T >= BufSize)
    BY <2>1, <2>2, <2>3 DEF ReadSucceeds
  <2>5. L >= BufSize + 1 - m_TRIGMode
    BY <2>1, <2>3, <2>4
  <2> QED BY <2>2, <2>5 DEF Length
<1>2. ParseIInv /\ [ParseNext]_parseVars
        => [Read /\ pc' = "closed" => Len(Stream(request)) >= BufSize + 1 - m_TRIGMode]_parseVars
  BY <1>1
<1> QED BY <1>2, ParseIInvHolds, PTL DEF ParseSpec, ClosedIfTooLong
=============================================================================
