------------------------------ MODULE LogProofs ------------------------------
(***************************************************************************)
(* Proofs about Log, for every number of writers and lines, every size of  *)
(* the queue and every m_split_lines.  How many copies of a line there     *)
(* are, and how many lines a file has, is counted with Hits, about which   *)
(* the lemmas of the first part say what appending, joining and taking the *)
(* head do.                                                                *)
(***************************************************************************)
EXTENDS Log, FiniteSetTheorems, FunctionTheorems, SequenceTheorems, TLAPS

-----------------------------------------------------------------------------
(* Counting in sequences. *)

\* The places of s that hold a member of X.
Hits(s, X) == {i \in DOMAIN s : s[i] \in X}
Counted(s, X) == Cardinality(Hits(s, X))

LEMMA HitsFinite ==
    ASSUME NEW T, NEW s \in Seq(T), NEW X
    PROVE  /\ IsFiniteSet(Hits(s, X)) /\ Counted(s, X) \in Nat
           /\ Counted(s, X) <= Len(s)
<1>1. Hits(s, X) \subseteq 1..Len(s) /\ Len(s) \in Nat BY DEF Hits
<1>2. IsFiniteSet(1..Len(s)) /\ Cardinality(1..Len(s)) = Len(s)
  <2>1. PICK k \in Nat : k = Len(s) BY <1>1
  <2>2. IsFiniteSet(1..k) /\ Cardinality(1..k) = IF 1 > k THEN 0 ELSE k - 1 + 1
    BY FS_Interval
  <2> QED BY <2>1, <2>2
<1>3. IsFiniteSet(Hits(s, X)) /\ Cardinality(Hits(s, X)) <= Len(s) BY <1>1, <1>2, FS_Subset
<1> QED BY <1>3, FS_CardinalityType DEF Counted

\* A set of numbers moved by m has as many members.
LEMMA Moved ==
    ASSUME NEW m \in Nat, NEW B \in SUBSET Nat, IsFiniteSet(B), NEW C,
           C = {i \in Nat : i - m \in B}
    PROVE  IsFiniteSet(C) /\ Cardinality(C) = Cardinality(B)
<1> DEFINE f == [i \in B |-> i + m]
<1>1. \A i \in B : f[i] \in C
  BY SMT
<1>2. \A i, j \in B : f[i] = f[j] => i = j
  <2> SUFFICES ASSUME NEW i \in B, NEW j \in B, f[i] = f[j] PROVE i = j
    OBVIOUS
  <2>1. i \in Nat /\ j \in Nat /\ i + m = j + m OBVIOUS
  <2> QED BY <2>1
<1>3. \A k \in C : \E i \in B : f[i] = k
  <2> SUFFICES ASSUME NEW k \in C PROVE \E i \in B : f[i] = k
    OBVIOUS
  <2>1. k \in Nat /\ k - m \in B /\ (k - m) + m = k OBVIOUS
  <2>2. f[k - m] = k BY <2>1
  <2> QED BY <2>1, <2>2
<1>4. f \in Bijection(B, C)
  <2>1. f \in [B -> C] BY <1>1
  <2>2. f \in Injection(B, C) BY <1>2, <2>1 DEF Injection, IsInjective
  <2>3. f \in Surjection(B, C) BY <1>3, <2>1 DEF Surjection
  <2> QED BY <2>2, <2>3 DEF Bijection
<1>5. ExistsBijection(B, C) BY <1>4 DEF ExistsBijection
<1> QED BY <1>5, FS_Bijection

LEMMA CountedJoin ==
    ASSUME NEW T, NEW s \in Seq(T), NEW t \in Seq(T), NEW X
    PROVE  Counted(s \o t, X) = Counted(s, X) + Counted(t, X)
<1>1. PICK m \in Nat : m = Len(s) OBVIOUS
<1>2. PICK k \in Nat : k = Len(t) OBVIOUS
<1>3. /\ s \o t \in Seq(T) /\ DOMAIN (s \o t) = 1..(m + k)
      /\ \A i \in 1..m : (s \o t)[i] = s[i]
      /\ \A i \in 1..(m + k) : i > m => (s \o t)[i] = t[i - m]
  BY <1>1, <1>2, ConcatProperties
<1>4. DOMAIN s = 1..m /\ DOMAIN t = 1..k BY <1>1, <1>2
<1> DEFINE A == Hits(s, X)
           B == Hits(t, X)
           C == {i \in Nat : i - m \in B}
<1>5. IsFiniteSet(A) /\ IsFiniteSet(B) /\ B \in SUBSET Nat /\ A \subseteq 1..m /\ B \subseteq 1..k
  <2>1. A \subseteq 1..m /\ B \subseteq 1..k BY <1>4 DEF Hits
  <2>2. 1..k \subseteq Nat OBVIOUS
  <2>3. IsFiniteSet(A) /\ IsFiniteSet(B) BY HitsFinite
  <2> HIDE DEF A, B
  <2> QED BY <2>1, <2>2, <2>3
<1>6. IsFiniteSet(C) /\ Cardinality(C) = Cardinality(B) BY <1>5, Moved
<1>7. Hits(s \o t, X) = A \cup C
  <2>1. ASSUME NEW i \in Hits(s \o t, X) PROVE i \in A \cup C
    <3>1. i \in 1..(m + k) /\ (s \o t)[i] \in X BY <1>3, <2>1 DEF Hits
    <3>2. CASE i <= m
      <4>1. i \in 1..m BY <3>1, <3>2
      <4> QED BY <1>3, <1>4, <3>1, <4>1 DEF Hits
    <3>3. CASE i > m
      <4>1. i - m \in 1..k /\ i \in Nat BY <3>1, <3>3
      <4>2. t[i - m] \in X BY <1>3, <3>1, <3>3
      <4> QED BY <1>4, <4>1, <4>2 DEF Hits
    <3> QED BY <3>1, <3>2, <3>3
  <2>2. ASSUME NEW i \in A PROVE i \in Hits(s \o t, X)
    <3>1. i \in 1..m /\ s[i] \in X BY <1>4, <2>2 DEF Hits
    <3>2. i \in 1..(m + k) BY <3>1
    <3> QED BY <1>3, <3>1, <3>2 DEF Hits
  <2>3. ASSUME NEW i \in C PROVE i \in Hits(s \o t, X)
    <3>1. i \in Nat /\ i - m \in 1..k /\ t[i - m] \in X BY <1>4, <2>3 DEF Hits
    <3>2. i \in 1..(m + k) /\ i > m BY <3>1
    <3> QED BY <1>3, <3>1, <3>2 DEF Hits
  <2> QED BY <2>1, <2>2, <2>3
<1>8. A \cap C = {}
  <2> SUFFICES ASSUME NEW i \in A, i \in C PROVE FALSE
    OBVIOUS
  <2>1. i \in 1..m BY <1>5
  <2>2. i - m \in 1..k BY <1>5
  <2> QED BY <2>1, <2>2
<1> HIDE DEF A, B, C
<1>9. Cardinality(A \cup C) = Cardinality(A) + Cardinality(C) - Cardinality(A \cap C)
  BY <1>5, <1>6, FS_Union
<1>10. Cardinality(A \cap C) = 0 BY <1>8, FS_EmptySet
<1>11. Cardinality(A) \in Nat /\ Cardinality(B) \in Nat BY <1>5, FS_CardinalityType
<1>12. Cardinality(A \cup C) = Cardinality(A) + Cardinality(B) BY <1>6, <1>9, <1>10, <1>11
<1> QED BY <1>7, <1>12 DEF Counted, A, B

LEMMA CountedOne ==
    ASSUME NEW x, NEW X
    PROVE  Counted(<<x>>, X) = IF x \in X THEN 1 ELSE 0
<1>1. DOMAIN <<x>> = {1} /\ <<x>>[1] = x OBVIOUS
<1>2. Hits(<<x>>, X) = IF x \in X THEN {1} ELSE {} BY <1>1 DEF Hits
<1>3. Cardinality({1}) = 1 /\ Cardinality({}) = 0 BY FS_Singleton, FS_EmptySet
<1> QED BY <1>2, <1>3 DEF Counted

LEMMA CountedNone ==
    ASSUME NEW X
    PROVE  Counted(<<>>, X) = 0
<1>1. Hits(<<>>, X) = {} BY DEF Hits
<1> QED BY <1>1, FS_EmptySet DEF Counted

LEMMA CountedAppend ==
    ASSUME NEW T, NEW s \in Seq(T), NEW x \in T, NEW X
    PROVE  Counted(Append(s, x), X) = Counted(s, X) + (IF x \in X THEN 1 ELSE 0)
<1>1. PICK t : t = <<x>> OBVIOUS
<1>2. Append(s, x) = s \o t /\ t \in Seq(T) BY <1>1
<1>3. Counted(s \o t, X) = Counted(s, X) + Counted(t, X) BY <1>2, CountedJoin
<1>4. Counted(t, X) = IF x \in X THEN 1 ELSE 0 BY <1>1, CountedOne
<1> QED BY <1>2, <1>3, <1>4

LEMMA CountedHead ==
    ASSUME NEW T, NEW s \in Seq(T), s # <<>>, NEW X
    PROVE  /\ Head(s) \in T /\ Tail(s) \in Seq(T) /\ Len(Tail(s)) = Len(s) - 1
           /\ Counted(s, X) = Counted(Tail(s), X) + (IF Head(s) \in X THEN 1 ELSE 0)
<1>1. Head(s) \in T /\ Tail(s) \in Seq(T) /\ Len(Tail(s)) = Len(s) - 1 OBVIOUS
<1>2. s = <<Head(s)>> \o Tail(s) /\ <<Head(s)>> \in Seq(T) BY <1>1
<1>3. Counted(<<Head(s)>> \o Tail(s), X) = Counted(<<Head(s)>>, X) + Counted(Tail(s), X)
  BY <1>1, <1>2, CountedJoin
<1>4. Counted(Tail(s), X) \in Nat BY <1>1, HitsFinite
<1>5. Counted(<<Head(s)>>, X) = IF Head(s) \in X THEN 1 ELSE 0 BY CountedOne
<1>6. Counted(s, X) = Counted(<<Head(s)>>, X) + Counted(Tail(s), X) BY <1>2, <1>3
<1> QED BY <1>1, <1>4, <1>5, <1>6

\* Two sequences with hits at the same places.
LEMMA CountedSame ==
    ASSUME NEW s, NEW t, NEW X, NEW Y, DOMAIN s = DOMAIN t,
           \A i \in DOMAIN s : s[i] \in X <=> t[i] \in Y
    PROVE  Counted(s, X) = Counted(t, Y)
<1>1. Hits(s, X) = Hits(t, Y) BY DEF Hits
<1> QED BY <1>1 DEF Counted

\* Remainders and quotients of a counter that a file is split by.
LEMMA Division ==
    ASSUME NEW m \in Nat, NEW s \in Nat \ {0}
    PROVE  m \div s \in Nat /\ m % s \in Nat /\ m % s <= s - 1
OBVIOUS

LEMMA NextRemainder ==
    ASSUME NEW m \in Nat, NEW s \in Nat \ {0}
    PROVE  /\ (m + 1) % s # 0 => (m + 1) % s = (m % s) + 1 /\ (m + 1) \div s = m \div s
           /\ (m + 1) % s = 0 => (m + 1) \div s = (m \div s) + 1
<1>1. (m + 1) % s # 0 => (m + 1) % s = (m % s) + 1 /\ (m + 1) \div s = m \div s
  OBVIOUS
<1>2. (m + 1) % s = 0 => (m + 1) \div s = (m \div s) + 1
  OBVIOUS
<1> QED BY <1>1, <1>2

-----------------------------------------------------------------------------
(* The inductive invariant. *)

Files == [day : Days, part : Nat]
Records == [file : Files, line : Lines]

OfLine(l) == {r \in Records : r.line = l}
OfFile(F) == {r \in Records : r.file = F}

\* A writer that is in write_log() or flush() has begun a line.
Begun == \A w \in Writers : pc[w] # "idle" => n[w] >= 1

\* push() refuses a line on the way to flush(): a line that is in write_log() is not dropped yet.
DroppedFinished == \A l \in dropped : Finished(l)

\* Without a queue the flush thread has nothing, and a buffered line is the current one of a
\* writer that is about to flush.
Synchronous ==
    max_queue_size = 0 =>
        /\ hand = None /\ dropped = {}
        /\ \A w \in Writers : pc[w] # "push"
        /\ \A i \in DOMAIN buffered :
               pc[buffered[i][1]] = "flush" /\ buffered[i] = Line(buffered[i][1])

\* Writers with a line that m_count has counted and no buffer or queue has yet.
InPipe == {w \in Writers : pc[w] \in {"check", "push", "direct"}}
InHand == IF hand = None THEN 0 ELSE 1

LinesOf(F) == Counted(disk, OfFile(F))
Later(F) == F.day > m_today \/ (F.day = m_today /\ F.part > m_fp.part)

\* What m_fp has and may still get of the lines counted so far.
Pending == LinesOf(m_fp) + Len(buffered) + Cardinality(InPipe) + Len(m_log_queue) + InHand

\* m_fp is the file of m_count.  Unless the log of a day is taken up again no later file has a
\* line, m_fp gets the lines counted for it and the late ones at most, and the files left behind
\* are within the bound.
FileInv ==
    /\ m_fp = File(m_today, m_count \div SplitLines)
    /\ ~wentBack =>
        /\ \A F \in Files : Later(F) => LinesOf(F) = 0
        /\ Pending <= (m_count % SplitLines) + 1 + LateLines
        /\ \A F \in Files : F # m_fp => LinesOf(F) <= SplitLines + LateLines

LogInv == /\ TypeOK /\ Begun /\ DroppedFinished
          /\ LinesKept /\ Synchronous /\ FileInv

-----------------------------------------------------------------------------
(* Types. *)

LEMMA LineType ==
    ASSUME TypeOK, Begun, NEW w \in Writers, pc[w] # "idle"
    PROVE  Line(w) \in Lines
<1>1. n[w] \in 0..MaxLines /\ n[w] >= 1 BY DEF TypeOK, Begun
<1>2. n[w] \in 1..MaxLines BY <1>1, Parameters DEF Parameters
<1> QED BY <1>2 DEF Line, Lines

LEMMA NoneIsNoLine == None \notin Lines
<1>1. MaxLines \in Nat /\ None \notin Writers \X Nat BY Parameters
<1>2. 1..MaxLines \subseteq Nat BY <1>1
<1> QED BY <1>1, <1>2 DEF Lines

\* The records that Sync adds to the files.
Written == [i \in DOMAIN buffered |-> [file |-> m_fp, line |-> buffered[i]]]

LEMMA WrittenType ==
    ASSUME TypeOK
    PROVE  /\ Written \in Seq(Records) /\ Len(Written) = Len(buffered)
           /\ DOMAIN Written = DOMAIN buffered
           /\ disk \in Seq(Records) /\ disk \o Written \in Seq(Records)
           /\ Sync => disk' = disk \o Written /\ buffered' = <<>>
<1>1. PICK k \in Nat : k = Len(buffered) BY DEF TypeOK
<1>2. DOMAIN buffered = 1..k /\ \A i \in 1..k : buffered[i] \in Lines BY <1>1 DEF TypeOK
<1>3. m_fp \in Files BY DEF TypeOK, Files
<1>4. Written \in [1..k -> Records] BY <1>2, <1>3 DEF Written, Records
<1>5. Written \in Seq(Records) /\ Len(Written) = k BY <1>4
<1>6. disk \in Seq(Records) BY DEF TypeOK, Records, Files
<1>7. disk \o Written \in Seq(Records) BY <1>5, <1>6
<1>8. Sync => disk' = disk \o Written /\ buffered' = <<>> BY DEF Sync, Out, Written
<1>9. DOMAIN Written = DOMAIN buffered BY DEF Written
<1> QED BY <1>1, <1>5, <1>6, <1>7, <1>8, <1>9

LEMMA TypeInit == Init => TypeOK /\ Begun
<1> SUFFICES ASSUME Init PROVE TypeOK /\ Begun
  OBVIOUS
<1> USE Parameters DEF Parameters
<1>1. day \in Days /\ tmbuf \in Days /\ 1 \in Days BY DEF Init, Days
<1>2. now \in [Writers -> Days] /\ tm \in [Writers -> Days] /\ m_today \in Days
  BY <1>1 DEF Init
<1>3. /\ pc \in [Writers -> {"idle", "localtime", "copy", "count", "check", "push", "direct", "flush"}]
      /\ n \in [Writers -> 0..MaxLines] /\ m_count \in Nat
  BY DEF Init
<1>4. m_fp \in [day : Days, part : Nat] BY <1>1 DEF Init, File
<1>5. /\ buffered \in Seq(Lines) /\ m_log_queue \in Seq(Lines)
      /\ disk \in Seq([file : [day : Days, part : Nat], line : Lines])
      /\ max_queue_size \in QueueSizes /\ Len(m_log_queue) <= max_queue_size
  BY DEF Init
<1>6. hand \in Lines \cup {None} /\ dropped \subseteq Lines /\ wentBack \in BOOLEAN BY DEF Init
<1>7. Begun BY DEF Init, Begun
<1> QED BY <1>1, <1>2, <1>3, <1>4, <1>5, <1>6, <1>7 DEF TypeOK

LEMMA TypeStep == TypeOK /\ Begun /\ [Next]_vars => TypeOK' /\ Begun'
<1> SUFFICES ASSUME TypeOK, Begun, [Next]_vars PROVE TypeOK' /\ Begun'
  OBVIOUS
<1> DEFINE PCs == {"idle", "localtime", "copy", "count", "check", "push", "direct", "flush"}
<1>a. /\ MaxLines \in Nat \ {0} /\ MaxDay \in Nat \ {0} /\ QueueSizes \subseteq Nat
      /\ SplitLines \in Nat \ {0}
  BY Parameters DEF Parameters
<1>b. disk \in Seq([file : [day : Days, part : Nat], line : Lines]) BY DEF TypeOK
<1>c. Sync => /\ disk' \in Seq([file : [day : Days, part : Nat], line : Lines])
              /\ buffered' \in Seq(Lines)
  <2> SUFFICES ASSUME Sync
               PROVE  disk' \in Seq(Records) /\ buffered' \in Seq(Lines)
    BY DEF Records, Files
  <2>1. disk' = disk \o Written /\ buffered' = <<>> /\ disk \o Written \in Seq(Records)
    BY WrittenType
  <2> QED BY <2>1
<1>1. ASSUME NEW w \in Writers, ReadClock(w) PROVE TypeOK' /\ Begun'
  <2>1. /\ n' \in [Writers -> 0..MaxLines] /\ pc' \in [Writers -> PCs]
        /\ now' \in [Writers -> Days]
    BY <1>1, <1>a DEF ReadClock, Goto, TypeOK
  <2>2. Begun'
    <3> SUFFICES ASSUME NEW v \in Writers, (pc[v] # "idle")' PROVE (n[v] >= 1)'
      BY DEF Begun
    <3>1. CASE v = w
      <4>1. n[w] \in Nat /\ n'[w] = n[w] + 1 BY <1>1 DEF ReadClock, TypeOK
      <4> QED BY <3>1, <4>1
    <3>2. CASE v # w BY <1>1, <3>2 DEF ReadClock, Goto, TypeOK, Begun
    <3> QED BY <3>1, <3>2
  <2> QED BY <1>1, <2>1, <2>2 DEF ReadClock, TypeOK, files, names, queue
<1>2. ASSUME NEW w \in Writers, Localtime(w) PROVE TypeOK' /\ Begun'
  <2>1. pc' \in [Writers -> PCs] /\ tmbuf' \in Days BY <1>2 DEF Localtime, Goto, TypeOK
  <2>2. Begun' BY <1>2 DEF Localtime, Goto, TypeOK, Begun
  <2> QED BY <1>2, <2>1, <2>2 DEF Localtime, TypeOK, files, names, queue
<1>3. ASSUME NEW w \in Writers, CopyTm(w) PROVE TypeOK' /\ Begun'
  <2>1. pc' \in [Writers -> PCs] /\ tm' \in [Writers -> Days] BY <1>3 DEF CopyTm, Goto, TypeOK
  <2>2. Begun' BY <1>3 DEF CopyTm, Goto, TypeOK, Begun
  <2> QED BY <1>3, <2>1, <2>2 DEF CopyTm, TypeOK, files, names, queue
<1>4. ASSUME NEW w \in Writers, Count(w) PROVE TypeOK' /\ Begun'
  <2>1. pc' \in [Writers -> PCs] BY <1>4 DEF Count, Goto, TypeOK
  <2>2. Begun' BY <1>4 DEF Count, Goto, TypeOK, Begun
  <2>3. m_count \in Nat /\ m_count + 1 \in Nat /\ (m_count + 1) \div SplitLines \in Nat /\ tm[w] \in Days
    <3>1. m_count \in Nat /\ m_count + 1 \in Nat /\ tm[w] \in Days BY DEF TypeOK
    <3> QED BY <1>a, <3>1, Division
  <2>4. m_today' \in Days /\ m_count' \in Nat /\ m_fp' \in [day : Days, part : Nat]
    BY <1>4, <2>3 DEF Count, File, TypeOK
  <2>5. /\ disk' \in Seq([file : [day : Days, part : Nat], line : Lines])
        /\ buffered' \in Seq(Lines)
    BY <1>4, <1>c DEF Count, TypeOK
  <2>6. wentBack' \in BOOLEAN BY <1>4 DEF Count
  <2> QED BY <1>4, <2>1, <2>2, <2>4, <2>5, <2>6 DEF Count, TypeOK, clock, queue
<1>5. ASSUME NEW w \in Writers, Check(w) PROVE TypeOK' /\ Begun'
  <2>1. pc' \in [Writers -> PCs] BY <1>5 DEF Check, Goto, TypeOK
  <2>2. Begun' BY <1>5 DEF Check, Goto, TypeOK, Begun
  <2> QED BY <1>5, <2>1, <2>2 DEF Check, TypeOK, clock, files, names, queue
<1>6. ASSUME NEW w \in Writers, Push(w) PROVE TypeOK' /\ Begun'
  <2>1. pc' \in [Writers -> PCs] BY <1>6 DEF Push, Goto, TypeOK
  <2>2. Begun' BY <1>6 DEF Push, Goto, TypeOK, Begun
  <2>3. Line(w) \in Lines BY <1>6, LineType DEF Push
  <2>4. dropped' \subseteq Lines BY <1>6, <2>3 DEF Push, TypeOK
  <2>5. m_log_queue' \in Seq(Lines) /\ Len(m_log_queue') <= max_queue_size
    <3>1. max_queue_size \in Nat /\ m_log_queue \in Seq(Lines) /\ Len(m_log_queue) <= max_queue_size
      BY <1>a DEF TypeOK
    <3>2. CASE Full BY <1>6, <3>1, <3>2 DEF Push
    <3>3. CASE ~Full
      <4>1. m_log_queue' = Append(m_log_queue, Line(w)) /\ ~(Len(m_log_queue) >= max_queue_size)
        BY <1>6, <3>3 DEF Push, Full
      <4>2. PICK k \in Nat : k = Len(m_log_queue) BY <3>1
      <4>3. k + 1 <= max_queue_size BY <3>1, <4>1, <4>2
      <4> QED BY <2>3, <3>1, <4>1, <4>2, <4>3
    <3> QED BY <3>2, <3>3
  <2> QED BY <1>6, <2>1, <2>2, <2>4, <2>5 DEF Push, TypeOK, clock, files, names
<1>7. ASSUME NEW w \in Writers, Direct(w) PROVE TypeOK' /\ Begun'
  <2>1. pc' \in [Writers -> PCs] BY <1>7 DEF Direct, Goto, TypeOK
  <2>2. Begun' BY <1>7 DEF Direct, Goto, TypeOK, Begun
  <2>3. Line(w) \in Lines BY <1>7, LineType DEF Direct
  <2>4. buffered' \in Seq(Lines) BY <1>7, <2>3 DEF Direct, TypeOK
  <2> QED BY <1>7, <2>1, <2>2, <2>4 DEF Direct, TypeOK, clock, names, queue
<1>8. ASSUME NEW w \in Writers, Flush(w) PROVE TypeOK' /\ Begun'
  <2>1. pc' \in [Writers -> PCs] BY <1>8 DEF Flush, Goto, TypeOK
  <2>2. Begun' BY <1>8 DEF Flush, Goto, TypeOK, Begun
  <2>3. /\ disk' \in Seq([file : [day : Days, part : Nat], line : Lines])
        /\ buffered' \in Seq(Lines)
    BY <1>8, <1>c DEF Flush
  <2> QED BY <1>8, <2>1, <2>2, <2>3 DEF Flush, TypeOK, clock, names, queue
<1>9. ASSUME Pop PROVE TypeOK' /\ Begun'
  <2>1. PICK k \in Nat : k = Len(m_log_queue) BY DEF TypeOK
  <2>2. max_queue_size \in Nat /\ m_log_queue \in Seq(Lines) /\ m_log_queue # <<>>
    BY <1>9, <1>a DEF Pop, TypeOK
  <2>3. Head(m_log_queue) \in Lines /\ Tail(m_log_queue) \in Seq(Lines) /\ Len(Tail(m_log_queue)) = k - 1
    BY <2>1, <2>2
  <2>4. k <= max_queue_size /\ k - 1 <= max_queue_size BY <2>1, <2>2 DEF TypeOK
  <2> QED BY <1>9, <2>3, <2>4 DEF Pop, TypeOK, Begun, clock, files, names
<1>10. ASSUME Fputs PROVE TypeOK' /\ Begun'
  <2>1. hand \in Lines BY <1>10 DEF Fputs, TypeOK
  <2>2. buffered' \in Seq(Lines) BY <1>10, <2>1 DEF Fputs, TypeOK
  <2> QED BY <1>10, <2>2 DEF Fputs, TypeOK, Begun, clock, names, queue
<1>11. ASSUME Midnight PROVE TypeOK' /\ Begun'
  <2>1. day' \in Days BY <1>11, <1>a DEF Midnight, TypeOK, Days
  <2> QED BY <1>11, <2>1 DEF Midnight, TypeOK, Begun, files, names, queue
<1>12. ASSUME UNCHANGED vars PROVE TypeOK' /\ Begun'
  BY <1>12 DEF TypeOK, Begun, vars, clock, files, names, queue
<1> QED BY <1>1, <1>2, <1>3, <1>4, <1>5, <1>6, <1>7, <1>8, <1>9, <1>10, <1>11, <1>12 DEF Next, WriteLog

-----------------------------------------------------------------------------
(* Every line is in one place. *)

Places(l) == Counted(disk, OfLine(l)) + Counted(buffered, {l}) + Counted(m_log_queue, {l})
             + (IF hand = l THEN 1 ELSE 0)
Numbered == \A l \in Lines :
                /\ Copies(l) = Places(l)
                /\ Counted(disk, OfLine(l)) \in Nat /\ Counted(buffered, {l}) \in Nat
                /\ Counted(m_log_queue, {l}) \in Nat

LEMMA CopiesCounted == TypeOK => Numbered
<1> SUFFICES ASSUME TypeOK, NEW l \in Lines
             PROVE  /\ Copies(l) = Places(l)
                    /\ Counted(disk, OfLine(l)) \in Nat /\ Counted(buffered, {l}) \in Nat
                    /\ Counted(m_log_queue, {l}) \in Nat
  BY DEF Numbered
<1>1. disk \in Seq(Records) /\ buffered \in Seq(Lines) /\ m_log_queue \in Seq(Lines)
  BY WrittenType DEF TypeOK
<1>2. OnDisk(l) = Hits(disk, OfLine(l))
  <2>1. \A i \in DOMAIN disk : disk[i] \in Records BY <1>1
  <2> QED BY <2>1 DEF OnDisk, Hits, OfLine
<1>3. InBuffer(l) = Hits(buffered, {l}) /\ Queued(l) = Hits(m_log_queue, {l})
  BY DEF InBuffer, Queued, Hits
<1>4. Copies(l) = Places(l) BY <1>2, <1>3 DEF Copies, Places, Counted
<1> QED BY <1>1, <1>4, HitsFinite

\* fflush() moves what is buffered to m_fp.
LEMMA SyncMoves ==
    ASSUME TypeOK, Sync
    PROVE  /\ \A l \in Lines : /\ Counted(disk', OfLine(l)) = Counted(disk, OfLine(l)) + Counted(buffered, {l})
                               /\ Counted(buffered', {l}) = 0
           /\ \A F \in Files : Counted(disk', OfFile(F))
                               = Counted(disk, OfFile(F)) + (IF F = m_fp THEN Len(buffered) ELSE 0)
           /\ Len(buffered') = 0
<1>1. /\ Written \in Seq(Records) /\ Len(Written) = Len(buffered) /\ DOMAIN Written = DOMAIN buffered
      /\ disk \in Seq(Records) /\ disk' = disk \o Written /\ buffered' = <<>>
  BY WrittenType
<1>2. \A i \in DOMAIN Written : Written[i] \in Records BY <1>1
<1>3. \A i \in DOMAIN buffered : Written[i].line = buffered[i] /\ Written[i].file = m_fp
  BY DEF Written
<1>4. ASSUME NEW l \in Lines
      PROVE  /\ Counted(disk', OfLine(l)) = Counted(disk, OfLine(l)) + Counted(buffered, {l})
             /\ Counted(buffered', {l}) = 0
  <2>1. Counted(disk \o Written, OfLine(l)) = Counted(disk, OfLine(l)) + Counted(Written, OfLine(l))
    BY <1>1, CountedJoin
  <2>2. \A i \in DOMAIN Written : Written[i] \in OfLine(l) <=> buffered[i] \in {l}
    BY <1>1, <1>2, <1>3 DEF OfLine
  <2>3. Counted(Written, OfLine(l)) = Counted(buffered, {l}) BY <1>1, <2>2, CountedSame
  <2>4. Counted(<<>>, {l}) = 0 BY CountedNone
  <2> QED BY <1>1, <2>1, <2>3, <2>4
<1>5. ASSUME NEW F \in Files
      PROVE  Counted(disk', OfFile(F))
             = Counted(disk, OfFile(F)) + (IF F = m_fp THEN Len(buffered) ELSE 0)
  <2>1. Counted(disk \o Written, OfFile(F)) = Counted(disk, OfFile(F)) + Counted(Written, OfFile(F))
    BY <1>1, CountedJoin
  <2>2. Hits(Written, OfFile(F)) = IF F = m_fp THEN DOMAIN Written ELSE {}
    BY <1>1, <1>2, <1>3 DEF OfFile, Hits
  <2>3. Cardinality(DOMAIN Written) = Len(buffered)
    <3>1. PICK k \in Nat : k = Len(buffered) BY DEF TypeOK
    <3>2. DOMAIN Written = 1..k BY <1>1, <3>1
    <3>3. Cardinality(1..k) = IF 1 > k THEN 0 ELSE k - 1 + 1 BY FS_Interval
    <3> QED BY <3>1, <3>2, <3>3
  <2>4. Cardinality({}) = 0 BY FS_EmptySet
  <2>5. Counted(Written, OfFile(F)) = IF F = m_fp THEN Len(buffered) ELSE 0
    BY <2>2, <2>3, <2>4 DEF Counted
  <2> QED BY <1>1, <2>1, <2>5
<1>6. Len(buffered') = 0 BY <1>1
<1> QED BY <1>4, <1>5, <1>6

\* A step of writer w that does not end write_log() finishes no line and unfinishes none.
LEMMA FinishedSame ==
    ASSUME TypeOK, NEW w \in Writers, NEW p, Goto(w, p), n' = n,
           pc[w] \in {"flush", "idle"} <=> p \in {"flush", "idle"}
    PROVE  \A l \in Lines : Finished(l)' <=> Finished(l)
<1> SUFFICES ASSUME NEW l \in Lines PROVE Finished(l)' <=> Finished(l)
  OBVIOUS
<1>1. l[1] \in Writers BY DEF Lines
<1>2. CASE l[1] = w
  <2>1. pc'[w] = p BY DEF Goto, TypeOK
  <2> QED BY <1>2, <2>1 DEF Finished
<1>3. CASE l[1] # w
  <2>1. pc'[l[1]] = pc[l[1]] BY <1>1, <1>3 DEF Goto, TypeOK
  <2> QED BY <2>1 DEF Finished
<1> QED BY <1>2, <1>3

\* Lines move and none is finished.
LEMMA KeptSame ==
    ASSUME TypeOK, Numbered, Numbered', LinesKept, DroppedFinished, dropped' = dropped,
           \A l \in Lines : Finished(l)' <=> Finished(l),
           \A l \in Lines : Places(l)' = Places(l)
    PROVE  LinesKept' /\ DroppedFinished'
<1>1. LinesKept'
  <2> SUFFICES ASSUME NEW l \in Lines
               PROVE  Copies(l)' = IF Finished(l)' /\ l \notin dropped' THEN 1 ELSE 0
    BY DEF LinesKept
  <2>1. Copies(l) = Places(l) /\ Copies(l)' = Places(l)' BY DEF Numbered
  <2>2. Copies(l) = IF Finished(l) /\ l \notin dropped THEN 1 ELSE 0 BY DEF LinesKept
  <2>3. Finished(l)' <=> Finished(l) OBVIOUS
  <2>4. Places(l)' = Places(l) OBVIOUS
  <2> QED BY <2>1, <2>2, <2>3, <2>4
<1>2. DroppedFinished'
  <2>1. \A l \in dropped : l \in Lines BY DEF TypeOK
  <2> QED BY <2>1 DEF DroppedFinished
<1> QED BY <1>1, <1>2

\* Writer w gets to flush() with its line: it has put it in one place or push() has refused it.
LEMMA KeptNew ==
    ASSUME TypeOK, Begun, Numbered, Numbered', LinesKept, DroppedFinished,
           NEW w \in Writers, pc[w] \in {"push", "direct"}, Goto(w, "flush"), n' = n,
           \/ /\ dropped' = dropped
              /\ \A l \in Lines : Places(l)' = Places(l) + (IF l = Line(w) THEN 1 ELSE 0)
           \/ /\ dropped' = dropped \cup {Line(w)}
              /\ \A l \in Lines : Places(l)' = Places(l)
    PROVE  LinesKept' /\ DroppedFinished'
<1>1. PICK x \in Lines : x = Line(w) BY LineType
<1>2. x[1] = w /\ x[2] = n[w] BY <1>1 DEF Line
<1>3. ~Finished(x) BY <1>2 DEF Finished, TypeOK
<1>4. Finished(x)'
  <2>1. pc'[w] = "flush" BY DEF Goto, TypeOK
  <2> QED BY <1>2, <2>1 DEF Finished
<1>5. x \notin dropped BY <1>3 DEF DroppedFinished
<1>6. \A l \in Lines : l # x => (Finished(l)' <=> Finished(l))
  <2> SUFFICES ASSUME NEW l \in Lines, l # x PROVE Finished(l)' <=> Finished(l)
    OBVIOUS
  <2>1. l[1] \in Writers /\ l[2] \in 1..MaxLines /\ l = <<l[1], l[2]>> BY DEF Lines
  <2>2. CASE l[1] = w
    <3>1. l[2] # n[w] BY <1>1, <2>1, <2>2 DEF Line
    <3> QED BY <2>2, <3>1 DEF Finished
  <2>3. CASE l[1] # w
    <3>1. pc'[l[1]] = pc[l[1]] BY <2>1, <2>3 DEF Goto, TypeOK
    <3> QED BY <3>1 DEF Finished
  <2> QED BY <2>2, <2>3
<1>7. LinesKept'
  <2> SUFFICES ASSUME NEW l \in Lines
               PROVE  Copies(l)' = IF Finished(l)' /\ l \notin dropped' THEN 1 ELSE 0
    BY DEF LinesKept
  <2>1. Copies(l) = Places(l) /\ Copies(l)' = Places(l)' BY DEF Numbered
  <2>2. Copies(l) = IF Finished(l) /\ l \notin dropped THEN 1 ELSE 0 BY DEF LinesKept
  <2>3. CASE l = x
    <3>1. Places(l) = 0 BY <1>3, <2>1, <2>2, <2>3
    <3> QED BY <1>1, <1>4, <1>5, <2>1, <2>3, <3>1
  <2>4. CASE l # x
    <3>1. Places(l)' = Places(l)
      <4>1. Places(l) \in Nat BY <2>1, <2>2
      <4> QED BY <1>1, <2>4, <4>1
    <3>2. l \in dropped' <=> l \in dropped BY <1>1, <2>4
    <3>3. Finished(l)' <=> Finished(l) BY <1>6, <2>4
    <3> QED BY <2>1, <2>2, <3>1, <3>2, <3>3
  <2> QED BY <2>3, <2>4
<1>8. DroppedFinished'
  <2> SUFFICES ASSUME NEW l \in dropped' PROVE Finished(l)'
    BY DEF DroppedFinished
  <2>1. CASE l = x BY <1>4, <2>1
  <2>2. CASE l # x
    <3>1. l \in dropped /\ l \in Lines BY <1>1, <2>2 DEF TypeOK
    <3> QED BY <1>6, <2>2, <3>1 DEF DroppedFinished
  <2> QED BY <2>1, <2>2
<1> QED BY <1>7, <1>8

LEMMA KeptStep ==
    ASSUME TypeOK, TypeOK', Begun, LinesKept, DroppedFinished, [Next]_vars
    PROVE  LinesKept' /\ DroppedFinished'
<1>a. Numbered BY CopiesCounted
<1>b. TypeOK' => Numbered' BY CopiesCounted, PTL
<1>c. Numbered' BY <1>b
<1>d. buffered \in Seq(Lines) /\ m_log_queue \in Seq(Lines) BY DEF TypeOK
<1>e. \A l \in Lines : /\ Counted(disk, OfLine(l)) \in Nat /\ Counted(buffered, {l}) \in Nat
                       /\ Counted(m_log_queue, {l}) \in Nat
  BY <1>a DEF Numbered
<1>1. ASSUME NEW w \in Writers, ReadClock(w) PROVE LinesKept' /\ DroppedFinished'
  <2>1. \A l \in Lines : Finished(l)' <=> Finished(l)
    <3> SUFFICES ASSUME NEW l \in Lines PROVE Finished(l)' <=> Finished(l)
      OBVIOUS
    <3>1. l[1] \in Writers /\ l[2] \in 1..MaxLines /\ n[l[1]] \in 0..MaxLines /\ MaxLines \in Nat
      BY Parameters DEF Lines, TypeOK, Parameters
    <3>2. CASE l[1] = w
      <4>1. n'[w] = n[w] + 1 /\ pc'[w] = "localtime" /\ pc[w] = "idle"
        BY <1>1 DEF ReadClock, Goto, TypeOK
      <4> QED BY <3>1, <3>2, <4>1 DEF Finished
    <3>3. CASE l[1] # w
      <4>1. n'[l[1]] = n[l[1]] /\ pc'[l[1]] = pc[l[1]]
        BY <1>1, <3>1, <3>3 DEF ReadClock, Goto, TypeOK
      <4> QED BY <4>1 DEF Finished
    <3> QED BY <3>2, <3>3
  <2>2. dropped' = dropped /\ \A l \in Lines : Places(l)' = Places(l)
    BY <1>1 DEF ReadClock, files, queue, Places
  <2> QED BY <1>a, <1>c, <2>1, <2>2, KeptSame
<1>2. ASSUME NEW w \in Writers, Localtime(w) \/ CopyTm(w) \/ Check(w)
      PROVE LinesKept' /\ DroppedFinished'
  <2>1. \A l \in Lines : Finished(l)' <=> Finished(l)
    <3>1. CASE Localtime(w)
      <4>1. n' = n /\ Goto(w, "copy") /\ pc[w] = "localtime" BY <3>1 DEF Localtime
      <4> QED BY <4>1, FinishedSame
    <3>2. CASE CopyTm(w)
      <4>1. n' = n /\ Goto(w, "count") /\ pc[w] = "copy" BY <3>2 DEF CopyTm
      <4> QED BY <4>1, FinishedSame
    <3>3. CASE Check(w)
      <4>1. PICK p : Goto(w, p) /\ p \in {"push", "direct"} BY <3>3 DEF Check
      <4>2. n' = n /\ pc[w] = "check" BY <3>3 DEF Check
      <4> QED BY <4>1, <4>2, FinishedSame
    <3> QED BY <1>2, <3>1, <3>2, <3>3
  <2>2. dropped' = dropped /\ \A l \in Lines : Places(l)' = Places(l)
    BY <1>2 DEF Localtime, CopyTm, Check, files, queue, Places
  <2> QED BY <1>a, <1>c, <2>1, <2>2, KeptSame
<1>3. ASSUME NEW w \in Writers, Count(w) PROVE LinesKept' /\ DroppedFinished'
  <2>1. n' = n /\ Goto(w, "check") /\ pc[w] = "count" BY <1>3 DEF Count
  <2>2. \A l \in Lines : Finished(l)' <=> Finished(l) BY <2>1, FinishedSame
  <2>3. dropped' = dropped /\ m_log_queue' = m_log_queue /\ hand' = hand BY <1>3 DEF Count, queue
  <2>4. \A l \in Lines : Places(l)' = Places(l)
    <3>1. CASE Sync
      <4> SUFFICES ASSUME NEW l \in Lines PROVE Places(l)' = Places(l)
        OBVIOUS
      <4>1. /\ Counted(disk', OfLine(l)) = Counted(disk, OfLine(l)) + Counted(buffered, {l})
            /\ Counted(buffered', {l}) = 0
        BY <3>1, SyncMoves
      <4> QED BY <1>e, <2>3, <4>1 DEF Places
    <3>2. CASE ~Sync
      <4>1. disk' = disk /\ buffered' = buffered BY <1>3, <3>2 DEF Count
      <4> QED BY <2>3, <4>1 DEF Places
    <3> QED BY <3>1, <3>2
  <2> QED BY <1>a, <1>c, <2>2, <2>3, <2>4, KeptSame
<1>4. ASSUME NEW w \in Writers, Push(w) PROVE LinesKept' /\ DroppedFinished'
  <2>1. n' = n /\ Goto(w, "flush") /\ pc[w] = "push" BY <1>4 DEF Push
  <2>2. disk' = disk /\ buffered' = buffered /\ hand' = hand BY <1>4 DEF Push, files
  <2>3. CASE Full
    <3>1. dropped' = dropped \cup {Line(w)} /\ m_log_queue' = m_log_queue BY <1>4, <2>3 DEF Push
    <3>2. \A l \in Lines : Places(l)' = Places(l) BY <2>2, <3>1 DEF Places
    <3> QED BY <1>a, <1>c, <2>1, <3>1, <3>2, KeptNew
  <2>4. CASE ~Full
    <3>1. PICK x \in Lines : x = Line(w) BY <2>1, LineType
    <3>2. dropped' = dropped /\ m_log_queue' = Append(m_log_queue, x) BY <1>4, <2>4, <3>1 DEF Push
    <3>3. \A l \in Lines : Places(l)' = Places(l) + (IF l = x THEN 1 ELSE 0)
      <4> SUFFICES ASSUME NEW l \in Lines PROVE Places(l)' = Places(l) + (IF l = x THEN 1 ELSE 0)
        OBVIOUS
      <4>1. Counted(Append(m_log_queue, x), {l})
            = Counted(m_log_queue, {l}) + (IF x \in {l} THEN 1 ELSE 0)
        BY <1>d, CountedAppend
      <4> QED BY <1>e, <2>2, <3>2, <4>1 DEF Places
    <3> QED BY <1>a, <1>c, <2>1, <3>1, <3>2, <3>3, KeptNew
  <2> QED BY <2>3, <2>4
<1>5. ASSUME NEW w \in Writers, Direct(w) PROVE LinesKept' /\ DroppedFinished'
  <2>1. n' = n /\ Goto(w, "flush") /\ pc[w] = "direct" BY <1>5 DEF Direct
  <2>2. /\ disk' = disk /\ m_log_queue' = m_log_queue /\ hand' = hand
        /\ dropped' = dropped
    BY <1>5 DEF Direct, queue
  <2>3. PICK x \in Lines : x = Line(w) BY <2>1, LineType
  <2>4. buffered' = Append(buffered, x) BY <1>5, <2>3 DEF Direct
  <2>5. \A l \in Lines : Places(l)' = Places(l) + (IF l = x THEN 1 ELSE 0)
    <3> SUFFICES ASSUME NEW l \in Lines PROVE Places(l)' = Places(l) + (IF l = x THEN 1 ELSE 0)
      OBVIOUS
    <3>1. Counted(Append(buffered, x), {l}) = Counted(buffered, {l}) + (IF x \in {l} THEN 1 ELSE 0)
      BY <1>d, CountedAppend
    <3> QED BY <1>e, <2>2, <2>4, <3>1 DEF Places
  <2> QED BY <1>a, <1>c, <2>1, <2>2, <2>3, <2>5, KeptNew
<1>6. ASSUME NEW w \in Writers, Flush(w) PROVE LinesKept' /\ DroppedFinished'
  <2>1. n' = n /\ Goto(w, "idle") /\ pc[w] = "flush" /\ Sync BY <1>6 DEF Flush
  <2>2. \A l \in Lines : Finished(l)' <=> Finished(l) BY <2>1, FinishedSame
  <2>3. dropped' = dropped /\ m_log_queue' = m_log_queue /\ hand' = hand BY <1>6 DEF Flush, queue
  <2>4. \A l \in Lines : Places(l)' = Places(l)
    <3> SUFFICES ASSUME NEW l \in Lines PROVE Places(l)' = Places(l)
      OBVIOUS
    <3>1. /\ Counted(disk', OfLine(l)) = Counted(disk, OfLine(l)) + Counted(buffered, {l})
          /\ Counted(buffered', {l}) = 0
      BY <2>1, SyncMoves
    <3> QED BY <1>e, <2>3, <3>1 DEF Places
  <2> QED BY <1>a, <1>c, <2>2, <2>3, <2>4, KeptSame
<1>7. ASSUME Pop PROVE LinesKept' /\ DroppedFinished'
  <2>1. /\ pc' = pc /\ n' = n /\ disk' = disk /\ buffered' = buffered /\ dropped' = dropped
        /\ hand = None /\ m_log_queue # <<>> /\ m_log_queue' = Tail(m_log_queue)
        /\ hand' = Head(m_log_queue)
    BY <1>7 DEF Pop, files
  <2>2. \A l \in Lines : Finished(l)' <=> Finished(l) BY <2>1 DEF Finished
  <2>3. \A l \in Lines : Places(l)' = Places(l)
    <3> SUFFICES ASSUME NEW l \in Lines PROVE Places(l)' = Places(l)
      OBVIOUS
    <3>1. /\ Counted(m_log_queue, {l})
             = Counted(Tail(m_log_queue), {l}) + (IF Head(m_log_queue) \in {l} THEN 1 ELSE 0)
          /\ Tail(m_log_queue) \in Seq(Lines)
      BY <1>d, <2>1, CountedHead
    <3>2. Counted(Tail(m_log_queue), {l}) \in Nat BY <3>1, HitsFinite
    <3>3. hand # l BY <2>1, NoneIsNoLine
    <3> QED BY <1>e, <2>1, <3>1, <3>2, <3>3 DEF Places
  <2> QED BY <1>a, <1>c, <2>1, <2>2, <2>3, KeptSame
<1>8. ASSUME Fputs PROVE LinesKept' /\ DroppedFinished'
  <2>1. /\ pc' = pc /\ n' = n /\ disk' = disk /\ m_log_queue' = m_log_queue /\ dropped' = dropped
        /\ hand # None /\ hand' = None /\ buffered' = Append(buffered, hand)
    BY <1>8 DEF Fputs, queue
  <2>2. \A l \in Lines : Finished(l)' <=> Finished(l) BY <2>1 DEF Finished
  <2>3. \A l \in Lines : Places(l)' = Places(l)
    <3> SUFFICES ASSUME NEW l \in Lines PROVE Places(l)' = Places(l)
      OBVIOUS
    <3>1. hand \in Lines BY <2>1 DEF TypeOK
    <3>2. Counted(Append(buffered, hand), {l})
          = Counted(buffered, {l}) + (IF hand \in {l} THEN 1 ELSE 0)
      BY <1>d, <3>1, CountedAppend
    <3>3. hand' # l BY <2>1, NoneIsNoLine
    <3> QED BY <1>e, <2>1, <3>2, <3>3 DEF Places
  <2> QED BY <1>a, <1>c, <2>1, <2>2, <2>3, KeptSame
<1>9. ASSUME Midnight \/ UNCHANGED vars PROVE LinesKept' /\ DroppedFinished'
  <2>1. /\ pc' = pc /\ n' = n /\ dropped' = dropped /\ disk' = disk /\ buffered' = buffered
        /\ m_log_queue' = m_log_queue /\ hand' = hand
    BY <1>9 DEF Midnight, vars, files, queue
  <2>2. \A l \in Lines : (Finished(l)' <=> Finished(l)) /\ Places(l)' = Places(l)
    BY <2>1 DEF Finished, Places
  <2> QED BY <1>a, <1>c, <2>1, <2>2, KeptSame
<1> QED BY <1>1, <1>2, <1>3, <1>4, <1>5, <1>6, <1>7, <1>8, <1>9 DEF Next, WriteLog

-----------------------------------------------------------------------------
(* Without a queue. *)

LEMMA SynchronousStep ==
    ASSUME TypeOK, TypeOK', Begun, Synchronous, [Next]_vars
    PROVE  Synchronous'
<1> SUFFICES ASSUME max_queue_size' = 0
             PROVE  /\ hand' = None /\ dropped' = {}
                    /\ \A w \in Writers : pc'[w] # "push"
                    /\ \A i \in DOMAIN buffered' :
                           /\ pc'[buffered'[i][1]] = "flush"
                           /\ buffered'[i] = <<buffered'[i][1], n'[buffered'[i][1]]>>
  BY DEF Synchronous, Line
<1> DEFINE Quiet == hand' = None /\ dropped' = {} /\ \A w \in Writers : pc'[w] # "push"
           Current == \A i \in DOMAIN buffered' :
                          /\ pc'[buffered'[i][1]] = "flush"
                          /\ buffered'[i] = <<buffered'[i][1], n'[buffered'[i][1]]>>
<1>1. max_queue_size = 0
  BY DEF Next, WriteLog, ReadClock, Localtime, CopyTm, Count, Check, Push, Direct, Flush, Pop,
         Fputs, Midnight, queue, vars
<1>2. /\ hand = None /\ dropped = {} /\ \A w \in Writers : pc[w] # "push"
      /\ \A i \in DOMAIN buffered : pc[buffered[i][1]] = "flush" /\ buffered[i] = Line(buffered[i][1])
  BY <1>1 DEF Synchronous
<1>3. m_log_queue = <<>>
  <2>1. m_log_queue \in Seq(Lines) /\ Len(m_log_queue) <= 0 BY <1>1 DEF TypeOK
  <2> QED BY <2>1
<1>4. buffered \in Seq(Lines) /\ \A i \in DOMAIN buffered : buffered[i] \in Lines /\ buffered[i][1] \in Writers
  <2>1. buffered \in Seq(Lines) BY DEF TypeOK
  <2>2. \A i \in DOMAIN buffered : buffered[i] \in Lines BY <2>1
  <2> QED BY <2>1, <2>2 DEF Lines
<1>5. ASSUME NEW w \in Writers, NEW p, Goto(w, p), pc[w] # "flush", buffered' = buffered,
             \A v \in Writers : v # w => n'[v] = n[v]
      PROVE  Current
  <2> SUFFICES ASSUME NEW i \in DOMAIN buffered
               PROVE  pc'[buffered[i][1]] = "flush" /\ buffered[i] = <<buffered[i][1], n'[buffered[i][1]]>>
    BY <1>5 DEF Line
  <2>1. PICK v \in Writers : v = buffered[i][1] BY <1>4
  <2>2. pc[v] = "flush" /\ buffered[i] = <<v, n[v]>> BY <1>2, <2>1 DEF Line
  <2>3. v # w BY <1>5, <2>2
  <2>4. pc'[v] = pc[v] /\ n'[v] = n[v] BY <1>5, <2>3 DEF Goto, TypeOK
  <2> QED BY <2>1, <2>2, <2>4
<1>6. ASSUME buffered' = <<>> PROVE Current
  <2>1. DOMAIN buffered' = {} BY <1>6
  <2> QED BY <2>1
<1>7. ASSUME NEW w \in Writers, NEW p, Goto(w, p), p # "push" PROVE \A v \in Writers : pc'[v] # "push"
  BY <1>2, <1>7 DEF Goto, TypeOK
<1>8. ASSUME NEW w \in Writers, ReadClock(w) PROVE Quiet /\ Current
  <2>1. /\ Goto(w, "localtime") /\ pc[w] # "flush" /\ buffered' = buffered
        /\ \A v \in Writers : v # w => n'[v] = n[v]
        /\ hand' = hand /\ dropped' = dropped
    BY <1>8 DEF ReadClock, files, queue, TypeOK
  <2> QED BY <1>2, <1>5, <1>7, <2>1
<1>9. ASSUME NEW w \in Writers, Localtime(w) PROVE Quiet /\ Current
  <2>1. /\ Goto(w, "copy") /\ pc[w] # "flush" /\ buffered' = buffered /\ n' = n
        /\ hand' = hand /\ dropped' = dropped
    BY <1>9 DEF Localtime, files, queue
  <2> QED BY <1>2, <1>5, <1>7, <2>1
<1>10. ASSUME NEW w \in Writers, CopyTm(w) PROVE Quiet /\ Current
  <2>1. /\ Goto(w, "count") /\ pc[w] # "flush" /\ buffered' = buffered /\ n' = n
        /\ hand' = hand /\ dropped' = dropped
    BY <1>10 DEF CopyTm, files, queue
  <2> QED BY <1>2, <1>5, <1>7, <2>1
<1>11. ASSUME NEW w \in Writers, Count(w) PROVE Quiet /\ Current
  <2>1. /\ Goto(w, "check") /\ pc[w] # "flush" /\ n' = n
        /\ buffered' = buffered \/ buffered' = <<>>
        /\ hand' = hand /\ dropped' = dropped
    BY <1>11 DEF Count, Sync, queue
  <2>2. Current BY <1>5, <1>6, <2>1
  <2> QED BY <1>2, <1>7, <2>1, <2>2
<1>12. ASSUME NEW w \in Writers, Check(w) PROVE Quiet /\ Current
  <2>1. /\ Goto(w, "direct") /\ pc[w] # "flush" /\ buffered' = buffered /\ n' = n
        /\ hand' = hand /\ dropped' = dropped
    BY <1>1, <1>12 DEF Check, files, queue
  <2> QED BY <1>2, <1>5, <1>7, <2>1
<1>13. ASSUME NEW w \in Writers, Direct(w) PROVE Quiet /\ Current
  <2>1. /\ Goto(w, "flush") /\ pc[w] = "direct" /\ n' = n /\ hand' = hand /\ dropped' = dropped
    BY <1>13 DEF Direct, queue
  <2>2. PICK x \in Lines : x = Line(w) BY <2>1, LineType
  <2>3. buffered' = Append(buffered, x) BY <1>13, <2>2 DEF Direct
  <2>4. x = <<w, n[w]>> /\ x[1] = w /\ pc'[w] = "flush" BY <2>1, <2>2 DEF Line, Goto, TypeOK
  <2>5. Current
    <3> SUFFICES ASSUME NEW i \in DOMAIN buffered'
                 PROVE  /\ pc'[buffered'[i][1]] = "flush"
                        /\ buffered'[i] = <<buffered'[i][1], n'[buffered'[i][1]]>>
      BY DEF Line
    <3>1. PICK k \in Nat : k = Len(buffered) BY <1>4
    <3>2. i \in 1..(k + 1) /\ buffered'[i] = IF i = k + 1 THEN x ELSE buffered[i]
      BY <1>4, <2>3, <3>1
    <3>3. CASE i = k + 1 BY <2>1, <2>4, <3>2, <3>3
    <3>4. CASE i # k + 1
      <4>1. i \in DOMAIN buffered BY <1>4, <3>1, <3>2, <3>4
      <4>2. PICK v \in Writers : v = buffered[i][1] BY <1>4, <4>1
      <4>3. pc[v] = "flush" /\ buffered[i] = <<v, n[v]>> BY <1>2, <4>1, <4>2 DEF Line
      <4>4. pc'[v] = pc[v] BY <2>1, <4>3 DEF Goto, TypeOK
      <4> QED BY <2>1, <3>2, <3>4, <4>2, <4>3, <4>4
    <3> QED BY <3>3, <3>4
  <2> QED BY <1>2, <1>7, <2>1, <2>5
<1>14. ASSUME NEW w \in Writers, Flush(w) PROVE Quiet /\ Current
  <2>1. Goto(w, "idle") /\ buffered' = <<>> /\ hand' = hand /\ dropped' = dropped
    BY <1>14 DEF Flush, Sync, queue
  <2> QED BY <1>2, <1>6, <1>7, <2>1
<1>15. ASSUME Midnight \/ UNCHANGED vars PROVE Quiet /\ Current
  <2>1. pc' = pc /\ n' = n /\ buffered' = buffered /\ hand' = hand /\ dropped' = dropped
    BY <1>15 DEF Midnight, vars, files, queue
  <2> QED BY <1>2, <2>1 DEF Line
<1>16. \A w \in Writers : ~Push(w) BY <1>2 DEF Push
<1>17. ~Pop /\ ~Fputs BY <1>2, <1>3 DEF Pop, Fputs
<1> HIDE DEF Quiet, Current
<1>18. Quiet /\ Current
  BY <1>8, <1>9, <1>10, <1>11, <1>12, <1>13, <1>14, <1>15, <1>16, <1>17 DEF Next, WriteLog
<1> QED BY <1>18 DEF Quiet, Current

\* Of a line in one place, with an empty queue, no buffer but that of a writer that will flush.
LEMMA Durable == TypeOK /\ LinesKept /\ Synchronous => DurableOnReturn
<1> SUFFICES ASSUME TypeOK, LinesKept, Synchronous, max_queue_size = 0,
                    NEW l \in Lines, Finished(l), pc[l[1]] # "flush", OnDisk(l) = {}
             PROVE  FALSE
  BY DEF DurableOnReturn
<1>1. hand # l
  <2>1. hand = None BY DEF Synchronous
  <2> QED BY <2>1, NoneIsNoLine
<1>2. l \notin dropped BY DEF Synchronous
<1>3. Queued(l) = {}
  <2>1. m_log_queue \in Seq(Lines) /\ Len(m_log_queue) <= 0 BY DEF TypeOK
  <2>2. m_log_queue = <<>> BY <2>1
  <2> QED BY <2>2 DEF Queued
<1>4. InBuffer(l) = {} BY DEF InBuffer, Synchronous
<1>5. Cardinality({}) = 0 BY FS_EmptySet
<1>6. Copies(l) = 0 BY <1>1, <1>3, <1>4, <1>5 DEF Copies
<1> QED BY <1>2, <1>6 DEF LinesKept

-----------------------------------------------------------------------------
(* How many lines a file gets. *)

Sized == /\ \A F \in Files : LinesOf(F) \in Nat
         /\ Len(buffered) \in Nat /\ Len(m_log_queue) \in Nat /\ Len(m_log_queue) <= max_queue_size
         /\ IsFiniteSet(InPipe) /\ Cardinality(InPipe) \in Nat
         /\ Cardinality(InPipe) <= Cardinality(Writers)
         /\ Cardinality(Writers) \in Nat /\ max_queue_size \in Nat /\ InHand \in Nat /\ InHand <= 1
         /\ LateLines \in Int /\ LateLines >= 0 - 1
         /\ m_fp \in Files /\ LinesOf(m_fp) \in Nat /\ Pending \in Nat

LEMMA SizesOf == TypeOK => Sized
<1> SUFFICES ASSUME TypeOK PROVE Sized
  OBVIOUS
<1>1. disk \in Seq(Records) BY WrittenType
<1>2. \A F \in Files : LinesOf(F) \in Nat BY <1>1, HitsFinite DEF LinesOf
<1>3. /\ Len(buffered) \in Nat /\ Len(m_log_queue) \in Nat /\ Len(m_log_queue) <= max_queue_size
      /\ max_queue_size \in Nat
  BY Parameters DEF TypeOK, Parameters
<1>4. InPipe \subseteq Writers /\ IsFiniteSet(Writers) BY Parameters DEF InPipe, Parameters
<1>5. /\ IsFiniteSet(InPipe) /\ Cardinality(InPipe) \in Nat /\ Cardinality(Writers) \in Nat
      /\ Cardinality(InPipe) <= Cardinality(Writers)
  BY <1>4, FS_Subset, FS_CardinalityType
<1>6. LateLines \in Int /\ LateLines >= 0 - 1 BY <1>3, <1>5 DEF LateLines
<1>7. InHand \in Nat /\ InHand <= 1 BY DEF InHand
<1>8. m_fp \in Files BY DEF TypeOK, Files
<1>9. LinesOf(m_fp) \in Nat BY <1>2, <1>8
<1>10. Pending \in Nat BY <1>3, <1>5, <1>7, <1>9 DEF Pending
<1> QED BY <1>2, <1>3, <1>5, <1>6, <1>7, <1>8, <1>9, <1>10 DEF Sized

\* What a step of writer w does to the set of those whose line is counted and not yet handed on.
LEMMA Pipe ==
    ASSUME TypeOK, NEW w \in Writers, NEW p, Goto(w, p)
    PROVE  LET P == {"check", "push", "direct"}
           IN  /\ (pc[w] \in P <=> p \in P) => Cardinality(InPipe') = Cardinality(InPipe)
               /\ pc[w] \in P /\ p \notin P => Cardinality(InPipe') = Cardinality(InPipe) - 1
               /\ pc[w] \notin P /\ p \in P => Cardinality(InPipe') = Cardinality(InPipe) + 1
<1> DEFINE P == {"check", "push", "direct"}
<1>1. pc'[w] = p /\ \A v \in Writers : v # w => pc'[v] = pc[v] BY DEF Goto, TypeOK
<1>2. IsFiniteSet(InPipe) /\ Cardinality(InPipe) \in Nat BY SizesOf DEF Sized
<1>3. (pc[w] \in P <=> p \in P) => InPipe' = InPipe BY <1>1 DEF InPipe
<1>4. ASSUME pc[w] \in P, p \notin P PROVE Cardinality(InPipe') = Cardinality(InPipe) - 1
  <2>1. InPipe' = InPipe \ {w} /\ w \in InPipe BY <1>1, <1>4 DEF InPipe
  <2>2. Cardinality(InPipe \ {w}) = IF w \in InPipe THEN Cardinality(InPipe) - 1 ELSE Cardinality(InPipe)
    BY <1>2, FS_RemoveElement
  <2> QED BY <2>1, <2>2
<1>5. ASSUME pc[w] \notin P, p \in P PROVE Cardinality(InPipe') = Cardinality(InPipe) + 1
  <2>1. InPipe' = InPipe \cup {w} /\ w \notin InPipe BY <1>1, <1>5 DEF InPipe
  <2>2. Cardinality(InPipe \cup {w}) = IF w \in InPipe THEN Cardinality(InPipe) ELSE Cardinality(InPipe) + 1
    BY <1>2, FS_AddElement
  <2> QED BY <2>1, <2>2
<1> QED BY <1>3, <1>4, <1>5

\* No file changes and nothing is added to what m_fp may get.
LEMMA FilesSame ==
    ASSUME TypeOK, Sized, Sized', FileInv, UNCHANGED names, wentBack' = wentBack,
           max_queue_size' = max_queue_size, disk' = disk,
           Len(buffered') + Cardinality(InPipe') + Len(m_log_queue') + InHand'
             <= Len(buffered) + Cardinality(InPipe) + Len(m_log_queue) + InHand
    PROVE  FileInv'
<1>1. m_today' = m_today /\ m_count' = m_count /\ m_fp' = m_fp BY DEF names
<1>2. LateLines' = LateLines BY DEF LateLines
<1>3. \A F \in Files : LinesOf(F)' = LinesOf(F) /\ (Later(F)' <=> Later(F))
  BY <1>1 DEF LinesOf, Later
<1>4. LinesOf(m_fp)' = LinesOf(m_fp) BY <1>1 DEF LinesOf
<1>5. (m_fp = File(m_today, m_count \div SplitLines))' BY <1>1 DEF FileInv, File
<1> SUFFICES ASSUME ~wentBack
             PROVE  /\ \A F \in Files : Later(F)' => LinesOf(F)' = 0
                    /\ Pending' <= (m_count' % SplitLines) + 1 + LateLines'
                    /\ \A F \in Files : F # m_fp' => LinesOf(F)' <= SplitLines + LateLines'
  BY <1>5 DEF FileInv
<1>6. /\ \A F \in Files : Later(F) => LinesOf(F) = 0
      /\ Pending <= (m_count % SplitLines) + 1 + LateLines
      /\ \A F \in Files : F # m_fp => LinesOf(F) <= SplitLines + LateLines
  BY DEF FileInv
<1>7. m_count \in Nat /\ m_count % SplitLines \in Nat
  <2>1. m_count \in Nat /\ SplitLines \in Nat \ {0} BY Parameters DEF TypeOK, Parameters
  <2> QED BY <2>1, Division
<1>8. Pending' <= Pending
  <2>1. PICK a \in Nat, b \in Nat, p \in Nat, q \in Nat, h \in Nat :
           /\ a = LinesOf(m_fp) /\ b = Len(buffered) /\ p = Cardinality(InPipe)
           /\ q = Len(m_log_queue) /\ h = InHand
    BY DEF Sized
  <2>2. PICK c \in Nat, r \in Nat, s \in Nat, g \in Nat :
           /\ c = Len(buffered') /\ r = Cardinality(InPipe') /\ s = Len(m_log_queue') /\ g = InHand'
    BY DEF Sized
  <2>3. Pending = a + b + p + q + h BY <2>1 DEF Pending
  <2>4. Pending' = a + c + r + s + g BY <1>4, <2>1, <2>2 DEF Pending
  <2>5. c + r + s + g <= b + p + q + h BY <2>1, <2>2
  <2> QED BY <2>3, <2>4, <2>5
<1>9. Pending \in Nat /\ Pending' \in Nat /\ LateLines \in Int BY DEF Sized
<1>10. Pending' <= (m_count % SplitLines) + 1 + LateLines BY <1>6, <1>7, <1>8, <1>9
<1> QED BY <1>1, <1>2, <1>3, <1>6, <1>10

\* fflush() without a new file.
LEMMA FilesFlushed ==
    ASSUME TypeOK, Sized, Sized', FileInv, UNCHANGED names, wentBack' = wentBack, Sync,
           max_queue_size' = max_queue_size, m_log_queue' = m_log_queue, hand' = hand,
           Cardinality(InPipe') = Cardinality(InPipe)
    PROVE  FileInv'
<1>1. m_today' = m_today /\ m_count' = m_count /\ m_fp' = m_fp BY DEF names
<1>2. LateLines' = LateLines BY DEF LateLines
<1>3. \A F \in Files : /\ LinesOf(F)' = LinesOf(F) + (IF F = m_fp THEN Len(buffered) ELSE 0)
                       /\ Later(F)' <=> Later(F)
  BY <1>1, SyncMoves DEF LinesOf, Later
<1>4. LinesOf(m_fp)' = LinesOf(m_fp) + Len(buffered) /\ Len(buffered') = 0
  <2>1. PICK F \in Files : F = m_fp BY DEF Sized
  <2>2. LinesOf(m_fp)' = LinesOf(F)' /\ LinesOf(m_fp) = LinesOf(F) BY <1>1, <2>1 DEF LinesOf
  <2> QED BY <1>3, <2>1, <2>2, SyncMoves
<1>5. (m_fp = File(m_today, m_count \div SplitLines))' BY <1>1 DEF FileInv, File
<1> SUFFICES ASSUME ~wentBack
             PROVE  /\ \A F \in Files : Later(F)' => LinesOf(F)' = 0
                    /\ Pending' <= (m_count' % SplitLines) + 1 + LateLines'
                    /\ \A F \in Files : F # m_fp' => LinesOf(F)' <= SplitLines + LateLines'
  BY <1>5 DEF FileInv
<1>6. /\ \A F \in Files : Later(F) => LinesOf(F) = 0
      /\ Pending <= (m_count % SplitLines) + 1 + LateLines
      /\ \A F \in Files : F # m_fp => LinesOf(F) <= SplitLines + LateLines
  BY DEF FileInv
<1>7. ~Later(m_fp)
  <2>1. m_fp.day = m_today /\ m_today \in Int /\ m_fp.part \in Int
    BY DEF FileInv, File, TypeOK, Days
  <2> QED BY <2>1 DEF Later
<1>8. Pending' = Pending
  <2>1. LinesOf(m_fp) \in Nat BY DEF Sized
  <2>2. /\ Len(buffered) \in Nat /\ Cardinality(InPipe) \in Nat /\ Len(m_log_queue) \in Nat
        /\ InHand \in Nat /\ InHand' = InHand
    BY DEF Sized, InHand
  <2> QED BY <1>4, <2>1, <2>2 DEF Pending
<1>9. \A F \in Files : F # m_fp => LinesOf(F)' = LinesOf(F) BY <1>3 DEF Sized
<1>10. \A F \in Files : Later(F)' => LinesOf(F)' = 0 BY <1>3, <1>6, <1>7, <1>9
<1> QED BY <1>1, <1>2, <1>6, <1>8, <1>9, <1>10

\* A later file is opened: what was buffered has gone to the old one.
LEMMA FilesOpened ==
    ASSUME TypeOK, TypeOK', Sized, Sized', Synchronous, FileInv, Sync,
           max_queue_size' = max_queue_size, m_log_queue' = m_log_queue, hand' = hand,
           wentBack' = (wentBack \/ m_today' < m_today),
           m_fp' = File(m_today', m_count' \div SplitLines),
           m_count' % SplitLines = 0,
           m_today' >= m_today => Later(m_fp') /\ \A F \in Files : Later(F)' => Later(F)
    PROVE  FileInv'
<1>1. LateLines' = LateLines BY DEF LateLines
<1> SUFFICES ASSUME ~wentBack'
             PROVE  /\ \A F \in Files : Later(F)' => LinesOf(F)' = 0
                    /\ Pending' <= (m_count' % SplitLines) + 1 + LateLines'
                    /\ \A F \in Files : F # m_fp' => LinesOf(F)' <= SplitLines + LateLines'
  BY DEF FileInv
<1>2. ~wentBack /\ m_today' >= m_today
  <2>1. m_today \in Int /\ m_today' \in Int BY DEF TypeOK, Days
  <2>2. ~(wentBack \/ m_today' < m_today) OBVIOUS
  <2> QED BY <2>1, <2>2
<1>3. /\ \A F \in Files : Later(F) => LinesOf(F) = 0
      /\ Pending <= (m_count % SplitLines) + 1 + LateLines
      /\ \A F \in Files : F # m_fp => LinesOf(F) <= SplitLines + LateLines
  BY <1>2 DEF FileInv
<1>4. ~Later(m_fp)
  <2>1. m_fp.day = m_today /\ m_today \in Int /\ m_fp.part \in Int
    BY DEF FileInv, File, TypeOK, Days
  <2> QED BY <2>1 DEF Later
<1>5. \A F \in Files : /\ LinesOf(F)' = LinesOf(F) + (IF F = m_fp THEN Len(buffered) ELSE 0)
                       /\ F # m_fp => LinesOf(F)' = LinesOf(F)
  BY SyncMoves DEF LinesOf, Sized
<1>6. \A F \in Files : Later(F)' => LinesOf(F)' = 0 BY <1>2, <1>3, <1>4, <1>5
<1>7. LinesOf(m_fp)' = 0 /\ Len(buffered') = 0
  <2>1. PICK G \in Files : G = m_fp' BY DEF Sized
  <2>2. LinesOf(m_fp)' = LinesOf(G)' BY <2>1 DEF LinesOf
  <2>3. Later(G) BY <1>2, <2>1
  <2>4. LinesOf(G)' = 0 BY <1>3, <1>4, <1>5, <2>3
  <2> QED BY <2>2, <2>4, SyncMoves
<1>8. Pending' <= 1 + LateLines
  <2>1. Pending' = Cardinality(InPipe') + Len(m_log_queue) + InHand
    BY <1>7 DEF Pending, Sized, InHand
  <2>2. Cardinality(InPipe') \in Nat /\ Cardinality(InPipe') <= Cardinality(Writers) BY DEF Sized
  <2>3. CASE max_queue_size = 0
    <3>1. Len(m_log_queue) = 0 /\ InHand = 0 BY <2>3 DEF Sized, Synchronous, InHand
    <3> QED BY <2>1, <2>2, <2>3, <3>1 DEF LateLines, Sized
  <2>4. CASE max_queue_size # 0
    <3>1. LateLines = (Cardinality(Writers) - 1) + (max_queue_size + 1) BY <2>4 DEF LateLines
    <3>2. PICK c \in Nat, p \in Nat, q \in Nat, m \in Nat, h \in Nat :
             /\ c = Cardinality(Writers) /\ p = Cardinality(InPipe') /\ q = Len(m_log_queue)
             /\ m = max_queue_size /\ h = InHand /\ p <= c /\ q <= m /\ h <= 1
      BY <2>2 DEF Sized
    <3>3. p + q + h <= 1 + ((c - 1) + (m + 1)) BY <3>2
    <3> QED BY <2>1, <3>1, <3>2, <3>3
  <2> QED BY <2>3, <2>4
<1>9. ASSUME NEW F \in Files, F # m_fp' PROVE LinesOf(F)' <= SplitLines + LateLines
  <2>1. CASE F # m_fp BY <1>3, <1>5, <2>1
  <2>2. CASE F = m_fp
    <3>1. m_count % SplitLines \in Nat /\ m_count % SplitLines <= SplitLines - 1 /\ SplitLines \in Nat
      <4>1. m_count \in Nat /\ SplitLines \in Nat \ {0} BY Parameters DEF TypeOK, Parameters
      <4> QED BY <4>1, Division
    <3>2. LinesOf(F)' = LinesOf(m_fp) + Len(buffered) BY <1>5, <2>2
    <3>3. LinesOf(m_fp) \in Nat /\ Len(buffered) \in Nat BY DEF Sized
    <3>4. LinesOf(m_fp) + Len(buffered) <= Pending
      <4>1. PICK a \in Nat, b \in Nat, p \in Nat, q \in Nat, h \in Nat :
               /\ a = LinesOf(m_fp) /\ b = Len(buffered) /\ p = Cardinality(InPipe)
               /\ q = Len(m_log_queue) /\ h = InHand
        BY <3>3 DEF Sized
      <4>2. Pending = a + b + p + q + h BY <4>1 DEF Pending
      <4> QED BY <4>1, <4>2
    <3>5. Pending \in Nat /\ LateLines \in Int BY DEF Sized
    <3> QED BY <1>3, <3>1, <3>2, <3>3, <3>4, <3>5
  <2> QED BY <2>1, <2>2
<1>10. Pending' \in Nat /\ LateLines \in Int BY DEF Pending, Sized
<1> QED BY <1>1, <1>6, <1>8, <1>9, <1>10

\* A line is counted for the file that is open.
LEMMA FilesCounted ==
    ASSUME TypeOK, Sized, Sized', FileInv, (m_count + 1) % SplitLines # 0,
           m_count' = m_count + 1, m_today' = m_today, m_fp' = m_fp, wentBack' = wentBack,
           UNCHANGED <<buffered, disk>>, max_queue_size' = max_queue_size,
           m_log_queue' = m_log_queue, hand' = hand,
           Cardinality(InPipe') = Cardinality(InPipe) + 1
    PROVE  FileInv'
<1>1. LateLines' = LateLines BY DEF LateLines
<1>2. \A F \in Files : LinesOf(F)' = LinesOf(F) /\ (Later(F)' <=> Later(F))
  BY DEF LinesOf, Later
<1>3. LinesOf(m_fp)' = LinesOf(m_fp) BY DEF LinesOf
<1>4. m_count \in Nat /\ SplitLines \in Nat \ {0} BY Parameters DEF TypeOK, Parameters
<1>5. (m_count + 1) % SplitLines = (m_count % SplitLines) + 1
      /\ (m_count + 1) \div SplitLines = m_count \div SplitLines
  BY <1>4, NextRemainder
<1>6. (m_fp = File(m_today, m_count \div SplitLines))' BY <1>5 DEF FileInv, File
<1> SUFFICES ASSUME ~wentBack
             PROVE  /\ \A F \in Files : Later(F)' => LinesOf(F)' = 0
                    /\ Pending' <= (m_count' % SplitLines) + 1 + LateLines'
                    /\ \A F \in Files : F # m_fp' => LinesOf(F)' <= SplitLines + LateLines'
  BY <1>6 DEF FileInv
<1>7. /\ \A F \in Files : Later(F) => LinesOf(F) = 0
      /\ Pending <= (m_count % SplitLines) + 1 + LateLines
      /\ \A F \in Files : F # m_fp => LinesOf(F) <= SplitLines + LateLines
  BY DEF FileInv
<1>8. Pending' = Pending + 1 /\ Pending \in Nat /\ LateLines \in Int
  <2>1. PICK a \in Nat, b \in Nat, p \in Nat, q \in Nat, h \in Nat :
           /\ a = LinesOf(m_fp) /\ b = Len(buffered) /\ p = Cardinality(InPipe)
           /\ q = Len(m_log_queue) /\ h = InHand
    BY DEF Sized
  <2>2. Pending = a + b + p + q + h BY <2>1 DEF Pending
  <2>3. Pending' = a + b + (p + 1) + q + h BY <1>3, <2>1 DEF Pending, InHand
  <2>4. a + b + (p + 1) + q + h = (a + b + p + q + h) + 1 OBVIOUS
  <2>5. Pending \in Nat /\ LateLines \in Int BY DEF Sized
  <2> QED BY <2>2, <2>3, <2>4, <2>5
<1>9. m_count % SplitLines \in Nat BY <1>4, Division
<1>10. Pending' <= (m_count' % SplitLines) + 1 + LateLines BY <1>5, <1>7, <1>8, <1>9
<1> QED BY <1>1, <1>2, <1>7, <1>10

LEMMA FilesStep ==
    ASSUME TypeOK, TypeOK', Begun, Synchronous, FileInv, [Next]_vars
    PROVE  FileInv'
<1>a. Sized BY SizesOf
<1>b. TypeOK' => Sized' BY SizesOf, PTL
<1>c. Sized' BY <1>b
<1>d. buffered \in Seq(Lines) /\ m_log_queue \in Seq(Lines) BY DEF TypeOK
<1>1. ASSUME NEW w \in Writers, ReadClock(w) \/ Localtime(w) \/ CopyTm(w) \/ Check(w)
      PROVE  FileInv'
  <2>1. PICK p : Goto(w, p) /\ (pc[w] \in {"check", "push", "direct"} <=> p \in {"check", "push", "direct"})
    BY <1>1 DEF ReadClock, Localtime, CopyTm, Check
  <2>2. Cardinality(InPipe') = Cardinality(InPipe) BY <2>1, Pipe
  <2>3. /\ UNCHANGED names /\ wentBack' = wentBack /\ max_queue_size' = max_queue_size
        /\ disk' = disk /\ buffered' = buffered /\ m_log_queue' = m_log_queue /\ hand' = hand
    BY <1>1 DEF ReadClock, Localtime, CopyTm, Check, files, queue
  <2>4. Len(buffered') + Cardinality(InPipe') + Len(m_log_queue') + InHand'
        <= Len(buffered) + Cardinality(InPipe) + Len(m_log_queue) + InHand
    BY <1>a, <2>2, <2>3 DEF Sized, InHand
  <2> QED BY <1>a, <1>c, <2>3, <2>4, FilesSame
<1>2. ASSUME NEW w \in Writers, Count(w) PROVE FileInv'
  <2>1. pc[w] = "count" /\ Goto(w, "check") BY <1>2 DEF Count
  <2>2. Cardinality(InPipe') = Cardinality(InPipe) + 1 BY <2>1, Pipe
  <2>3. /\ max_queue_size' = max_queue_size /\ m_log_queue' = m_log_queue /\ hand' = hand
        /\ wentBack' = (wentBack \/ tm[w] < m_today)
    BY <1>2 DEF Count, queue
  <2>4. /\ m_today \in Int /\ tm[w] \in Int /\ m_count \in Nat /\ SplitLines \in Nat \ {0}
        /\ m_fp = File(m_today, m_count \div SplitLines)
    BY Parameters DEF TypeOK, Days, FileInv, Parameters
  <2>5. CASE m_today # tm[w]
    <3>1. Sync /\ m_today' = tm[w] /\ m_count' = 0 /\ m_fp' = File(tm[w], 0)
      BY <1>2, <2>5 DEF Count
    <3>2. 0 % SplitLines = 0 /\ 0 \div SplitLines = 0 BY <2>4
    <3>3. m_today' >= m_today => Later(m_fp') /\ \A F \in Files : Later(F)' => Later(F)
      <4> SUFFICES ASSUME m_today' >= m_today
                   PROVE  Later(m_fp') /\ \A F \in Files : Later(F)' => Later(F)
        OBVIOUS
      <4>1. tm[w] > m_today BY <2>4, <2>5, <3>1
      <4>2. Later(m_fp') BY <3>1, <4>1 DEF Later, File
      <4>3. ASSUME NEW F \in Files, Later(F)' PROVE Later(F)
        <5>1. F.day \in Int BY DEF Files, Days
        <5>2. F.day >= tm[w] BY <2>4, <3>1, <4>3, <5>1 DEF Later
        <5> QED BY <2>4, <4>1, <5>1, <5>2 DEF Later
      <4> QED BY <4>2, <4>3
    <3>4. wentBack' = (wentBack \/ m_today' < m_today) BY <2>3, <3>1
    <3> QED BY <1>a, <1>c, <2>3, <3>1, <3>2, <3>3, <3>4, FilesOpened
  <2>6. CASE m_today = tm[w] /\ (m_count + 1) % SplitLines = 0
    <3>1. /\ Sync /\ m_today' = m_today /\ m_count' = m_count + 1
          /\ m_fp' = File(m_today', m_count' \div SplitLines)
      BY <1>2, <2>6 DEF Count
    <3>2. m_count' \div SplitLines = (m_count \div SplitLines) + 1 BY <2>4, <2>6, <3>1, NextRemainder
    <3>3. PICK k \in Nat : k = m_count \div SplitLines BY <2>4, Division
    <3>4. m_fp.part = k /\ m_fp'.part = k + 1 /\ m_fp'.day = m_today
      BY <2>4, <3>1, <3>2, <3>3 DEF File
    <3>5. Later(m_fp') BY <3>4 DEF Later
    <3>6. ASSUME NEW F \in Files, Later(F)' PROVE Later(F)
      <4>1. F.part \in Int BY DEF Files
      <4> QED BY <3>1, <3>4, <3>6, <4>1 DEF Later
    <3>7. wentBack' = (wentBack \/ m_today' < m_today) BY <2>3, <2>6, <3>1
    <3>8. m_count' % SplitLines = 0 BY <2>6, <3>1
    <3> QED BY <1>a, <1>c, <2>3, <3>1, <3>5, <3>6, <3>7, <3>8, FilesOpened
  <2>7. CASE m_today = tm[w] /\ (m_count + 1) % SplitLines # 0
    <3>1. /\ m_count' = m_count + 1 /\ m_today' = m_today /\ m_fp' = m_fp
          /\ UNCHANGED <<buffered, disk>>
      BY <1>2, <2>7 DEF Count
    <3>2. wentBack' = wentBack
      <4>1. ~(tm[w] < m_today) BY <2>4, <2>7
      <4>2. wentBack \in BOOLEAN BY DEF TypeOK
      <4> QED BY <2>3, <4>1, <4>2
    <3> QED BY <1>a, <1>c, <2>2, <2>3, <2>7, <3>1, <3>2, FilesCounted
  <2> QED BY <2>5, <2>6, <2>7
<1>3. ASSUME NEW w \in Writers, Push(w) PROVE FileInv'
  <2>1. pc[w] = "push" /\ Goto(w, "flush") BY <1>3 DEF Push
  <2>2. Cardinality(InPipe') = Cardinality(InPipe) - 1 BY <2>1, Pipe
  <2>3. /\ UNCHANGED names /\ wentBack' = wentBack /\ max_queue_size' = max_queue_size
        /\ disk' = disk /\ buffered' = buffered /\ hand' = hand
    BY <1>3 DEF Push, files
  <2>4. Len(m_log_queue') <= Len(m_log_queue) + 1
    <3>1. PICK k \in Nat : k = Len(m_log_queue) BY <1>d
    <3>2. Line(w) \in Lines BY <2>1, LineType
    <3> QED BY <1>3, <1>d, <3>1, <3>2 DEF Push
  <2>5. Len(buffered') + Cardinality(InPipe') + Len(m_log_queue') + InHand'
        <= Len(buffered) + Cardinality(InPipe) + Len(m_log_queue) + InHand
    <3>1. PICK b \in Nat, p \in Nat, q \in Nat, h \in Nat, k \in Nat :
             /\ b = Len(buffered) /\ p = Cardinality(InPipe) /\ q = Len(m_log_queue)
             /\ h = InHand /\ k = Len(m_log_queue')
      BY <1>a, <1>c DEF Sized
    <3>2. k <= q + 1 BY <2>4, <3>1
    <3>3. b + (p - 1) + k + h <= b + p + q + h BY <3>2
    <3>4. InHand' = h BY <2>3, <3>1 DEF InHand
    <3> QED BY <2>2, <2>3, <3>1, <3>3, <3>4
  <2> QED BY <1>a, <1>c, <2>3, <2>5, FilesSame
<1>4. ASSUME NEW w \in Writers, Direct(w) PROVE FileInv'
  <2>1. pc[w] = "direct" /\ Goto(w, "flush") BY <1>4 DEF Direct
  <2>2. Cardinality(InPipe') = Cardinality(InPipe) - 1 BY <2>1, Pipe
  <2>3. /\ UNCHANGED names /\ wentBack' = wentBack /\ max_queue_size' = max_queue_size
        /\ disk' = disk /\ m_log_queue' = m_log_queue /\ hand' = hand
    BY <1>4 DEF Direct, queue
  <2>4. Len(buffered') = Len(buffered) + 1
    <3>1. Line(w) \in Lines BY <2>1, LineType
    <3> QED BY <1>4, <1>d, <3>1 DEF Direct
  <2>5. Len(buffered') + Cardinality(InPipe') + Len(m_log_queue') + InHand'
        <= Len(buffered) + Cardinality(InPipe) + Len(m_log_queue) + InHand
    <3>1. PICK b \in Nat, p \in Nat, q \in Nat, h \in Nat :
             /\ b = Len(buffered) /\ p = Cardinality(InPipe) /\ q = Len(m_log_queue)
             /\ h = InHand
      BY <1>a DEF Sized
    <3>2. (b + 1) + (p - 1) + q + h <= b + p + q + h BY <3>1
    <3>3. InHand' = h BY <2>3, <3>1 DEF InHand
    <3> QED BY <2>2, <2>3, <2>4, <3>1, <3>2, <3>3
  <2> QED BY <1>a, <1>c, <2>3, <2>5, FilesSame
<1>5. ASSUME NEW w \in Writers, Flush(w) PROVE FileInv'
  <2>1. pc[w] = "flush" /\ Goto(w, "idle") BY <1>5 DEF Flush
  <2>2. Cardinality(InPipe') = Cardinality(InPipe) BY <2>1, Pipe
  <2>3. /\ UNCHANGED names /\ wentBack' = wentBack /\ max_queue_size' = max_queue_size
        /\ Sync /\ m_log_queue' = m_log_queue /\ hand' = hand
    BY <1>5 DEF Flush, queue
  <2> QED BY <1>a, <1>c, <2>2, <2>3, FilesFlushed
<1>6. ASSUME Pop PROVE FileInv'
  <2>1. /\ UNCHANGED names /\ wentBack' = wentBack /\ max_queue_size' = max_queue_size
        /\ disk' = disk /\ buffered' = buffered /\ pc' = pc
        /\ m_log_queue # <<>> /\ m_log_queue' = Tail(m_log_queue) /\ hand = None
    BY <1>6 DEF Pop, files
  <2>2. Len(m_log_queue') = Len(m_log_queue) - 1 BY <1>d, <2>1
  <2>3. InHand = 0 /\ InHand' \in Nat /\ InHand' <= 1 /\ InPipe' = InPipe
    BY <1>c, <2>1 DEF InHand, InPipe, Sized
  <2>4. Len(buffered') + Cardinality(InPipe') + Len(m_log_queue') + InHand'
        <= Len(buffered) + Cardinality(InPipe) + Len(m_log_queue) + InHand
    <3>1. PICK b \in Nat, p \in Nat, q \in Nat, h \in Nat :
             /\ b = Len(buffered) /\ p = Cardinality(InPipe) /\ q = Len(m_log_queue)
             /\ h = InHand'
      BY <1>a, <2>3 DEF Sized
    <3>2. b + p + (q - 1) + h <= b + p + q + 0 BY <2>3, <3>1
    <3> QED BY <2>1, <2>2, <2>3, <3>1, <3>2
  <2> QED BY <1>a, <1>c, <2>1, <2>4, FilesSame
<1>7. ASSUME Fputs PROVE FileInv'
  <2>1. /\ UNCHANGED names /\ wentBack' = wentBack /\ max_queue_size' = max_queue_size
        /\ disk' = disk /\ m_log_queue' = m_log_queue /\ pc' = pc
        /\ hand # None /\ hand' = None /\ buffered' = Append(buffered, hand)
    BY <1>7 DEF Fputs, queue
  <2>2. Len(buffered') = Len(buffered) + 1
    <3>1. hand \in Lines BY <2>1 DEF TypeOK
    <3> QED BY <1>d, <2>1, <3>1
  <2>3. InHand = 1 /\ InHand' = 0 /\ InPipe' = InPipe BY <2>1 DEF InHand, InPipe
  <2>4. Len(buffered') + Cardinality(InPipe') + Len(m_log_queue') + InHand'
        <= Len(buffered) + Cardinality(InPipe) + Len(m_log_queue) + InHand
    <3>1. PICK b \in Nat, p \in Nat, q \in Nat :
             b = Len(buffered) /\ p = Cardinality(InPipe) /\ q = Len(m_log_queue)
      BY <1>a DEF Sized
    <3>2. (b + 1) + p + q + 0 <= b + p + q + 1 BY <3>1
    <3> QED BY <2>1, <2>2, <2>3, <3>1, <3>2
  <2> QED BY <1>a, <1>c, <2>1, <2>4, FilesSame
<1>8. ASSUME Midnight \/ UNCHANGED vars PROVE FileInv'
  <2>1. /\ UNCHANGED names /\ wentBack' = wentBack /\ max_queue_size' = max_queue_size
        /\ disk' = disk /\ buffered' = buffered /\ m_log_queue' = m_log_queue /\ hand' = hand
        /\ pc' = pc
    BY <1>8 DEF Midnight, vars, files, queue
  <2>2. InPipe' = InPipe BY <2>1 DEF InPipe
  <2>3. Len(buffered') + Cardinality(InPipe') + Len(m_log_queue') + InHand'
        <= Len(buffered) + Cardinality(InPipe) + Len(m_log_queue) + InHand
    BY <1>a, <2>1, <2>2 DEF Sized, InHand
  <2> QED BY <1>a, <1>c, <2>1, <2>3, FilesSame
<1> QED BY <1>1, <1>2, <1>3, <1>4, <1>5, <1>6, <1>7, <1>8 DEF Next, WriteLog

-----------------------------------------------------------------------------
(* The theorems. *)

LEMMA InitInv == Init => LogInv
<1> SUFFICES ASSUME Init PROVE LogInv
  OBVIOUS
<1>1. TypeOK /\ Begun BY TypeInit
<1>2. disk = <<>> /\ buffered = <<>> /\ m_log_queue = <<>> /\ hand = None /\ dropped = {}
  BY DEF Init
<1>3. \A l \in Lines : ~Finished(l)
  <2> SUFFICES ASSUME NEW l \in Lines, Finished(l) PROVE FALSE
    OBVIOUS
  <2>1. l[1] \in Writers /\ l[2] \in 1..MaxLines /\ MaxLines \in Nat BY Parameters DEF Lines, Parameters
  <2>2. n[l[1]] = 0 BY <2>1 DEF Init
  <2> QED BY <2>1, <2>2 DEF Finished
<1>4. LinesKept
  <2>1. Numbered BY <1>1, CopiesCounted
  <2> SUFFICES ASSUME NEW l \in Lines PROVE Copies(l) = 0
    BY <1>3 DEF LinesKept
  <2>2. hand # l BY <1>2, NoneIsNoLine
  <2>3. Places(l) = 0 BY <1>2, <2>2, CountedNone DEF Places
  <2> QED BY <2>1, <2>3 DEF Numbered
<1>5. DroppedFinished BY <1>2 DEF DroppedFinished
<1>6. Synchronous BY <1>2 DEF Synchronous, Init
<1>7. FileInv
  <2>1. Sized BY <1>1, SizesOf
  <2>2. m_count = 0 /\ m_today = 1 /\ m_fp = File(1, 0) BY DEF Init
  <2>3. SplitLines \in Nat \ {0} BY Parameters DEF Parameters
  <2>4. 0 \div SplitLines = 0 /\ 0 % SplitLines = 0 BY <2>3
  <2>5. \A F : LinesOf(F) = 0 BY <1>2, CountedNone DEF LinesOf
  <2>6. Pending = 0
    <3>1. InPipe = {} BY DEF InPipe, Init
    <3>2. Cardinality(InPipe) = 0 BY <3>1, FS_EmptySet
    <3> QED BY <1>2, <2>5, <3>2 DEF Pending, InHand
  <2>7. LateLines \in Int /\ LateLines >= 0 - 1 BY <2>1 DEF Sized
  <2> QED BY <2>2, <2>3, <2>4, <2>5, <2>6, <2>7 DEF FileInv
<1> QED BY <1>1, <1>4, <1>5, <1>6, <1>7 DEF LogInv

LEMMA StepInv == LogInv /\ [Next]_vars => LogInv'
<1> SUFFICES ASSUME LogInv, [Next]_vars PROVE LogInv'
  OBVIOUS
<1>1. TypeOK /\ Begun /\ DroppedFinished /\ LinesKept /\ Synchronous /\ FileInv BY DEF LogInv
<1>2. TypeOK' /\ Begun' BY <1>1, TypeStep
<1>3. LinesKept' /\ DroppedFinished' BY <1>1, <1>2, KeptStep
<1>4. Synchronous' BY <1>1, <1>2, SynchronousStep
<1>5. FileInv' BY <1>1, <1>2, FilesStep
<1> QED BY <1>2, <1>3, <1>4, <1>5 DEF LogInv

LEMMA Inductive == Spec => []LogInv
<1>1. Init => LogInv BY InitInv
<1>2. LogInv /\ [Next]_vars => LogInv' BY StepInv
<1> QED BY <1>1, <1>2, PTL DEF Spec

\* write_log(), flush() and async_write_log(), for any writers and any size of the queue: every
\* line is written once, whatever rotations and other writers come between, unless push() has
\* refused it; and a synchronous log has a line on the disk when LOG_INFO() returns.
THEOREM LinesAreKept == Spec => []LinesInv
<1>1. LogInv => LinesInv BY Durable DEF LogInv, LinesInv
<1> QED BY <1>1, Inductive, PTL

\* The rotation of write_log(), for every m_split_lines: a file has m_split_lines lines and at
\* most one for each other writer, each place of the queue and the hand of the flush thread.
THEOREM FilesAreBounded == Spec => []SplitBound
<1>1. LogInv => SplitBound
  <2> SUFFICES ASSUME LogInv, ~wentBack, NEW i \in DOMAIN disk
               PROVE  Cardinality({j \in DOMAIN disk : disk[j].file = disk[i].file})
                      <= SplitLines + LateLines
    BY DEF SplitBound
  <2>1. TypeOK /\ FileInv BY DEF LogInv
  <2>2. Sized BY <2>1, SizesOf
  <2>3. disk \in Seq(Records) BY <2>1, WrittenType
  <2>4. \A j \in DOMAIN disk : disk[j] \in Records BY <2>3
  <2>5. PICK F \in Files : F = disk[i].file BY <2>4 DEF Records
  <2>6. {j \in DOMAIN disk : disk[j].file = disk[i].file} = Hits(disk, OfFile(F))
    BY <2>4, <2>5 DEF Hits, OfFile
  <2>7. LinesOf(F) <= SplitLines + LateLines
    <3>1. CASE F # m_fp BY <2>1, <3>1 DEF FileInv
    <3>2. CASE F = m_fp
      <4>1. m_count \in Nat /\ SplitLines \in Nat \ {0} BY <2>1, Parameters DEF TypeOK, Parameters
      <4>2. m_count % SplitLines \in Nat /\ m_count % SplitLines <= SplitLines - 1 BY <4>1, Division
      <4>3. Pending <= (m_count % SplitLines) + 1 + LateLines BY <2>1 DEF FileInv
      <4>4. PICK a \in Nat, b \in Nat, p \in Nat, q \in Nat, h \in Nat :
               /\ a = LinesOf(m_fp) /\ b = Len(buffered) /\ p = Cardinality(InPipe)
               /\ q = Len(m_log_queue) /\ h = InHand
        BY <2>2 DEF Sized
      <4>5. Pending = a + b + p + q + h BY <4>4 DEF Pending
      <4>6. LateLines \in Int BY <2>2 DEF Sized
      <4>7. PICK r \in Nat, x \in Int, s \in Nat :
               r = m_count % SplitLines /\ x = LateLines /\ s = SplitLines
        BY <4>1, <4>2, <4>6
      <4>8. a + b + p + q + h <= r + 1 + x /\ r <= s - 1 BY <4>2, <4>3, <4>5, <4>7
      <4>9. a <= s + x BY <4>8
      <4> QED BY <3>2, <4>4, <4>7, <4>9
    <3> QED BY <3>1, <3>2
  <2> QED BY <2>6, <2>7 DEF LinesOf, Counted
<1> QED BY <1>1, Inductive, PTL
=============================================================================
