--------------------------- MODULE UserTableProofs ---------------------------
(***************************************************************************)
(* Proofs about UserTable: what the clients were told, the table and the   *)
(* map agree, for any number of workers, names and rows, with INSERTs that *)
(* fail and crashes at every point.                                        *)
(***************************************************************************)
EXTENDS UserTable, WellFoundedInduction, TLAPS

(* What TableInv needs to be inductive. *)

\* A registration that has not found its name and has not answered.
Registering(t) == pc[t] \in {"lock", "query", "insert"}

\* A thread that is busy has a request; only a registration goes past the look-up.
JobShape ==
    \A t \in Threads :
        /\ pc[t] # "idle" => up /\ job[t] \in Accounts
        /\ Registering(t) => job[t].kind = "register"
        /\ page[t] = "log" => pc[t] = "answer"

\* m_lock is held from the INSERT to the insert() into the map.
LockShape == \A t \in Threads : m_lock = t <=> pc[t] \in {"query", "insert"}

\* A row has been entered when its INSERT succeeded.
InsertedIsStored ==
    \A t \in Threads : pc[t] = "insert" /\ res[t] => InTable(job[t].name, job[t].passwd)

\* A row is in the map, or the one that made it holds the lock and is about to put it there.
Pending(n) == \E t \in Threads : pc[t] = "insert" /\ job[t].name = n
MapCatchesUp ==
    up => \A i \in DOMAIN table : users[table[i].username] # None \/ Pending(table[i].username)

\* Who will be told that he is registered is in the map.
AnsweredIsTaken == \A t \in Threads : page[t] = "log" => users[job[t].name] # None

StoreInv == /\ TableInv
            /\ JobShape
            /\ LockShape
            /\ InsertedIsStored
            /\ MapCatchesUp
            /\ AnsweredIsTaken

(* What AccountsWork needs: about the names that no two look-ups raced for. *)

\* The only registration of a name finds it neither in the map nor, before its own INSERT,
\* in the table.
Alone ==
    \A t \in Threads :
        Registering(t) /\ job[t].name \notin raced =>
            /\ users[job[t].name] = None
            /\ \A o \in Threads \ {t} : Registering(o) => job[o].name # job[t].name
            /\ \A i \in DOMAIN table : table[i].username = job[t].name =>
                   pc[t] = "insert" /\ res[t] /\ table[i].passwd = job[t].passwd

\* The map holds the password of the row.
MapAgrees ==
    up => \A i \in DOMAIN table :
              table[i].username \notin raced =>
                  \/ users[table[i].username] = table[i].passwd
                  \/ Pending(table[i].username)

AnsweredCanLogIn ==
    \A t \in Threads :
        page[t] = "log" /\ job[t].name \notin raced => users[job[t].name] = job[t].passwd

AccountInv == AccountsWork /\ Alone /\ MapAgrees /\ AnsweredCanLogIn

-----------------------------------------------------------------------------
(* Rows and the map. *)

RowType == [username : Names, passwd : Passwords]

LEMMA LessThan == \E R : /\ IsWellFoundedOn(R, Nat)
                         /\ \A x, y \in Nat : x < y => <<x, y>> \in R
<1> DEFINE R == OpToRel(<, Nat)
<1>1. IsWellFoundedOn(R, Nat) BY NatLessThanWellFounded
<1>2. \A x, y \in Nat : x < y => <<x, y>> \in R BY DEF OpToRel
<1> HIDE DEF R
<1> QED BY Zenon, <1>1, <1>2

\* The induction that is needed: a set of numbers has a smallest one.
LEMMA Smallest ==
    ASSUME NEW T, T \subseteq Nat, T # {}
    PROVE  \E m \in T : \A x \in T : m <= x
<1>1. PICK R : IsWellFoundedOn(R, Nat) /\ \A x, y \in Nat : x < y => <<x, y>> \in R BY LessThan
<1>2. IsWellFoundedOn(R, Nat) BY <1>1
<1>3. PICK m \in T : \A y \in T : ~ (<<y, m>> \in R) BY <1>2, WFMin, Zenon
<1>4. ASSUME NEW x \in T PROVE m <= x
  <2>1. ~(x < m) BY <1>1, <1>3, Zenon
  <2>2. x \in Nat /\ m \in Nat OBVIOUS
  <2> QED BY <2>1, <2>2
<1> QED BY <1>4

\* A non-empty set of positions of a sequence has a last one.
LEMMA LastPosition ==
    ASSUME NEW k \in Nat, NEW S, S \subseteq 1..k, S # {}
    PROVE  Max(S) \in S
<1> DEFINE T == {k - i : i \in S}
<1>1. T \subseteq Nat /\ T # {}
  <2>1. \A i \in S : k - i \in Nat OBVIOUS
  <2>2. PICK i \in S : TRUE OBVIOUS
  <2> QED BY <2>1, <2>2
<1>2. \E m \in T : \A x \in T : m <= x
  <2> HIDE DEF T
  <2> QED BY <1>1, Smallest
<1>3. PICK i \in S : \A x \in T : k - i <= x BY <1>2
<1>4. \A j \in S : i >= j
  <2> SUFFICES ASSUME NEW j \in S PROVE i >= j OBVIOUS
  <2>1. k - i <= k - j BY <1>3
  <2>2. i \in 1..k /\ j \in 1..k OBVIOUS
  <2> HIDE DEF T
  <2> QED BY <2>1, <2>2
<1> QED BY <1>3, <1>4 DEF Max

\* initmysql_result(): the map has the names of the table, each with the password of one of
\* its rows.
LEMMA LoadIs ==
    ASSUME NEW rows \in Seq(RowType), NEW n \in Names
    PROVE  /\ Load(rows)[n] \in Passwords \cup {None}
           /\ \A i \in DOMAIN rows : rows[i].username = n =>
                  \E j \in DOMAIN rows : rows[j].username = n /\ Load(rows)[n] = rows[j].passwd
<1> DEFINE of == {i \in DOMAIN rows : rows[i].username = n}
<1>1. Len(rows) \in Nat /\ DOMAIN rows = 1..Len(rows) OBVIOUS
<1>2. Load(rows)[n] = IF of = {} THEN None ELSE rows[Max(of)].passwd BY DEF Load
<1>3. of # {} => Max(of) \in of BY <1>1, LastPosition
<1>4. of # {} => Max(of) \in DOMAIN rows /\ rows[Max(of)].username = n BY <1>3
<1>5. \A j \in DOMAIN rows : rows[j].passwd \in Passwords
  <2>1. \A j \in 1..Len(rows) : rows[j] \in RowType OBVIOUS
  <2> QED BY <2>1, <1>1 DEF RowType
<1> HIDE DEF of
<1>6. Load(rows)[n] \in Passwords \cup {None} BY <1>2, <1>4, <1>5
<1>7. ASSUME NEW i \in DOMAIN rows, rows[i].username = n
      PROVE  \E j \in DOMAIN rows : rows[j].username = n /\ Load(rows)[n] = rows[j].passwd
  <2>1. of # {} BY <1>7 DEF of
  <2> QED BY <2>1, <1>2, <1>4
<1> QED BY <1>6, <1>7

\* An accepted INSERT adds a row after the others.
LEMMA OneRowMore ==
    ASSUME NEW rows \in Seq(RowType), NEW n \in Names, NEW p \in Passwords
    PROVE  LET more == Append(rows, Row(n, p)) IN
           /\ more \in Seq(RowType)
           /\ \A i \in DOMAIN rows : i \in DOMAIN more /\ more[i] = rows[i]
           /\ \A i \in DOMAIN more : i \in DOMAIN rows \/ (i = Len(rows) + 1 /\ more[i] = Row(n, p))
           /\ Len(rows) + 1 \in DOMAIN more /\ more[Len(rows) + 1] = Row(n, p)
           /\ Len(rows) + 1 \notin DOMAIN rows
<1>1. Row(n, p) \in RowType BY DEF Row, RowType
<1> QED BY <1>1

-----------------------------------------------------------------------------
(* StoreInv *)

LEMMA InitStore == Init => StoreInv
<1> SUFFICES ASSUME Init PROVE StoreInv OBVIOUS
<1> USE DEF Init
<1>1. table = <<>> /\ DOMAIN table = {} /\ table \in Seq(RowType) OBVIOUS
<1>2. users \in [Names -> Passwords \cup {None}] BY <1>1, LoadIs DEF Load
<1>3. TypeOK BY <1>1, <1>2 DEF TypeOK, RowType
<1>4. TableInv BY <1>1, <1>3, Parameters DEF Pages, TableInv, ToldIsStored, ToldStaysTaken, MapHasTable
<1>5. JobShape /\ LockShape BY Parameters DEF Pages, JobShape, LockShape, Registering
<1>6. InsertedIsStored /\ MapCatchesUp /\ AnsweredIsTaken
  BY <1>1, Parameters DEF Pages, InsertedIsStored, MapCatchesUp, AnsweredIsTaken
<1> QED BY <1>4, <1>5, <1>6 DEF StoreInv

\* Types: each request, page and row is one of those that there are.
LEMMA TypeStep == TypeOK /\ JobShape /\ [Next]_vars => TypeOK'
<1> SUFFICES ASSUME TypeOK, JobShape, [Next]_vars PROVE TypeOK' OBVIOUS
<1> USE DEF TypeOK, Goto, Answer, Pages
<1>1. ASSUME NEW t \in Threads, Begin(t) PROVE TypeOK'
  BY <1>1 DEF Begin, Accounts
<1>2. ASSUME NEW t \in Threads, FindToRegister(t) PROVE TypeOK'
  <2>1. job[t].name \in Names BY <1>2, Parameters DEF FindToRegister, JobShape, Accounts
  <2> QED BY <1>2, <2>1 DEF FindToRegister
<1>3. ASSUME NEW t \in Threads, FindToLogin(t) PROVE TypeOK'
  BY <1>3 DEF FindToLogin
<1>4. ASSUME NEW t \in Threads, Lock(t) PROVE TypeOK'
  BY <1>4 DEF Lock
<1>5. ASSUME NEW t \in Threads, Query(t) PROVE TypeOK'
  <2>1. job[t].name \in Names /\ job[t].passwd \in Passwords BY <1>5 DEF Query, JobShape, Accounts
  <2>2. table \in Seq(RowType) BY DEF RowType
  <2>3. table' \in Seq(RowType) BY <1>5, <2>1, <2>2, OneRowMore DEF Query
  <2> QED BY <1>5, <2>3 DEF Query, RowType
<1>6. ASSUME NEW t \in Threads, Insert(t) PROVE TypeOK'
  <2>1. job[t].name \in Names /\ job[t].passwd \in Passwords BY <1>6 DEF Insert, JobShape, Accounts
  <2> QED BY <1>6, <2>1 DEF Insert
<1>7. ASSUME NEW t \in Threads, Finish(t) PROVE TypeOK'
  <2>1. job[t].name \in Names /\ job[t].passwd \in Passwords BY <1>7 DEF Finish, JobShape, Accounts
  <2> QED BY <1>7, <2>1 DEF Finish
<1>8. CASE Crash BY <1>8 DEF Crash
<1>9. CASE Start
  <2>1. \A n \in Names : Load(table)[n] \in Passwords \cup {None} BY LoadIs DEF RowType
  <2>2. Load(table) \in [Names -> Passwords \cup {None}] BY <2>1 DEF Load
  <2> QED BY <1>9, <2>2 DEF Start
<1>10. CASE UNCHANGED vars BY <1>10 DEF vars
<1> QED BY <1>1, <1>2, <1>3, <1>4, <1>5, <1>6, <1>7, <1>8, <1>9, <1>10 DEF Next, Step

\* Requests and the lock.
LEMMA ShapeStep == TypeOK /\ JobShape /\ LockShape /\ [Next]_vars => JobShape' /\ LockShape'
<1> SUFFICES ASSUME TypeOK, JobShape, LockShape, [Next]_vars PROVE JobShape' /\ LockShape' OBVIOUS
<1> USE DEF TypeOK, JobShape, LockShape, Goto, Answer, Registering, Pages
<1>1. ASSUME NEW t \in Threads, Begin(t) PROVE JobShape' /\ LockShape'
  BY <1>1, Parameters DEF Begin, Accounts
<1>2. ASSUME NEW t \in Threads, FindToRegister(t) PROVE JobShape' /\ LockShape'
  BY <1>2 DEF FindToRegister
<1>3. ASSUME NEW t \in Threads, FindToLogin(t) PROVE JobShape' /\ LockShape'
  BY <1>3 DEF FindToLogin
<1>4. ASSUME NEW t \in Threads, Lock(t) PROVE JobShape' /\ LockShape'
  BY <1>4, Parameters DEF Lock
<1>5. ASSUME NEW t \in Threads, Query(t) PROVE JobShape' /\ LockShape'
  BY <1>5 DEF Query
<1>6. ASSUME NEW t \in Threads, Insert(t) PROVE JobShape' /\ LockShape'
  BY <1>6, Parameters DEF Insert
<1>7. ASSUME NEW t \in Threads, Finish(t) PROVE JobShape' /\ LockShape'
  BY <1>7, Parameters DEF Finish
<1>8. CASE Crash BY <1>8, Parameters DEF Crash
<1>9. CASE Start BY <1>9 DEF Start
<1>10. CASE UNCHANGED vars BY <1>10 DEF vars
<1> QED BY <1>1, <1>2, <1>3, <1>4, <1>5, <1>6, <1>7, <1>8, <1>9, <1>10 DEF Next, Step

\* Rows stay where they are.
LEMMA RowsStay ==
    ASSUME TypeOK, JobShape, [Next]_vars
    PROVE  \A i \in DOMAIN table : i \in DOMAIN table' /\ table'[i] = table[i]
<1>1. ASSUME NEW t \in Threads, Query(t)
      PROVE  \A i \in DOMAIN table : i \in DOMAIN table' /\ table'[i] = table[i]
  <2>1. job[t].name \in Names /\ job[t].passwd \in Passwords
    BY <1>1 DEF Query, TypeOK, JobShape, Accounts
  <2>2. table \in Seq(RowType) BY DEF TypeOK, RowType
  <2> QED BY <1>1, <2>1, <2>2, OneRowMore DEF Query
<1>2. (\A t \in Threads : ~Query(t)) => UNCHANGED table
  BY DEF Next, Step, Begin, FindToRegister, FindToLogin, Lock, Insert, Finish, Crash, Start, vars
<1> QED BY <1>1, <1>2

LEMMA StaysInTable ==
    ASSUME TypeOK, JobShape, [Next]_vars, NEW n, NEW p, InTable(n, p)
    PROVE  InTable(n, p)'
BY RowsStay DEF InTable, Row

\* A name that the map has stays, with its password, while the server runs.
LEMMA MapStays ==
    ASSUME TypeOK, [Next]_vars, up, up', NEW m \in Names, users[m] # None
    PROVE  users'[m] = users[m]
<1> USE DEF TypeOK
<1>1. ASSUME NEW t \in Threads, Insert(t) PROVE users'[m] = users[m]
  BY <1>1 DEF Insert
<1>2. (\A t \in Threads : ~Insert(t)) => UNCHANGED users
  BY DEF Next, Step, Begin, FindToRegister, FindToLogin, Lock, Query, Finish, Crash, Start, vars
<1> QED BY <1>1, <1>2

\* Who is told, and who will be, has a row.
LEMMA StoredStep ==
    StoreInv /\ TypeOK' /\ [Next]_vars => ToldIsStored' /\ InsertedIsStored'
<1> SUFFICES ASSUME StoreInv, TypeOK', [Next]_vars PROVE ToldIsStored' /\ InsertedIsStored' OBVIOUS
<1> USE DEF StoreInv, TableInv
<1> DEFINE Stored(t) == /\ page[t] = "log" => InTable(job[t].name, job[t].passwd)
                        /\ pc[t] = "insert" /\ res[t] => InTable(job[t].name, job[t].passwd)
           Same(t) == /\ page'[t] = "log" => job'[t] = job[t] /\ (page[t] = "log" \/ (pc[t] = "insert" /\ res[t]))
                      /\ pc'[t] = "insert" /\ res'[t] => job'[t] = job[t] /\ pc[t] = "insert" /\ res[t]
           ToldSame == \A a \in told' : a \in told \/ \E t \in Threads :
                           page[t] = "log" /\ a = <<job[t].name, job[t].passwd>>
<1>1. \A a \in told : InTable(a[1], a[2])' BY StaysInTable DEF ToldIsStored
<1>2. \A t \in Threads : Stored(t) BY DEF ToldIsStored, InsertedIsStored
<1>3. ASSUME NEW t \in Threads, Same(t) PROVE Stored(t)'
  BY <1>2, <1>3, RowsStay DEF InTable, Row
<1>4. ASSUME ToldSame PROVE \A a \in told' : InTable(a[1], a[2])'
  BY <1>1, <1>2, <1>4, RowsStay DEF InTable, Row
<1>5. ASSUME NEW t \in Threads, Query(t) PROVE ToldSame /\ \A o \in Threads : Stored(o)'
  <2>1. \A o \in Threads \ {t} : Same(o) BY <1>5 DEF Query, TypeOK, Goto
  <2>2. ToldSame BY <1>5 DEF Query
  <2>3. page'[t] # "log" BY <1>5, Parameters DEF Query, TypeOK, JobShape
  <2>4. res'[t] => InTable(job[t].name, job[t].passwd)'
    <3>1. job[t].name \in Names /\ job[t].passwd \in Passwords
      BY <1>5 DEF Query, TypeOK, JobShape, Accounts
    <3>2. table \in Seq(RowType) BY DEF TypeOK, RowType
    <3>3. ASSUME res'[t] PROVE table' = Append(table, Row(job[t].name, job[t].passwd))
      BY <1>5, <3>3 DEF Query, TypeOK
    <3>4. res'[t] => \E i \in DOMAIN table' : table'[i] = Row(job[t].name, job[t].passwd)
      BY <3>1, <3>2, <3>3, OneRowMore
    <3> QED BY <1>5, <3>4 DEF Query, InTable
  <2>5. Stored(t)' BY <2>3, <2>4
  <2> HIDE DEF Stored, Same, ToldSame
  <2> QED BY <1>3, <2>1, <2>2, <2>5
<1>6. (\A t \in Threads : ~Query(t)) => ToldSame /\ \A t \in Threads : Same(t)
  <2> USE DEF TypeOK, JobShape, Goto, Answer
  <2> SUFFICES ASSUME \A t \in Threads : ~Query(t) PROVE ToldSame /\ \A t \in Threads : Same(t)
    OBVIOUS
  <2>1. ASSUME NEW t \in Threads, Begin(t) PROVE ToldSame /\ \A o \in Threads : Same(o)
    BY <2>1, Parameters DEF Begin, Pages
  <2>2. ASSUME NEW t \in Threads, FindToRegister(t) \/ FindToLogin(t)
        PROVE  ToldSame /\ \A o \in Threads : Same(o)
    BY <2>2 DEF FindToRegister, FindToLogin
  <2>3. ASSUME NEW t \in Threads, Lock(t) PROVE ToldSame /\ \A o \in Threads : Same(o)
    BY <2>3 DEF Lock
  <2>4. ASSUME NEW t \in Threads, Insert(t) PROVE ToldSame /\ \A o \in Threads : Same(o)
    BY <2>4 DEF Insert
  <2>5. ASSUME NEW t \in Threads, Finish(t) PROVE ToldSame /\ \A o \in Threads : Same(o)
    BY <2>5, Parameters DEF Finish, Pages
  <2>6. CASE Crash BY <2>6, Parameters DEF Crash, Pages
  <2>7. CASE Start BY <2>7 DEF Start
  <2>8. CASE UNCHANGED vars BY <2>8 DEF vars
  <2> QED BY <2>1, <2>2, <2>3, <2>4, <2>5, <2>6, <2>7, <2>8 DEF Next, Step
<1>7. ToldSame /\ \A t \in Threads : Stored(t)'
  <2> HIDE DEF Stored, Same, ToldSame
  <2> QED BY <1>3, <1>5, <1>6
<1>8. \A a \in told' : InTable(a[1], a[2])'
  <2> HIDE DEF Stored, Same, ToldSame
  <2> QED BY <1>4, <1>7
<1> QED BY <1>7, <1>8 DEF ToldIsStored, InsertedIsStored

\* After a restart the map has every name of the table.
LEMMA StartLoads ==
    ASSUME TypeOK, Start, NEW i \in DOMAIN table
    PROVE  users'[table[i].username] # None
<1>1. table \in Seq(RowType) BY DEF TypeOK, RowType
<1>2. \A j \in DOMAIN table : table[j].username \in Names /\ table[j].passwd \in Passwords
  <2>1. \A j \in 1..Len(table) : table[j] \in RowType BY <1>1
  <2> QED BY <2>1, <1>1 DEF RowType
<1>3. PICK j \in DOMAIN table : Load(table)[table[i].username] = table[j].passwd
  BY <1>1, <1>2, LoadIs
<1> QED BY <1>2, <1>3, Parameters DEF Start

LEMMA RowIsTyped ==
    ASSUME TypeOK, NEW i \in DOMAIN table
    PROVE  /\ table[i].username \in Names /\ table[i].passwd \in Passwords
           /\ \A n, p : table[i] = Row(n, p) <=> table[i].username = n /\ table[i].passwd = p
<1>1. table \in Seq(RowType) BY DEF TypeOK, RowType
<1>2. \A j \in 1..Len(table) : table[j] \in RowType BY <1>1
<1>3. table[i] \in RowType BY <1>1, <1>2
<1> QED BY <1>3 DEF RowType, Row

\* Names that were registered stay taken, now and after a restart.
LEMMA TakenStep ==
    StoreInv /\ TypeOK' /\ [Next]_vars => ToldStaysTaken' /\ AnsweredIsTaken'
<1> SUFFICES ASSUME StoreInv, TypeOK', [Next]_vars PROVE ToldStaysTaken' /\ AnsweredIsTaken' OBVIOUS
<1> USE DEF StoreInv, TableInv
<1>1. ASSUME NEW t \in Threads, page'[t] = "log", page[t] = "log", job'[t] = job[t], up, up'
      PROVE  users'[job'[t].name] # None
  <2>1. users[job[t].name] # None BY <1>1 DEF AnsweredIsTaken
  <2>2. job[t].name \in Names BY <1>1 DEF JobShape, Accounts
  <2> QED BY <1>1, <2>1, <2>2, MapStays
<1>2. ASSUME NEW a \in told, up, up' PROVE users'[a[1]] # None
  BY <1>2, MapStays DEF ToldStaysTaken, TypeOK
<1>3. ASSUME NEW t \in Threads, Insert(t) PROVE ToldStaysTaken' /\ AnsweredIsTaken'
  <2>1. up /\ up' BY <1>3 DEF Insert
  <2>2. ToldStaysTaken' BY <2>1, <1>2, <1>3 DEF Insert, ToldStaysTaken
  <2>3. \A o \in Threads \ {t} : page'[o] = page[o] /\ job'[o] = job[o]
    BY <1>3 DEF Insert, Answer, TypeOK
  <2>4. users'[job'[t].name] # None
    BY <1>3, Parameters DEF Insert, TypeOK, JobShape, Accounts
  <2> QED BY <2>1, <2>2, <2>3, <2>4, <1>1 DEF AnsweredIsTaken
<1>4. ASSUME NEW t \in Threads, Finish(t) PROVE ToldStaysTaken' /\ AnsweredIsTaken'
  <2>1. up /\ up' BY <1>4 DEF Finish
  <2>2. page[t] = "log" => users'[job[t].name] # None
    BY <1>4 DEF Finish, AnsweredIsTaken
  <2>3. ToldStaysTaken'
    BY <1>2, <1>4, <2>1, <2>2 DEF Finish, ToldStaysTaken
  <2>4. \A o \in Threads : page'[o] = "log" => page[o] = "log" /\ job'[o] = job[o]
    BY <1>4, Parameters DEF Finish, TypeOK, Pages
  <2> QED BY <2>1, <2>3, <2>4, <1>1 DEF AnsweredIsTaken
<1>5. ASSUME NEW t \in Threads,
             Begin(t) \/ FindToRegister(t) \/ FindToLogin(t) \/ Lock(t) \/ Query(t)
      PROVE  ToldStaysTaken' /\ AnsweredIsTaken'
  <2> USE DEF Begin, FindToRegister, FindToLogin, Lock, Query
  <2>0. up /\ UNCHANGED <<up, told>> BY <1>5
  <2>1. up /\ up' /\ told' = told BY <2>0
  <2>2. ToldStaysTaken' BY <2>1, <1>2 DEF ToldStaysTaken
  <2>3. \A o \in Threads : page'[o] = "log" => page[o] = "log" /\ job'[o] = job[o]
    BY <1>5, Parameters DEF TypeOK, JobShape, Answer, Pages
  <2> QED BY <2>1, <2>2, <2>3, <1>1 DEF AnsweredIsTaken
<1>6. CASE Crash
  BY <1>6, Parameters DEF Crash, ToldStaysTaken, AnsweredIsTaken, Pages
<1>7. CASE Start
  <2>1. \A t \in Threads : page'[t] # "log" BY <1>7 DEF Start, JobShape
  <2>2. \A a \in told : \E i \in DOMAIN table : a[1] = table[i].username
    BY DEF ToldIsStored, InTable, Row
  <2>3. ToldStaysTaken' BY <1>7, <2>2, StartLoads DEF Start, ToldStaysTaken
  <2> QED BY <2>1, <2>3 DEF AnsweredIsTaken
<1>8. CASE UNCHANGED vars
  BY <1>8 DEF vars, ToldStaysTaken, AnsweredIsTaken
<1> QED BY <1>3, <1>4, <1>5, <1>6, <1>7, <1>8 DEF Next, Step

\* A row gets into the map before its registration lets go of the lock.
LEMMA CatchUpStep ==
    StoreInv /\ TypeOK' /\ JobShape' /\ LockShape' /\ [Next]_vars => MapCatchesUp' /\ MapHasTable'
<1> SUFFICES ASSUME StoreInv, TypeOK', JobShape', LockShape', [Next]_vars
             PROVE  MapCatchesUp' /\ MapHasTable'
  OBVIOUS
<1> USE DEF StoreInv, TableInv
<1>1. ASSUME up, up', NEW i \in DOMAIN table, users[table[i].username] # None
      PROVE  users'[table[i].username] # None
  BY <1>1, MapStays, RowIsTyped
<1>2. ASSUME NEW t \in Threads, Insert(t) PROVE MapCatchesUp'
  <2>1. up /\ up' /\ table' = table BY <1>2 DEF Insert
  <2>2. ASSUME NEW i \in DOMAIN table, Pending(table[i].username)
        PROVE  users'[table[i].username] # None \/ Pending(table[i].username)'
    <3>1. PICK o \in Threads : pc[o] = "insert" /\ job[o].name = table[i].username
      BY <2>2 DEF Pending
    <3>2. o = t BY <3>1, <1>2 DEF Insert, LockShape
    <3> QED BY <3>1, <3>2, <1>2, Parameters DEF Insert, TypeOK, JobShape, Accounts
  <2> QED BY <2>1, <2>2, <1>1 DEF MapCatchesUp
<1>3. ASSUME NEW t \in Threads, Query(t) PROVE MapCatchesUp'
  <2>1. up /\ up' /\ users' = users BY <1>3 DEF Query
  <2>2. job[t].name \in Names /\ job[t].passwd \in Passwords
    BY <1>3 DEF Query, TypeOK, JobShape, Accounts
  <2>3. \A o \in Threads : pc[o] = "insert" => pc'[o] = "insert" /\ job'[o] = job[o]
    BY <1>3 DEF Query, Goto, TypeOK
  <2>4. pc'[t] = "insert" /\ job'[t] = job[t] BY <1>3 DEF Query, Goto, TypeOK
  <2>5. \A n : Pending(n) => Pending(n)' BY <2>3 DEF Pending
  <2>6. ASSUME NEW i \in DOMAIN table', i \notin DOMAIN table
        PROVE  table'[i].username = job[t].name
    <3>1. table \in Seq(RowType) BY DEF TypeOK, RowType
    <3>2. table' = Append(table, Row(job[t].name, job[t].passwd)) BY <1>3, <2>6 DEF Query
    <3>3. table'[i] = Row(job[t].name, job[t].passwd) BY <3>1, <3>2, <2>2, <2>6, OneRowMore
    <3> QED BY <3>3 DEF Row
  <2>7. ASSUME NEW i \in DOMAIN table'
        PROVE  users'[table'[i].username] # None \/ Pending(table[i].username)'
    <3>1. CASE i \in DOMAIN table
      <4>1. table'[i] = table[i] BY <3>1, RowsStay
      <4> QED BY <4>1, <3>1, <2>1, <2>3 DEF MapCatchesUp, Pending
    <3>2. CASE i \notin DOMAIN table BY <3>2, <2>4, <2>6 DEF Pending
    <3> QED BY <3>1, <3>2
  <2> QED BY <2>7 DEF MapCatchesUp
<1>4. ASSUME NEW t \in Threads,
             Begin(t) \/ FindToRegister(t) \/ FindToLogin(t) \/ Lock(t) \/ Finish(t)
      PROVE  MapCatchesUp'
  <2> USE DEF Begin, FindToRegister, FindToLogin, Lock, Finish
  <2>0. up /\ UNCHANGED <<up, table, users>> BY <1>4
  <2>1. up /\ up' /\ table' = table /\ users' = users BY <2>0
  <2>2. \A o \in Threads : pc[o] = "insert" => pc'[o] = "insert" /\ job'[o] = job[o]
    BY <1>4 DEF Goto, Answer, TypeOK
  <2> QED BY <2>1, <2>2 DEF MapCatchesUp, Pending
<1>5. ASSUME Crash PROVE MapCatchesUp'
  <2>1. ~up' BY <1>5 DEF Crash
  <2> QED BY <2>1 DEF MapCatchesUp
<1>6. ASSUME Start PROVE MapCatchesUp'
  <2>1. table' = table BY <1>6 DEF Start
  <2>2. \A i \in DOMAIN table : users'[table[i].username] # None BY <1>6, StartLoads
  <2> QED BY <2>1, <2>2 DEF MapCatchesUp
<1>7. ASSUME UNCHANGED vars PROVE MapCatchesUp'
  <2>1. (up' <=> up) /\ table' = table /\ users' = users BY <1>7 DEF vars
  <2>2. \A n : Pending(n)' <=> Pending(n) BY <1>7 DEF vars, Pending
  <2> QED BY <2>1, <2>2 DEF MapCatchesUp
<1>8. MapCatchesUp' BY <1>2, <1>3, <1>4, <1>5, <1>6, <1>7 DEF Next, Step
<1>9. m_lock' = None => \A n : ~Pending(n)' BY Parameters DEF LockShape, Pending
<1> QED BY <1>8, <1>9 DEF MapCatchesUp, MapHasTable
LEMMA StoreStep == StoreInv /\ [Next]_vars => StoreInv'
<1> SUFFICES ASSUME StoreInv, [Next]_vars PROVE StoreInv' OBVIOUS
<1>1. TypeOK' BY TypeStep DEF StoreInv, TableInv
<1>2. JobShape' /\ LockShape' BY ShapeStep DEF StoreInv, TableInv
<1>3. ToldIsStored' /\ InsertedIsStored' BY <1>1, StoredStep
<1>4. ToldStaysTaken' /\ AnsweredIsTaken' BY <1>1, TakenStep
<1>5. MapCatchesUp' /\ MapHasTable' BY <1>1, <1>2, CatchUpStep
<1> QED BY <1>1, <1>2, <1>3, <1>4, <1>5 DEF StoreInv, TableInv

LEMMA StoreAlways == Spec => []StoreInv
BY InitStore, StoreStep, PTL DEF Spec

\* What the clients were told, the table and the map agree: whoever was told that he is
\* registered has a row and a taken name, through failed INSERTs and crashes, and outside
\* m_lock the map has every name of the table.
THEOREM TableIsRight == Spec => []TableInv
<1>1. StoreInv => TableInv BY DEF StoreInv
<1> QED BY <1>1, StoreAlways, PTL

\* No registration, however it overlaps with others, changes a password that is in the map.
THEOREM PasswordIsKept == Spec => PasswordKept
<1>1. StoreInv /\ [Next]_vars =>
          [up /\ up' => \A n \in Names : users[n] # None => users'[n] = users[n]]_vars
  BY MapStays DEF StoreInv, TableInv
<1> QED BY <1>1, StoreAlways, PTL DEF Spec, PasswordKept

-----------------------------------------------------------------------------
(* AccountInv *)

LEMMA InitAccount == Init => AccountInv
<1> SUFFICES ASSUME Init PROVE AccountInv OBVIOUS
<1> USE DEF Init
<1>1. DOMAIN table = {} OBVIOUS
<1>2. AccountsWork BY <1>1 DEF AccountsWork, ToldCanLogIn, NamesUnique
<1>3. Alone /\ MapAgrees /\ AnsweredCanLogIn
  BY <1>1, Parameters DEF Alone, MapAgrees, AnsweredCanLogIn, Registering, Pages
<1> QED BY <1>2, <1>3 DEF AccountInv

\* Steps that change neither the map nor the table: the requests in hand go on.
LEMMA QuietStep ==
    ASSUME StoreInv, AccountInv, [Next]_vars, NEW t \in Threads,
           Begin(t) \/ FindToLogin(t) \/ Lock(t) \/ Finish(t)
    PROVE  AccountInv'
<1> USE DEF StoreInv, TableInv, AccountInv, AccountsWork
<1> USE DEF Begin, FindToLogin, Lock, Finish
<1>0. up /\ UNCHANGED <<up, table, users, raced>> OBVIOUS
<1>1. up /\ up' /\ table' = table /\ users' = users /\ raced' = raced BY <1>0
<1>2. \A o \in Threads : Registering(o)' =>
          /\ Registering(o) /\ job'[o] = job[o]
          /\ pc[o] = "insert" => pc'[o] = "insert" /\ res'[o] = res[o]
  BY DEF Registering, Goto, Answer, TypeOK
<1>3. \A o \in Threads : pc[o] = "insert" => pc'[o] = "insert" /\ job'[o] = job[o]
  BY DEF Goto, Answer, TypeOK
<1>4. \A o \in Threads : page'[o] = "log" => page[o] = "log" /\ job'[o] = job[o]
  BY Parameters DEF Goto, Answer, TypeOK, Pages
<1>5. \A a \in told' : a \in told \/ \E o \in Threads :
          page[o] = "log" /\ a = <<job[o].name, job[o].passwd>>
  OBVIOUS
<1>6. Alone' BY <1>1, <1>2 DEF Alone
<1>7. MapAgrees' BY <1>1, <1>3 DEF MapAgrees, Pending
<1>8. AnsweredCanLogIn' BY <1>1, <1>4 DEF AnsweredCanLogIn
<1>9. ToldCanLogIn' BY <1>1, <1>5 DEF ToldCanLogIn, AnsweredCanLogIn
<1>10. NamesUnique' BY <1>1 DEF NamesUnique
<1> QED BY <1>6, <1>7, <1>8, <1>9, <1>10

\* The look-up of a registration: a name that is not yet raced for is nowhere.
LEMMA FindStep ==
    ASSUME StoreInv, AccountInv, [Next]_vars, NEW t \in Threads, FindToRegister(t)
    PROVE  AccountInv'
<1> USE DEF StoreInv, TableInv, AccountInv, AccountsWork
<1>1. up /\ up' /\ table' = table /\ users' = users /\ told' = told /\ job' = job /\ res' = res
  BY DEF FindToRegister
<1>2. raced \subseteq raced' BY DEF FindToRegister
<1>3. \A o \in Threads \ {t} : pc'[o] = pc[o] /\ page'[o] = page[o]
  BY DEF FindToRegister, Goto, Answer, TypeOK
<1>4. pc[t] = "find" /\ job[t].kind = "register" /\ page'[t] # "log"
  BY DEF FindToRegister, Goto, Answer, TypeOK, JobShape
<1>5. pc'[t] \in {"answer", "lock"} BY DEF FindToRegister, Goto, Answer, TypeOK
<1>6. Registering(t)' /\ job[t].name \notin raced' => ~Unsettled(t)
  BY <1>4 DEF FindToRegister, Registering, Goto, Answer, TypeOK
<1>7. ASSUME Registering(t)', job[t].name \notin raced'
      PROVE  /\ users[job[t].name] = None
             /\ \A o \in Threads \ {t} : Registering(o) => job[o].name # job[t].name
             /\ \A i \in DOMAIN table : table[i].username # job[t].name
  <2>1. users[job[t].name] = None BY <1>6, <1>7 DEF Unsettled
  <2>2. \A o \in Threads \ {t} : Registering(o) => job[o].name # job[t].name
    BY <1>6, <1>7 DEF Unsettled, JobShape, Registering
  <2>3. ~Pending(job[t].name) BY <2>2, <1>4 DEF Pending, Registering
  <2>4. \A i \in DOMAIN table : table[i].username # job[t].name
    BY <1>1, <2>1, <2>3 DEF MapCatchesUp
  <2> QED BY <2>1, <2>2, <2>4
<1>8. ASSUME NEW o \in Threads, Registering(o)', job'[o].name \notin raced'
      PROVE  /\ users'[job'[o].name] = None
             /\ \A q \in Threads \ {o} : Registering(q)' => job'[q].name # job'[o].name
             /\ \A i \in DOMAIN table' : table'[i].username = job'[o].name =>
                    pc'[o] = "insert" /\ res'[o] /\ table'[i].passwd = job'[o].passwd
  <2>1. CASE o = t BY <2>1, <1>1, <1>3, <1>7, <1>8 DEF Registering
  <2>2. CASE o # t
    <3>1. Registering(o) /\ job[o].name \notin raced
      BY <1>1, <1>2, <1>3, <1>8, <2>2 DEF Registering
    <3>2. Registering(t)' => job[t].name # job[o].name
      BY <1>1, <1>7, <1>8, <2>2, <3>1
    <3> QED BY <3>1, <3>2, <2>2, <1>1, <1>3 DEF Alone, Registering
  <2> QED BY <2>1, <2>2
<1>9. Alone' BY <1>8 DEF Alone
<1>10. MapAgrees'
  <2>1. \A o \in Threads : pc[o] = "insert" => pc'[o] = "insert" BY <1>3, <1>4
  <2> QED BY <2>1, <1>1, <1>2 DEF MapAgrees, Pending
<1>11. AnsweredCanLogIn' BY <1>1, <1>2, <1>3, <1>4 DEF AnsweredCanLogIn
<1>12. ToldCanLogIn' /\ NamesUnique' BY <1>1, <1>2 DEF ToldCanLogIn, NamesUnique
<1> QED BY <1>9, <1>10, <1>11, <1>12

\* The INSERT: of a name that was not raced for the table has no row yet.
LEMMA QueryStep ==
    ASSUME StoreInv, AccountInv, [Next]_vars, NEW t \in Threads, Query(t)
    PROVE  AccountInv'
<1> USE DEF StoreInv, TableInv, AccountInv, AccountsWork
<1> DEFINE n == job[t].name
           k == Len(table) + 1
           New(i) == /\ i = k /\ res'[t]
                     /\ table'[i].username = n /\ table'[i].passwd = job[t].passwd
<1>1. up /\ up' /\ users' = users /\ raced' = raced /\ told' = told /\ job' = job /\ page' = page
  BY DEF Query
<1>2. n \in Names /\ job[t].passwd \in Passwords /\ pc[t] = "query" /\ Registering(t)
  BY DEF Query, TypeOK, JobShape, Accounts, Registering
<1>3. pc'[t] = "insert" /\ \A o \in Threads \ {t} : pc'[o] = pc[o] /\ res'[o] = res[o]
  BY DEF Query, Goto, TypeOK
<1>4. \A i \in DOMAIN table : i \in DOMAIN table' /\ table'[i] = table[i] BY RowsStay
<1>5. \A i \in DOMAIN table' : i \in DOMAIN table \/ New(i)
  <2>1. CASE table' = table BY <2>1
  <2>2. CASE table' # table
    <3>1. table \in Seq(RowType) BY DEF TypeOK, RowType
    <3>2. table' = Append(table, Row(n, job[t].passwd)) /\ res'[t] BY <2>2 DEF Query, TypeOK
    <3>3. \A i \in DOMAIN table' :
              i \in DOMAIN table \/ (i = k /\ table'[i] = Row(n, job[t].passwd))
      BY <1>2, <3>1, <3>2, OneRowMore
    <3> QED BY <3>2, <3>3 DEF Row
  <2> QED BY <2>1, <2>2
<1>6. \A i \in DOMAIN table : table[i].username = n => n \in raced BY <1>2 DEF Alone
<1>7. NamesUnique'
  <2> SUFFICES ASSUME NEW i \in DOMAIN table', NEW j \in DOMAIN table',
                      table'[i].username = table'[j].username, table'[i].username \notin raced
               PROVE  i = j
    BY <1>1 DEF NamesUnique
  <2>1. CASE i \in DOMAIN table /\ j \in DOMAIN table BY <2>1, <1>4 DEF NamesUnique
  <2>2. CASE i \notin DOMAIN table \/ j \notin DOMAIN table BY <2>2, <1>4, <1>5, <1>6
  <2> QED BY <2>1, <2>2
<1>8. Alone'
  <2>1. \A o \in Threads : Registering(o)' => Registering(o) BY <1>2, <1>3 DEF Registering
  <2>2. ASSUME NEW o \in Threads, Registering(o), job[o].name \notin raced,
               NEW i \in DOMAIN table', table'[i].username = job[o].name
        PROVE  pc'[o] = "insert" /\ res'[o] /\ table'[i].passwd = job[o].passwd
    <3>1. CASE i \in DOMAIN table
      <4>1. pc[o] = "insert" /\ res[o] /\ table[i].passwd = job[o].passwd
        BY <3>1, <2>2, <1>4 DEF Alone
      <4> QED BY <4>1, <3>1, <1>2, <1>3, <1>4
    <3>2. CASE New(i)
      <4>1. o = t BY <3>2, <2>2, <1>2 DEF Alone
      <4> QED BY <4>1, <3>2, <1>3
    <3> QED BY <3>1, <3>2, <1>5
  <2> HIDE DEF New
  <2> QED BY <2>1, <2>2, <1>1 DEF Alone
<1>9. MapAgrees'
  <2>1. \A o \in Threads : pc[o] = "insert" => pc'[o] = "insert" BY <1>2, <1>3
  <2>2. \A m : Pending(m) => Pending(m)' BY <2>1, <1>1 DEF Pending
  <2>3. Pending(job[t].name)' BY <1>1, <1>3 DEF Pending
  <2>4. ASSUME NEW i \in DOMAIN table', table'[i].username \notin raced
        PROVE  users[table'[i].username] = table'[i].passwd \/ Pending(table[i].username)'
    <3>1. CASE i \in DOMAIN table
      <4>1. users[table[i].username] = table[i].passwd \/ Pending(table[i].username)
        BY <3>1, <2>4, <1>1, <1>4 DEF MapAgrees
      <4>2. Pending(table[i].username) =>
                \E o \in Threads : pc'[o] = "insert" /\ job'[o].name = table'[i].username
        BY <2>1, <1>1, <1>4, <3>1 DEF Pending
      <4> QED BY <4>1, <4>2, <3>1, <1>4 DEF Pending
    <3>2. CASE New(i) BY <3>2, <1>1, <1>3 DEF Pending
    <3> QED BY <3>1, <3>2, <1>5
  <2> QED BY <2>4, <1>1 DEF MapAgrees
<1>10. AnsweredCanLogIn' /\ ToldCanLogIn' BY <1>1 DEF AnsweredCanLogIn, ToldCanLogIn
<1> QED BY <1>7, <1>8, <1>9, <1>10

\* users.insert(): the name of a lonely registration is not in the map yet.
LEMMA InsertStep ==
    ASSUME StoreInv, AccountInv, [Next]_vars, NEW t \in Threads, Insert(t)
    PROVE  AccountInv'
<1> USE DEF StoreInv, TableInv, AccountInv, AccountsWork
<1> DEFINE n == job[t].name
<1>1. up /\ up' /\ table' = table /\ raced' = raced /\ told' = told /\ job' = job /\ res' = res
  BY DEF Insert
<1>2. n \in Names /\ job[t].passwd \in Passwords /\ pc[t] = "insert" /\ Registering(t)
  BY DEF Insert, TypeOK, JobShape, Accounts, Registering
<1>3. pc'[t] = "answer" /\ \A o \in Threads \ {t} : pc'[o] = pc[o] /\ page'[o] = page[o]
  BY DEF Insert, Answer, Goto, TypeOK
<1>4. \A m \in Names \ {n} : users'[m] = users[m] BY DEF Insert, TypeOK
<1>5. n \notin raced => users[n] = None /\ users'[n] = job[t].passwd
  BY <1>2 DEF Alone, Insert, TypeOK
<1>6. \A m \in Names : users[m] # None => users'[m] = users[m] BY <1>1, MapStays
<1>7. \A o \in Threads : Registering(o)' => o # t /\ Registering(o)
  BY <1>3 DEF Registering
<1>8. Alone'
  <2>1. ASSUME NEW o \in Threads, o # t, Registering(o), job[o].name \notin raced
        PROVE  users'[job[o].name] = None
    <3>1. job[o].name # n BY <1>2, <2>1 DEF Alone
    <3>2. job[o].name \in Names BY <2>1 DEF JobShape, Registering, Accounts
    <3> QED BY <3>1, <3>2, <1>4, <2>1 DEF Alone
  <2> QED BY <2>1, <1>1, <1>3, <1>7 DEF Alone
<1>9. MapAgrees'
  <2> SUFFICES ASSUME NEW i \in DOMAIN table, table[i].username \notin raced
               PROVE  \/ users'[table[i].username] = table[i].passwd
                      \/ \E o \in Threads : pc'[o] = "insert" /\ job[o].name = table[i].username
    BY <1>1 DEF MapAgrees, Pending
  <2>1. CASE table[i].username = n BY <2>1, <1>2, <1>5 DEF Alone
  <2>2. CASE table[i].username # n
    <3>1. users[table[i].username] = table[i].passwd
          \/ \E o \in Threads \ {t} : pc[o] = "insert" /\ job[o].name = table[i].username
      BY <2>2, <1>1 DEF MapAgrees, Pending
    <3> QED BY <3>1, <2>2, <1>3, <1>4, RowIsTyped
  <2> QED BY <2>1, <2>2
<1>10. AnsweredCanLogIn'
  <2> SUFFICES ASSUME NEW o \in Threads, page'[o] = "log", job[o].name \notin raced
               PROVE  users'[job[o].name] = job[o].passwd
    BY <1>1 DEF AnsweredCanLogIn
  <2>1. CASE o = t BY <2>1, <1>5
  <2>2. CASE o # t
    <3>1. page[o] = "log" BY <2>2, <1>3
    <3>2. job[o].name \in Names BY <3>1 DEF JobShape, Accounts
    <3> QED BY <3>1, <3>2, <1>6 DEF AnsweredCanLogIn, AnsweredIsTaken
  <2> QED BY <2>1, <2>2
<1>11. ToldCanLogIn'
  BY <1>1, <1>6 DEF ToldCanLogIn, ToldStaysTaken, TypeOK
<1>12. NamesUnique' BY <1>1 DEF NamesUnique
<1> QED BY <1>8, <1>9, <1>10, <1>11, <1>12

\* A restart: a name with one row gets the password of that row.
LEMMA StartStep ==
    ASSUME StoreInv, AccountInv, Start
    PROVE  AccountInv'
<1> USE DEF StoreInv, TableInv, AccountInv, AccountsWork
<1>1. table' = table /\ raced' = raced /\ told' = told /\ pc' = pc /\ page' = page /\ job' = job
  BY DEF Start
<1>2. \A o \in Threads : pc[o] = "idle" /\ page[o] # "log" BY DEF Start, JobShape
<1>3. ASSUME NEW i \in DOMAIN table, table[i].username \notin raced
      PROVE  users'[table[i].username] = table[i].passwd
  <2>1. table \in Seq(RowType) BY DEF TypeOK, RowType
  <2>2. table[i].username \in Names BY RowIsTyped
  <2>3. PICK j \in DOMAIN table : /\ table[j].username = table[i].username
                                  /\ Load(table)[table[i].username] = table[j].passwd
    BY <2>1, <2>2, LoadIs
  <2>4. i = j BY <2>3, <1>3 DEF NamesUnique
  <2> QED BY <2>3, <2>4 DEF Start
<1>4. \A a \in told : \E i \in DOMAIN table : table[i].username = a[1] /\ table[i].passwd = a[2]
  BY DEF ToldIsStored, InTable, Row
<1>5. ToldCanLogIn' BY <1>1, <1>3, <1>4 DEF ToldCanLogIn
<1>6. MapAgrees' BY <1>1, <1>3 DEF MapAgrees
<1>7. Alone' /\ AnsweredCanLogIn' BY <1>1, <1>2 DEF Alone, AnsweredCanLogIn, Registering
<1>8. NamesUnique' BY <1>1 DEF NamesUnique
<1> QED BY <1>5, <1>6, <1>7, <1>8

LEMMA AccountStep == StoreInv /\ AccountInv /\ [Next]_vars => AccountInv'
<1> SUFFICES ASSUME StoreInv, AccountInv, [Next]_vars PROVE AccountInv' OBVIOUS
<1>1. ASSUME Crash PROVE AccountInv'
  <2>1. /\ ~up' /\ table' = table /\ raced' = raced
        /\ \A t \in Threads : pc'[t] = "idle" /\ page'[t] = None
    BY <1>1 DEF Crash
  <2>2. AccountsWork'
    BY <2>1 DEF AccountInv, AccountsWork, ToldCanLogIn, NamesUnique
  <2>3. Alone' /\ MapAgrees' /\ AnsweredCanLogIn'
    BY <2>1, Parameters DEF Alone, MapAgrees, AnsweredCanLogIn, Registering, Pages
  <2> QED BY <2>2, <2>3 DEF AccountInv
<1>2. ASSUME UNCHANGED vars PROVE AccountInv'
  BY <1>2 DEF vars, AccountInv, AccountsWork, ToldCanLogIn, NamesUnique, Alone, MapAgrees,
              AnsweredCanLogIn, Registering, Pending
<1> QED BY <1>1, <1>2, QuietStep, FindStep, QueryStep, InsertStep, StartStep DEF Next, Step

\* Whoever was told that he is registered has a row of his own and is let in with his
\* password, now and after any restart, unless the look-ups of two registrations of the
\* name overlapped.
THEOREM AccountsAlwaysWork == Spec => []AccountsWork
<1>1. StoreInv /\ AccountInv /\ [Next]_vars => AccountInv' BY AccountStep
<1>2. AccountInv => AccountsWork BY DEF AccountInv
<1> QED BY <1>1, <1>2, InitAccount, StoreAlways, PTL DEF Spec
=============================================================================
