----------------------------- MODULE UserTable -----------------------------
(***************************************************************************)
(* Registration and login in http_conn::do_request(): worker threads look  *)
(* names up in the global map users without m_lock, insert into it and     *)
(* into the database table user under m_lock, and initmysql_result() loads *)
(* the map from the table when the server starts.                          *)
(***************************************************************************)
EXTENDS Integers, Sequences, FiniteSetsExt

CONSTANTS
    Threads,    \* workers
    Names, Passwords,
    None,
    MaxRows     \* bound on the rows of the table

Pages == {"log", "registerError", "welcome", "logError"}

ASSUME Parameters == MaxRows \in Nat /\ None \notin Threads \cup Names \cup Passwords \cup Pages

VARIABLES
    up,      \* the server runs
    table,   \* the rows of the table user, in the order they are read
    users,   \* the map: users[n] is the password of n, or None
    m_lock,  \* the thread that holds it
    pc,      \* "idle", "find", "lock", "query", "insert", "answer"
    job,     \* the request in hand: [kind, name, passwd]
    res,     \* mysql_query() succeeded
    page,    \* the page chosen for the answer
    told,    \* history: accounts registered with success, as <<name, passwd>>
    raced    \* history: names that two registrations looked for and did not find

vars == <<up, table, users, m_lock, pc, job, res, page, told, raced>>

Row(n, p) == [username |-> n, passwd |-> p]
NoJob == [kind |-> None, name |-> None, passwd |-> None]

\* initmysql_result(): every row overwrites what an earlier one put in the map.
Load(rows) ==
    [n \in Names |->
        LET of == {i \in DOMAIN rows : rows[i].username = n}
        IN  IF of = {} THEN None ELSE rows[Max(of)].passwd]

Init ==
    /\ up = TRUE
    /\ table = <<>> /\ users = Load(table)
    /\ m_lock = None
    /\ pc = [t \in Threads |-> "idle"]
    /\ job = [t \in Threads |-> NoJob]
    /\ res = [t \in Threads |-> FALSE]
    /\ page = [t \in Threads |-> None]
    /\ told = {} /\ raced = {}

Goto(t, place) == pc' = [pc EXCEPT ![t] = place]

-----------------------------------------------------------------------------
(* A POST to /2... or /3... with a name and a password. *)
Begin(t) ==
    /\ up /\ pc[t] = "idle"
    /\ \E kind \in {"login", "register"}, n \in Names, p \in Passwords :
         job' = [job EXCEPT ![t] = [kind |-> kind, name |-> n, passwd |-> p]]
    /\ Goto(t, "find")
    /\ page' = [page EXCEPT ![t] = None]
    /\ UNCHANGED <<up, table, users, m_lock, res, told, raced>>

\* users.find() is not locked: while another thread is in users.insert() the search may
\* miss a name that is there.
Found(t) == IF users[job[t].name] = None THEN {FALSE}
            ELSE IF \E o \in Threads \ {t} : pc[o] = "insert" THEN {TRUE, FALSE}
            ELSE {TRUE}

Answer(t, name) == page' = [page EXCEPT ![t] = name] /\ Goto(t, "answer")

\* The name is in the map already, or another thread is about to insert it.
Unsettled(t) ==
    \/ users[job[t].name] # None
    \/ \E o \in Threads \ {t} : /\ job[o].kind = "register" /\ job[o].name = job[t].name
                               /\ pc[o] \in {"lock", "query", "insert"}

FindToRegister(t) ==
    /\ up /\ pc[t] = "find" /\ job[t].kind = "register"
    /\ \/ /\ TRUE \in Found(t)
          /\ Answer(t, "registerError")
          /\ UNCHANGED raced
       \/ /\ FALSE \in Found(t)
          /\ Goto(t, "lock")
          /\ raced' = IF Unsettled(t) THEN raced \cup {job[t].name} ELSE raced
          /\ UNCHANGED page
    /\ UNCHANGED <<up, table, users, m_lock, job, res, told>>

FindToLogin(t) ==
    /\ up /\ pc[t] = "find" /\ job[t].kind = "login"
    /\ \/ /\ TRUE \in Found(t)
          /\ Answer(t, IF users[job[t].name] = job[t].passwd THEN "welcome" ELSE "logError")
       \/ FALSE \in Found(t) /\ Answer(t, "logError")
    /\ UNCHANGED <<up, table, users, m_lock, job, res, told, raced>>

Lock(t) ==
    /\ up /\ pc[t] = "lock" /\ m_lock = None
    /\ m_lock' = t
    /\ Goto(t, "query")
    /\ UNCHANGED <<up, table, users, job, res, page, told, raced>>

(* mysql_query(INSERT).  The schema of the table is not in the repository: the database
   may accept any row and may refuse any, for a key or because it fails. *)
Query(t) ==
    /\ up /\ pc[t] = "query" /\ Len(table) < MaxRows
    /\ \/ /\ table' = Append(table, Row(job[t].name, job[t].passwd))
          /\ res' = [res EXCEPT ![t] = TRUE]
       \/ /\ res' = [res EXCEPT ![t] = FALSE]
          /\ UNCHANGED table
    /\ Goto(t, "insert")
    /\ UNCHANGED <<up, users, m_lock, job, page, told, raced>>

MutantInsert(t) ==
    /\ up /\ pc[t] = "insert"
    /\ users' = [users EXCEPT ![job[t].name] = job[t].passwd]
    /\ m_lock' = None
    /\ Answer(t, IF res[t] THEN "log" ELSE "registerError")
    /\ UNCHANGED <<up, table, job, res, told, raced>>

MutantAnswerFirst(t) ==
    /\ up /\ pc[t] = "insert"
    /\ users' = [users EXCEPT ![job[t].name] = IF @ = None THEN job[t].passwd ELSE @]
    /\ m_lock' = None
    /\ Answer(t, "log")
    /\ UNCHANGED <<up, table, job, res, told, raced>>

(* users.insert(), which leaves a name that is there as it is, unlock() and the page. *)
Insert(t) ==
    /\ up /\ pc[t] = "insert"
    /\ users' = [users EXCEPT ![job[t].name] = IF @ = None THEN job[t].passwd ELSE @]
    /\ m_lock' = None
    /\ Answer(t, IF res[t] THEN "log" ELSE "registerError")
    /\ UNCHANGED <<up, table, job, res, told, raced>>

Finish(t) ==
    /\ up /\ pc[t] = "answer"
    /\ told' = IF page[t] = "log" THEN told \cup {<<job[t].name, job[t].passwd>>} ELSE told
    /\ Goto(t, "idle")
    /\ job' = [job EXCEPT ![t] = NoJob]
    /\ page' = [page EXCEPT ![t] = None]
    /\ res' = [res EXCEPT ![t] = FALSE]
    /\ UNCHANGED <<up, table, users, m_lock, raced>>

-----------------------------------------------------------------------------
(* The server is killed anywhere and started again: the map is gone, the table stays. *)
Crash ==
    /\ up /\ up' = FALSE
    /\ users' = [n \in Names |-> None]
    /\ m_lock' = None
    /\ pc' = [t \in Threads |-> "idle"]
    /\ job' = [t \in Threads |-> NoJob]
    /\ res' = [t \in Threads |-> FALSE]
    /\ page' = [t \in Threads |-> None]
    /\ UNCHANGED <<table, told, raced>>

MutantStart ==
    /\ ~up /\ up' = TRUE
    /\ UNCHANGED <<users, table, m_lock, pc, job, res, page, told, raced>>

Start ==
    /\ ~up /\ up' = TRUE
    /\ users' = Load(table)
    /\ UNCHANGED <<table, m_lock, pc, job, res, page, told, raced>>

Step(t) == \/ Begin(t)
           \/ FindToRegister(t)
           \/ FindToLogin(t)
           \/ Lock(t)
           \/ Query(t)
           \/ Insert(t)
           \/ Finish(t)

Next == (\E t \in Threads : Step(t)) \/ Crash \/ Start

Spec == Init /\ [][Next]_vars

-----------------------------------------------------------------------------
Accounts == [kind : {"login", "register"}, name : Names, passwd : Passwords]

TypeOK ==
    /\ up \in BOOLEAN
    /\ table \in Seq([username : Names, passwd : Passwords])
    /\ users \in [Names -> Passwords \cup {None}]
    /\ m_lock \in Threads \cup {None}
    /\ pc \in [Threads -> {"idle", "find", "lock", "query", "insert", "answer"}]
    /\ job \in [Threads -> Accounts \cup {NoJob}]
    /\ res \in [Threads -> BOOLEAN]
    /\ page \in [Threads -> Pages \cup {None}]
    /\ told \subseteq Names \X Passwords /\ raced \subseteq Names

InTable(n, p) == \E i \in DOMAIN table : table[i] = Row(n, p)

\* An account is in the database before its owner is told that it exists: no crash takes
\* it away.
ToldIsStored ==
    /\ \A a \in told : InTable(a[1], a[2])
    /\ \A t \in Threads : page[t] = "log" => InTable(job[t].name, job[t].passwd)

\* A name that was registered with success stays taken, also after a restart.
ToldStaysTaken == up => \A a \in told : users[a[1]] # None

\* No registration changes the password of a name while the server runs.
PasswordKept == [][up /\ up' => \A n \in Names : users[n] # None => users'[n] = users[n]]_vars

\* One registration at a time is between its INSERT and users.insert(): when none is, every
\* row of the table is in the map.
MapHasTable ==
    up /\ m_lock = None => \A i \in DOMAIN table : users[table[i].username] # None

\* Map, table and what the clients were told agree, through crashes and failed INSERTs.
TableInv == TypeOK /\ ToldIsStored /\ ToldStaysTaken /\ MapHasTable

\* Whoever was told that his account exists is let in with its password, now and after
\* any restart, unless the look-ups of two registrations of the name overlapped.
ToldCanLogIn == up => \A a \in told : a[1] \notin raced => users[a[1]] = a[2]

\* A name has one row, unless the look-ups of two registrations of it overlapped: the map,
\* which is all that is consulted, never forgets a name that the table has.
NamesUnique ==
    \A i, j \in DOMAIN table :
        table[i].username = table[j].username /\ table[i].username \notin raced => i = j

\* What an owner relies on: his name is his alone and his password opens it.
AccountsWork == ToldCanLogIn /\ NamesUnique
=============================================================================
