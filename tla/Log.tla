--------------------------------- MODULE Log ---------------------------------
(***************************************************************************)
(* Log of log/log.cpp: threads that call LOG_INFO() and the like, which    *)
(* is write_log() followed by flush(), and the thread that writes what     *)
(* they queued (async_write_log).  m_mutex is held for a whole step; the   *)
(* queue is the one BlockQueue implements.  A line is named by its writer  *)
(* and its number; a file by its day and its number within the day.        *)
(***************************************************************************)
EXTENDS Integers, Sequences, FiniteSets

CONSTANTS
    Writers,     \* threads that write log lines
    None,        \* no line
    QueueSizes,  \* values of max_queue_size of init(); 0 means synchronous
    SplitLines,  \* m_split_lines
    MaxLines,    \* bound: lines of a writer
    MaxDay       \* bound: the last day

ASSUME Parameters ==
    /\ QueueSizes \subseteq Nat /\ SplitLines \in Nat \ {0}
    /\ IsFiniteSet(Writers) /\ None \notin Writers \X Nat
    /\ MaxLines \in Nat \ {0} /\ MaxDay \in Nat \ {0}

VARIABLES
    day,          \* today, by the clock
    pc,           \* pc[w]: where writer w is
    n,            \* n[w]: the number of its current or last line
    now,          \* now[w]: the day gettimeofday() told it
    tm,           \* tm[w]: its copy my_tm
    tmbuf,        \* the static object localtime() returns a pointer to
    m_today, m_count,
    m_fp,         \* the open file
    buffered,     \* lines given to fputs() and not yet in the file
    disk,         \* lines in files, in the order they got there
    max_queue_size, \* chosen when the log is initialised
    m_log_queue,
    hand,         \* what the flush thread has taken from the queue
    dropped,      \* history: lines that push() refused
    wentBack      \* history: the log of a day was taken up again after midnight

clock == <<day, now, tm, tmbuf>>
names == <<m_today, m_count, m_fp>>
files == <<names, buffered, disk>>
queue == <<max_queue_size, m_log_queue, dropped>>
vars == <<clock, pc, n, files, queue, hand, wentBack>>

Line(w) == <<w, n[w]>>
File(d, k) == [day |-> d, part |-> k]
Goto(w, p) == pc' = [pc EXCEPT ![w] = p]

(* The Mutant operators below are plausible mistakes in the definition that follows
   them: each makes a property of this module fail. *)

Init ==
    /\ day = 1 /\ tmbuf = 1
    /\ pc = [w \in Writers |-> "idle"]
    /\ n = [w \in Writers |-> 0]
    /\ now = [w \in Writers |-> 1]
    /\ tm = [w \in Writers |-> 1]
    /\ m_today = 1 /\ m_count = 0 /\ m_fp = File(1, 0)
    /\ buffered = <<>> /\ disk = <<>> /\ hand = None
    /\ max_queue_size \in QueueSizes /\ m_log_queue = <<>>
    /\ dropped = {} /\ wentBack = FALSE

-----------------------------------------------------------------------------
(* write_log() *)

ReadClock(w) ==
    /\ pc[w] = "idle" /\ n[w] < MaxLines
    /\ n' = [n EXCEPT ![w] = @ + 1]
    /\ now' = [now EXCEPT ![w] = day]
    /\ Goto(w, "localtime")
    /\ UNCHANGED <<day, tm, tmbuf, files, queue, hand, wentBack>>

Localtime(w) ==
    /\ pc[w] = "localtime"
    /\ tmbuf' = now[w]
    /\ Goto(w, "copy")
    /\ UNCHANGED <<day, now, tm, n, files, queue, hand, wentBack>>

\* my_tm = *sys_tm, which another thread's localtime() may have changed.
CopyTm(w) ==
    /\ pc[w] = "copy"
    /\ tm' = [tm EXCEPT ![w] = tmbuf]
    /\ Goto(w, "count")
    /\ UNCHANGED <<day, now, tmbuf, n, files, queue, hand, wentBack>>

\* What was buffered for m_fp gets to the file, in order.
Out(lines) == disk \o [i \in DOMAIN lines |-> [file |-> m_fp, line |-> lines[i]]]
Sync == disk' = Out(buffered) /\ buffered' = <<>>

MutantCount(w) ==
    /\ pc[w] = "count"
    /\ m_count' = m_count + 1
    /\ Goto(w, "check")
    /\ UNCHANGED <<clock, n, m_today, m_fp, buffered, disk, queue, hand, wentBack>>

\* A line is counted; at midnight and after m_split_lines lines fflush(), fclose()
\* and fopen() of the next file.
Count(w) ==
    /\ pc[w] = "count"
    /\ \/ /\ m_today # tm[w]
          /\ Sync
          /\ m_today' = tm[w] /\ m_count' = 0
          /\ m_fp' = File(tm[w], 0)
       \/ /\ m_today = tm[w] /\ (m_count + 1) % SplitLines = 0
          /\ Sync
          /\ m_count' = m_count + 1
          /\ m_fp' = File(tm[w], (m_count + 1) \div SplitLines)
          /\ UNCHANGED m_today
       \/ /\ m_today = tm[w] /\ (m_count + 1) % SplitLines # 0
          /\ m_count' = m_count + 1
          /\ UNCHANGED <<m_today, m_fp, buffered, disk>>
    /\ Goto(w, "check")
    /\ wentBack' = (wentBack \/ tm[w] < m_today)
    /\ UNCHANGED <<clock, n, queue, hand>>

Full == Len(m_log_queue) >= max_queue_size

\* The line is formatted in m_buf under the mutex; then full() is asked.
Check(w) ==
    /\ pc[w] = "check"
    /\ Goto(w, IF max_queue_size > 0 /\ ~Full THEN "push" ELSE "direct")
    /\ UNCHANGED <<clock, n, files, queue, hand, wentBack>>

\* push(), whose answer is ignored.
Push(w) ==
    /\ pc[w] = "push"
    /\ IF Full
       THEN dropped' = dropped \cup {Line(w)} /\ UNCHANGED m_log_queue
       ELSE m_log_queue' = Append(m_log_queue, Line(w)) /\ UNCHANGED dropped
    /\ Goto(w, "flush")
    /\ UNCHANGED <<clock, n, files, max_queue_size, hand, wentBack>>

Direct(w) ==
    /\ pc[w] = "direct"
    /\ buffered' = Append(buffered, Line(w))
    /\ Goto(w, "flush")
    /\ UNCHANGED <<clock, n, names, disk, queue, hand, wentBack>>

MutantFlush(w) == pc[w] = "flush" /\ Goto(w, "idle") /\ UNCHANGED <<clock, n, files, queue, hand, wentBack>>
Flush(w) ==
    /\ pc[w] = "flush"
    /\ Sync
    /\ Goto(w, "idle")
    /\ UNCHANGED <<clock, n, names, queue, hand, wentBack>>

-----------------------------------------------------------------------------
(* async_write_log(): pop() and then fputs() under the mutex, without a flush. *)

Pop ==
    /\ hand = None /\ m_log_queue # <<>>
    /\ hand' = Head(m_log_queue)
    /\ m_log_queue' = Tail(m_log_queue)
    /\ UNCHANGED <<clock, pc, n, files, max_queue_size, dropped, wentBack>>

Fputs ==
    /\ hand # None
    /\ buffered' = Append(buffered, hand)
    /\ hand' = None
    /\ UNCHANGED <<clock, pc, n, names, disk, queue, wentBack>>

Midnight ==
    /\ day < MaxDay
    /\ day' = day + 1
    /\ UNCHANGED <<now, tm, tmbuf, pc, n, files, queue, hand, wentBack>>

WriteLog(w) == \/ ReadClock(w) \/ Localtime(w) \/ CopyTm(w)
               \/ Count(w) \/ Check(w) \/ Push(w) \/ Direct(w) \/ Flush(w)

Next == (\E w \in Writers : WriteLog(w)) \/ Pop \/ Fputs \/ Midnight

Spec == Init /\ [][Next]_vars

-----------------------------------------------------------------------------
Lines == Writers \X (1..MaxLines)
Days == 1..MaxDay

TypeOK ==
    /\ day \in Days /\ tmbuf \in Days
    /\ now \in [Writers -> Days] /\ tm \in [Writers -> Days]
    /\ pc \in [Writers -> {"idle", "localtime", "copy", "count", "check", "push", "direct", "flush"}]
    /\ n \in [Writers -> 0..MaxLines]
    /\ m_today \in Days /\ m_count \in Nat
    /\ m_fp \in [day : Days, part : Nat]
    /\ buffered \in Seq(Lines)
    /\ disk \in Seq([file : [day : Days, part : Nat], line : Lines])
    /\ max_queue_size \in QueueSizes
    /\ m_log_queue \in Seq(Lines) /\ Len(m_log_queue) <= max_queue_size
    /\ hand \in Lines \cup {None}
    /\ dropped \subseteq Lines /\ wentBack \in BOOLEAN

\* Where a line is: in a file, in the buffer of m_fp, in the queue, in the flush thread.
OnDisk(l) == {i \in DOMAIN disk : disk[i].line = l}
InBuffer(l) == {i \in DOMAIN buffered : buffered[i] = l}
Queued(l) == {i \in DOMAIN m_log_queue : m_log_queue[i] = l}
Copies(l) == Cardinality(OnDisk(l)) + Cardinality(InBuffer(l)) + Cardinality(Queued(l))
             + (IF hand = l THEN 1 ELSE 0)

\* A line is finished when LOG_INFO() has got to flush().
Finished(l) == \/ l[2] < n[l[1]]
               \/ l[2] = n[l[1]] /\ pc[l[1]] \in {"flush", "idle"}

\* A line is written once, across rotations, a full queue and the flush thread, unless
\* another writer filled the queue between full() and push().
LinesKept == \A l \in Lines : Copies(l) = IF Finished(l) /\ l \notin dropped THEN 1 ELSE 0

\* Without a queue a line is in its file when LOG_INFO() returns, also if another thread
\* has changed the file since fputs().
DurableOnReturn ==
    max_queue_size = 0 =>
        \A l \in Lines : Finished(l) /\ pc[l[1]] # "flush" => OnDisk(l) # {}

\* Types, every line in one place, and on the disk when it was promised.
LinesInv == TypeOK /\ LinesKept /\ DurableOnReturn

\* Where lines counted for an earlier file can wait: in the other writers, in the queue and
\* in the flush thread.
LateLines == Cardinality(Writers) - 1 + (IF max_queue_size = 0 THEN 0 ELSE max_queue_size + 1)

\* A file has m_split_lines lines and the late ones at most, unless the log of a day is
\* taken up again, by a line whose writer read the clock before midnight.
SplitBound ==
    ~wentBack =>
        \A i \in DOMAIN disk :
            Cardinality({j \in DOMAIN disk : disk[j].file = disk[i].file}) <= SplitLines + LateLines
=============================================================================
