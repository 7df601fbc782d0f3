----------------------------- MODULE TimerList -----------------------------
(***************************************************************************)
(* sort_timer_lst of Webserver/timer/lst_timer.cpp: a doubly linked list   *)
(* of timers in the order in which they expire, with the objects in memory *)
(* as they are: a deleted timer keeps its pointers, a pointer to it        *)
(* dangles, and its address can be used for the next timer.                *)
(*                                                                         *)
(* Every operation runs on the main thread and is one step.  The time is   *)
(* time(NULL), the wall clock, in units of TIMESLOT.                       *)
(***************************************************************************)
EXTENDS Integers

CONSTANTS
    Timers,    \* addresses of util_timer objects
    Null,
    Life,      \* 3*TIMESLOT, in units of TIMESLOT
    MaxNow     \* bound on the time

ASSUME ListParameters ==
    Null \notin Timers /\ Life \in Nat \ {0} /\ MaxNow \in Nat

VARIABLES
    now,     \* time(NULL)
    alloc,   \* timers made by new and not deleted
    expire,  \* timer->expire
    list,    \* head, tail and the next and prev of every timer
    stepped  \* history: the wall clock was set back while the list had timers

listVars == <<now, alloc, expire, list, stepped>>

ListInit ==
    /\ now = 0
    /\ alloc = {}
    /\ expire = [t \in Timers |-> 0]
    /\ list = [head |-> Null, tail |-> Null,
               next |-> [t \in Timers |-> Null], prev |-> [t \in Timers |-> Null]]
    /\ stepped = FALSE

-----------------------------------------------------------------------------
SetHead(l, t) == [l EXCEPT !.head = t, !.prev = IF t = Null THEN @ ELSE [@ EXCEPT ![t] = Null]]

\* The loop of add_timer(timer, lst_head): the timer after which the new one goes.
Place(l, t, first, exp) ==
    LET place[p \in Timers] ==
            IF l.next[p] = Null \/ exp[t] < exp[l.next[p]] THEN p ELSE place[l.next[p]]
    IN  place[first]

LinkAfter(l, p, t) ==
    LET q == l.next[p]
    IN  [l EXCEPT !.next = [@ EXCEPT ![p] = t, ![t] = q],
                  !.prev = IF q = Null THEN [@ EXCEPT ![t] = p] ELSE [@ EXCEPT ![q] = t, ![t] = p],
                  !.tail = IF q = Null THEN t ELSE @]

Insert(l, t, first, exp) == LinkAfter(l, Place(l, t, first, exp), t)

\* A timer in the middle is taken out; its own pointers stay.
Unlink(l, t) == [l EXCEPT !.next = [@ EXCEPT ![l.prev[t]] = l.next[t]],
                          !.prev = [@ EXCEPT ![l.next[t]] = l.prev[t]]]

(* WebServer::timer() and add_timer(timer). *)
Added(l, t, exp) ==
    CASE l.head = Null -> [l EXCEPT !.head = t, !.tail = t]
      [] l.head # Null /\ exp[t] < exp[l.head] ->
             [l EXCEPT !.head = t, !.next = [@ EXCEPT ![t] = l.head],
                       !.prev = [@ EXCEPT ![l.head] = t]]
      [] OTHER -> Insert(l, t, l.head, exp)

Add(t) ==
    /\ t \notin alloc
    /\ alloc' = alloc \cup {t}
    /\ expire' = [expire EXCEPT ![t] = now + Life]
    /\ LET fresh == [list EXCEPT !.next = [@ EXCEPT ![t] = Null], !.prev = [@ EXCEPT ![t] = Null]]
       IN  list' = Added(fresh, t, expire')
    /\ UNCHANGED <<now, stepped>>

(* WebServer::adjust_timer() and adjust_timer(timer): a timer that no longer expires
   before the next one moves towards the tail. *)
Adjusted(l, t, exp) ==
    LET after == l.next[t]
    IN  CASE after = Null \/ (after # Null /\ exp[t] < exp[after]) -> l
          [] after # Null /\ exp[t] >= exp[after] /\ t = l.head ->
                 LET rest == SetHead(l, after)
                 IN  Insert([rest EXCEPT !.next = [@ EXCEPT ![t] = Null]], t, after, exp)
          [] OTHER -> Insert(Unlink(l, t), t, after, exp)

Adjust(t) ==
    /\ t \in alloc
    /\ expire' = [expire EXCEPT ![t] = now + Life]
    /\ list' = Adjusted(list, t, expire')
    /\ UNCHANGED <<now, alloc, stepped>>

MutantDeleted(l, t) ==
    CASE t = l.head /\ t = l.tail -> [l EXCEPT !.head = Null, !.tail = Null]
      [] t = l.head /\ t # l.tail -> SetHead(l, l.next[t])
      [] t # l.head /\ t = l.tail ->
             [l EXCEPT !.tail = l.prev[t]]
      [] OTHER -> Unlink(l, t)

(* del_timer(timer), called by WebServer::deal_timer(). *)
Deleted(l, t) ==
    CASE t = l.head /\ t = l.tail -> [l EXCEPT !.head = Null, !.tail = Null]
      [] t = l.head /\ t # l.tail -> SetHead(l, l.next[t])
      [] t # l.head /\ t = l.tail ->
             [l EXCEPT !.tail = l.prev[t], !.next = [@ EXCEPT ![l.prev[t]] = Null]]
      [] OTHER -> Unlink(l, t)

Del(t) ==
    /\ t \in alloc
    /\ alloc' = alloc \ {t}
    /\ list' = Deleted(list, t)
    /\ stepped' = (stepped /\ alloc' # {})
    /\ UNCHANGED <<now, expire>>

MutantFirstLeft ==
    LET first[t \in Timers] ==
            IF now < expire[t] \/ list.next[t] = Null THEN t ELSE first[list.next[t]]
    IN  IF list.head = Null THEN Null ELSE first[list.head]

\* The loop of tick(): the first timer, from the head, that has not expired.
FirstLeft ==
    LET first[t \in Timers \cup {Null}] ==
            IF t = Null \/ now < expire[t] THEN t ELSE first[list.next[t]]
    IN  first[list.head]

Upto(end) ==
    LET walk[t \in Timers \cup {Null}] ==
            IF t = Null \/ t = end THEN {} ELSE {t} \cup walk[list.next[t]]
    IN  walk[list.head]

(* tick(), called by Utils::timer_handler(): the expired timers at the head are
   deleted.  tail is not touched: when the list empties it dangles. *)
Tick ==
    /\ alloc' = alloc \ Upto(FirstLeft)
    /\ list' = IF Upto(FirstLeft) = {} THEN list ELSE SetHead(list, FirstLeft)
    /\ stepped' = (stepped /\ alloc' # {})
    /\ UNCHANGED <<now, expire>>

Pass == now < MaxNow /\ now' = now + 1 /\ UNCHANGED <<alloc, expire, list, stepped>>

(* The wall clock is set back. *)
SetBack ==
    /\ now > 0 /\ now' = now - 1
    /\ stepped' = (alloc # {})
    /\ UNCHANGED <<alloc, expire, list>>

ListNext == \/ \E t \in Timers : Add(t) \/ Adjust(t) \/ Del(t)
            \/ Tick
            \/ Pass
            \/ SetBack

ListSpec == ListInit /\ [][ListNext]_listVars

-----------------------------------------------------------------------------
ListTypeOK ==
    /\ now \in 0..MaxNow
    /\ alloc \subseteq Timers
    /\ stepped \in BOOLEAN
    /\ expire \in [Timers -> 0..(MaxNow + Life)]
    /\ list \in [head : Timers \cup {Null}, tail : Timers \cup {Null},
                 next : [Timers -> Timers \cup {Null}], prev : [Timers -> Timers \cup {Null}]]

\* The timers reached from a pointer by following next, or prev: every set that holds the
\* first one and is closed under the link holds them.
Reach(from, link) ==
    {t \in Timers : \A C \in SUBSET Timers :
        /\ from # Null => from \in C
        /\ \A u \in C : link[u] # Null => link[u] \in C
        => t \in C}

\* The list holds every allocated timer and no deleted one: from head by next and from
\* tail by prev the same timers are reached, in opposite orders, and the last one is
\* tail.  An empty list may leave tail dangling, as tick() does.
WellFormed ==
    /\ list.head = Null <=> alloc = {}
    /\ Reach(list.head, list.next) = alloc
    /\ alloc # {} =>
        /\ Reach(list.tail, list.prev) = alloc
        /\ list.prev[list.head] = Null /\ list.next[list.tail] = Null
        /\ \A t, u \in alloc : list.next[t] = u <=> list.prev[u] = t

\* The timers are in the order in which they expire, which is what tick() relies on
\* when it stops at the first one that has not expired.  A clock that is set back breaks
\* the order, as adjust_timer() then has timers to move towards the head and does not,
\* until the list has been empty.
Ascending ==
    ~stepped => \A t \in alloc : list.next[t] # Null => expire[t] <= expire[list.next[t]]

\* The list as a whole: types, links and order.
ListInv == ListTypeOK /\ WellFormed /\ Ascending

\* To its callers the list is a set of timers with the time each has left, as long as the
\* clock goes forward.
Set == INSTANCE TimerSet
           WITH live <- alloc,
                left <- [t \in Timers |-> IF t \in alloc /\ expire[t] > now
                                          THEN expire[t] - now ELSE 0]
ImplementsSet == Set!Init /\ [][stepped' \/ Set!Next]_<<alloc, expire, now>>
=============================================================================
