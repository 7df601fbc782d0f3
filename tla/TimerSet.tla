------------------------------ MODULE TimerSet ------------------------------
(***************************************************************************)
(* What sort_timer_lst promises to the server: a set of timers, each with  *)
(* the time left before it expires.  add, adjust and del change one timer; *)
(* tick() removes exactly the expired ones.  Time is relative, so the set  *)
(* of states is finite: left[t] counts down and stays at 0, where the code *)
(* compares time(NULL) with timer->expire.                                 *)
(* WebServer.tla uses these operations; TimerList.tla implements them with *)
(* the doubly linked list of the code.                                     *)
(***************************************************************************)
EXTENDS Naturals

CONSTANTS
    Timers,  \* util_timer objects
    Life     \* 3*TIMESLOT, in units of TIMESLOT

VARIABLES
    live,  \* timers in the list
    left   \* left[t]: time before t expires, 0 for a timer out of the list

Init == live = {} /\ left = [t \in Timers |-> 0]

(* expire=time(NULL)+3*TIMESLOT; add_timer(timer) *)
Add(t) == /\ t \notin live
          /\ live' = live \cup {t}
          /\ left' = [left EXCEPT ![t] = Life]

(* expire=time(NULL)+3*TIMESLOT; adjust_timer(timer) *)
Adjust(t) == /\ t \in live
             /\ left' = [left EXCEPT ![t] = Life]
             /\ UNCHANGED live

Del(t) == /\ t \in live
          /\ live' = live \ {t}
          /\ left' = [left EXCEPT ![t] = 0]

Expired == {t \in live : left[t] = 0}

(* tick(): every timer with expire <= time(NULL) leaves the list. *)
Tick == /\ live' = live \ Expired
        /\ UNCHANGED left

(* One TIMESLOT passes. *)
Pass == /\ left' = [t \in Timers |-> IF left[t] > 0 THEN left[t] - 1 ELSE 0]
        /\ UNCHANGED live

Next == \/ \E t \in Timers : Add(t) \/ Adjust(t) \/ Del(t)
        \/ Tick
        \/ Pass

Spec == Init /\ [][Next]_<<live, left>>
=============================================================================
