-------------------------------- MODULE Fifo --------------------------------
(***************************************************************************)
(* What block_queue promises its callers: a bounded queue whose operations *)
(* happen at one moment each.  push() is refused only when the queue is    *)
(* full, front() and back() fail only when it is empty, a pop() waits only *)
(* for an item that is not there, and of the waiting ones only those with  *)
(* a deadline give up.  An operation that fails changes nothing.           *)
(***************************************************************************)
EXTENDS Integers, Sequences

CONSTANTS Threads, Items, MaxSize, Blank
VARIABLES
    queue,
    calling,  \* calling[t]: "pop" or "timed pop" when t waits in one, or "none"
    result    \* result[t]: what the last operation of t returned

Ok(x) == [ok |-> TRUE, item |-> x]
Failed == [ok |-> FALSE, item |-> Blank]
Answer(t, r) == result' = [result EXCEPT ![t] = r]

Init == /\ queue = <<>>
        /\ calling = [t \in Threads |-> "none"]
        /\ result = [t \in Threads |-> Failed]

Push(t, x) ==
    /\ calling[t] = "none"
    /\ Len(queue) < MaxSize
    /\ queue' = Append(queue, x)
    /\ Answer(t, Ok(x)) /\ UNCHANGED calling

Refuse(t) ==
    /\ calling[t] = "none"
    /\ Len(queue) = MaxSize
    /\ Answer(t, Failed) /\ UNCHANGED <<queue, calling>>

(* A pop() that finds an item at once, or one that has waited. *)
Pop(t) ==
    /\ queue # <<>>
    /\ queue' = Tail(queue)
    /\ calling' = [calling EXCEPT ![t] = "none"]
    /\ Answer(t, Ok(Head(queue)))

WaitToPop(t) ==
    /\ calling[t] = "none"
    /\ queue = <<>>
    /\ \E kind \in {"pop", "timed pop"} : calling' = [calling EXCEPT ![t] = kind]
    /\ UNCHANGED <<queue, result>>

GiveUp(t) ==
    /\ calling[t] = "timed pop"
    /\ calling' = [calling EXCEPT ![t] = "none"]
    /\ Answer(t, Failed) /\ UNCHANGED queue

Clear == queue' = <<>> /\ UNCHANGED <<calling, result>>

(* front() and back(). *)
Look(t) ==
    /\ calling[t] = "none"
    /\ \/ queue = <<>> /\ Answer(t, Failed)
       \/ queue # <<>> /\ (Answer(t, Ok(Head(queue))) \/ Answer(t, Ok(queue[Len(queue)])))
    /\ UNCHANGED <<queue, calling>>

Next == \/ Clear
        \/ \E t \in Threads : \/ \E x \in Items : Push(t, x)
                              \/ Refuse(t)
                              \/ Pop(t)
                              \/ WaitToPop(t)
                              \/ GiveUp(t)
                              \/ Look(t)

vars == <<queue, calling, result>>
Spec == Init /\ [][Next]_vars
=============================================================================
