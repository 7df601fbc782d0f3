---------------------------- MODULE Conversation ----------------------------
(***************************************************************************)
(* What the server of chap.5 promises to each of its clients, whatever its *)
(* threads do inside: the answer to a request is the one its page          *)
(* deserves, it comes a piece at a time, in order and once, and nothing    *)
(* else is sent.  A connection ends without a whole answer, or after it    *)
(* although it was to be kept, only if there is an excuse.                 *)
(***************************************************************************)
EXTENDS Naturals, Sequences

CONSTANT Conns

VARIABLES
    plan,     \* plan[c]: the requests c makes, one after another
    state,    \* state[c]: "new", "open", "ended"
    asked,    \* asked[c]: requests c has begun to send
    told,     \* told[c]: the pieces c was sent since then
    excused   \* clients whose connections may be ended at any moment

Pieces(page) == CASE page = "file"      -> <<"header", "content">>
                  [] page = "missing"   -> <<"404">>
                  [] page = "forbidden" -> <<"403">>
                  [] page \in {"directory", "malformed"} -> <<"400">>
                  [] page = "empty"     -> <<>>

\* The request c made last.
Last(c) == plan[c][asked[c]]

\* The n-th piece of the answer to it, and whether c has them all.
Promised(c, n) == [client |-> c, nth |-> asked[c], what |-> Pieces(Last(c).page)[n]]

Answered(c) ==
    asked[c] > 0 => told[c] # <<>> /\ Len(told[c]) = Len(Pieces(Last(c).page))

\* The connection is kept for another request.
Kept(c) == asked[c] > 0 /\ Last(c).linger /\ Last(c).page # "malformed"

MayAsk(c) == state[c] = "open" /\ Answered(c) /\ asked[c] < Len(plan[c])

Ask(c) == MayAsk(c) /\ asked'[c] = asked[c] + 1 /\ told'[c] = <<>>

Reply(c) ==
    /\ state[c] = "open" /\ asked[c] > 0 /\ Len(told[c]) < Len(Pieces(Last(c).page))
    /\ told'[c] = Append(told[c], Promised(c, Len(told[c]) + 1))
    /\ asked'[c] = asked[c]

End(c) == state[c] = "open" /\ state'[c] = "ended" /\ (c \in excused \/ (Answered(c)' /\ ~Kept(c)'))

\* What a step of the server may be for one of them.
Step(c) ==
    /\ \/ state'[c] = state[c]
       \/ state[c] = "new" /\ state'[c] = "open"
       \/ End(c)
    /\ \/ Ask(c)
       \/ Reply(c)
       \/ asked'[c] = asked[c] /\ told'[c] = told[c]
    /\ plan'[c] = plan[c]
=============================================================================
