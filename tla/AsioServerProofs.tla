--------------------------- MODULE AsioServerProofs ---------------------------
(***************************************************************************)
(* Proofs about the asio server, for any clients, requests, io_contexts,   *)
(* buffers and files: how the operations of one connection follow one      *)
(* another, what its client is sent, and when its object may be deleted.   *)
(*                                                                         *)
(* A handler is a function of the object, so most of what follows is about *)
(* one object o and k, the number of requests its client has sent.         *)
(***************************************************************************)
EXTENDS AsioServer, FiniteSetTheorems, SequenceTheorems, WellFoundedInduction, TLAPS

Unit == [req : Nat, part : Parts, intact : BOOLEAN]

Mapping == {"unknown", "file", "no"}

Object == [open : BOOLEAN, alive : BOOLEAN, starting : BOOLEAN, reading : BOOLEAN,
           sending : Nat, timer : BOOLEAN, queue : Seq(Handlers), inbox : Seq(Segments),
           buf : Seq(Segments), owes : BOOLEAN, req : Nat, parts : Seq(Parts),
           linger : BOOLEAN, mapped : Mapping, wiped : BOOLEAN, room : 0..Room,
           out : Seq(Unit), blocked : BOOLEAN, cut : BOOLEAN, misread : BOOLEAN,
           late : BOOLEAN, spoiled : BOOLEAN]

(* The order of a connection's operations.  At most one read or write is pending or has its
   handler ready; the timer is pending, or its handler ready, as long as the socket is open. *)

Io == {"read", "read error", "written", "write error"}

Has(q, h) == \E i \in DOMAIN q : q[i] = h
NoIo(q) == \A i \in DOMAIN q : q[i] \notin Io
OneIo(q) == \A i, j \in DOMAIN q : q[i] \in Io /\ q[j] \in Io => i = j

Alternates(o) ==
    /\ OneIo(o.queue)
    /\ o.reading \/ o.sending > 0 => NoIo(o.queue)
    /\ ~(o.reading /\ o.sending > 0)

Covered(o) == o.open => o.timer \/ o.starting \/ Has(o.queue, "timeout")

\* Only a connection that the timer closed too late, during an answer, has the handler of a write
\* ready after its end.
Ended(o) ==
    /\ ~o.open => ~o.reading /\ o.sending = 0
    /\ ~o.alive => ~o.open /\ ~o.timer /\ ~o.starting
    /\ ~o.alive => \A h \in Handlers \ {"written", "write error"} : ~Has(o.queue, h)
    /\ ~o.open /\ ~o.late => /\ ~Has(o.queue, "read")
                             /\ ~Has(o.queue, "written") /\ ~Has(o.queue, "write error")

(* The answers so far. *)

FileUnits(out, r) ==
    Cardinality({i \in DOMAIN out : out[i] = [req |-> r, part |-> "file", intact |-> TRUE]})

Last(out) == out[Len(out)]
Before(out, r) == \A i \in DOMAIN out : out[i].req < r

\* Answers in the order of the requests, each but the last one whole.
InOrder(out) ==
    /\ out # <<>> => out[1].part = "header"
    /\ \A i, j \in DOMAIN out : i <= j => out[i].req <= out[j].req
    /\ \A i \in 1..Len(out) - 1 :
          /\ Follows(out[i], out[i + 1])
          /\ out[i + 1].part = "header" /\ out[i].part = "file"
             => FileUnits(out, out[i].req) = FileSize

\* The last one is whole too: an error page, or all of its file.
Complete(out) ==
    out # <<>> => Last(out).part = "header" \/ FileUnits(out, Last(out).req) = FileSize

\* The header of the answer to r, or r's file but for n units, is the last that was sent.
Sent(out, r, n) == out # <<>> /\ Last(out).req = r /\ FileUnits(out, r) = n

HeaderNext(o) == o.parts \in {<<"header">>, <<"header", "file">>}
FileNext(o) == o.parts = <<"file">>

Answering(o) ==
    /\ o.parts = <<>> \/ HeaderNext(o) \/ FileNext(o)
    /\ o.sending > 0 => o.parts # <<>>
    /\ o.sending > 0 /\ HeaderNext(o) => o.blocked
    /\ o.open /\ o.mapped = "file" => o.parts # <<>>
    /\ o.alive /\ Has(o.queue, "written") => o.parts # <<>>
    /\ o.open =>
          /\ o.reading \/ Has(o.queue, "read") => Complete(o.out)
          /\ HeaderNext(o) /\ o.sending > 0 =>
                o.sending = 1 /\ Complete(o.out) /\ Before(o.out, o.req)
          /\ HeaderNext(o) /\ Has(o.queue, "written") =>
                Sent(o.out, o.req, 0) /\ Last(o.out).part = "header"
          /\ FileNext(o) /\ (o.sending > 0 \/ Has(o.queue, "written")) =>
                Sent(o.out, o.req, FileSize - o.sending)

(* What arrives: the requests in their order and, unless a read cut one, each of them whole,
   but for the body that the client has yet to send. *)

Rising(s) == \A i, j \in Heads(s) : i < j => s[i].req < s[j].req

Requests(s) == \A i \in DOMAIN s : \/ Begins(s[i])
                                   \/ i - 1 \in DOMAIN s /\ s[i - 1].part = "post"

Waits(s) == s # <<>> /\ Last(s).part = "post"

\* What one handler finds and the next one leaves.
Ordered(o, k) ==
    /\ ~o.spoiled
    /\ InOrder(o.out)
    /\ o.wiped => o.blocked
    /\ o.blocked \/ \A i \in DOMAIN o.out : o.out[i].intact
    /\ o.misread => o.cut
    /\ ~o.cut => Requests(o.inbox) /\ (o.open /\ o.owes => Waits(o.inbox))
    /\ o.open => /\ o.req <= k /\ \A i \in DOMAIN o.out : o.out[i].req <= o.req
                 /\ \A i \in Heads(o.inbox) : o.req < o.inbox[i].req /\ o.inbox[i].req <= k
                 /\ Rising(o.inbox)

\* m_read_buf holds something only for the handler of a read, and what it holds is newer
\* than the last request and older than what has arrived since.
Buffered(o, k) ==
    /\ o.buf # <<>> => Has(o.queue, "read")
    /\ Has(o.queue, "read") => Heads(o.buf) # {}
    /\ ~o.cut /\ o.buf # <<>> => Begins(o.buf[1])
    /\ o.open => \A i \in Heads(o.buf) :
                    /\ o.req < o.buf[i].req /\ o.buf[i].req <= k
                    /\ \A j \in Heads(o.inbox) : o.buf[i].req < o.inbox[j].req

Rest(o, k) == Alternates(o) /\ Covered(o) /\ Ended(o) /\ Answering(o) /\ Ordered(o, k)

ObjInv(o, k) == o \in Object /\ Rest(o, k) /\ Buffered(o, k)

\* No connection is being started, and none is accepted, when the pool stops.
PoolShape == /\ _works <=> main = "run"
             /\ _works => ended = {}
             /\ Starting => main = "run"
             /\ \A c \in Conns : conn[c].open => load[c] # None

PoolTypes ==
    /\ service \in [Conns -> Services \cup {None}]
    /\ load \in Loads /\ sent \in [Conns -> Nat] /\ hung \in [Conns -> BOOLEAN] /\ kept \in BOOLEAN
    /\ _nextIOService \in Services /\ _works \in BOOLEAN
    /\ ended \subseteq Services /\ main \in {"run", "stop", "done"} /\ joined \in 0..Size
    /\ undefined \in BOOLEAN

AsioInv == /\ PoolTypes /\ PoolShape /\ StopWaits
           /\ conn \in [Conns -> Object]
           /\ \A c \in Conns : ObjInv(conn[c], sent[c])
-----------------------------------------------------------------------------
(* The queue of handlers. *)

\* A handler is queued behind the others, if at all.
LEMMA Queued ==
    ASSUME NEW q \in Seq(Handlers), NEW test \in BOOLEAN, NEW h \in Handlers
    PROVE  /\ q \o If(test, h) \in Seq(Handlers)
           /\ \A x : Has(q \o If(test, h), x) <=> Has(q, x) \/ (test /\ x = h)
           /\ NoIo(q \o If(test, h)) <=> NoIo(q) /\ (test => h \notin Io)
           /\ OneIo(q) /\ (test /\ h \in Io => NoIo(q)) => OneIo(q \o If(test, h))
<1> DEFINE s == If(test, h)
           n == IF test THEN 1 ELSE 0
           r == q \o s
<1>1. s \in Seq(Handlers) /\ Len(s) = n /\ (test => s[1] = h)
  BY DEF If
<1>2. Len(q) \in Nat /\ n \in Nat OBVIOUS
<1>3. r \in Seq(Handlers) /\ Len(r) = Len(q) + n
      /\ \A i \in 1..(Len(q) + n) : r[i] = IF i <= Len(q) THEN q[i] ELSE s[i - Len(q)]
  BY <1>1, ConcatProperties
<1>4. DOMAIN q = 1..Len(q) /\ DOMAIN r = 1..(Len(q) + n) BY <1>3
<1> HIDE DEF r, s
<1>5. (\A i \in 1..Len(q) : r[i] = q[i]) /\ (test => r[Len(q) + 1] = h)
  BY <1>1, <1>2, <1>3
<1>6. \A i \in DOMAIN r : i \in DOMAIN q \/ (test /\ i = Len(q) + 1) BY <1>2, <1>4
<1>7. (\A i \in DOMAIN q : i \in DOMAIN r) /\ (test => Len(q) + 1 \in DOMAIN r) BY <1>2, <1>4
<1> HIDE DEF n
<1>8. \A x : Has(r, x) <=> Has(q, x) \/ (test /\ x = h)
  BY <1>4, <1>5, <1>6, <1>7 DEF Has
<1>9. NoIo(r) <=> NoIo(q) /\ (test => h \notin Io)
  BY <1>4, <1>5, <1>6, <1>7 DEF NoIo
<1>10. OneIo(q) /\ (test /\ h \in Io => NoIo(q)) => OneIo(r)
  BY <1>4, <1>5, <1>6, <1>7 DEF OneIo, NoIo
<1> QED BY <1>3, <1>8, <1>9, <1>10 DEF r, s

LEMMA Appended ==
    ASSUME NEW q \in Seq(Handlers), NEW h \in Handlers
    PROVE  /\ Append(q, h) \in Seq(Handlers)
           /\ \A x : Has(Append(q, h), x) <=> Has(q, x) \/ x = h
           /\ NoIo(Append(q, h)) <=> NoIo(q) /\ h \notin Io
           /\ OneIo(q) /\ (h \in Io => NoIo(q)) => OneIo(Append(q, h))
<1>1. \A test \in BOOLEAN : test => q \o If(test, h) = Append(q, h)
  <2>1. q \o <<h>> = Append(q, h) OBVIOUS
  <2> QED BY <2>1 DEF If
<1>2. PICK test \in BOOLEAN : test OBVIOUS
<1>3. q \o If(test, h) = Append(q, h) BY <1>1, <1>2
<1>4. /\ q \o If(test, h) \in Seq(Handlers)
      /\ \A x : Has(q \o If(test, h), x) <=> Has(q, x) \/ (test /\ x = h)
      /\ NoIo(q \o If(test, h)) <=> NoIo(q) /\ (test => h \notin Io)
      /\ OneIo(q) /\ (test /\ h \in Io => NoIo(q)) => OneIo(q \o If(test, h))
  BY Queued
<1> QED BY <1>2, <1>3, <1>4

\* A handler is taken from the front.
LEMMA Unqueued ==
    ASSUME NEW q \in Seq(Handlers), q # <<>>
    PROVE  /\ Head(q) \in Handlers /\ Tail(q) \in Seq(Handlers)
           /\ \A x : Has(q, x) <=> x = Head(q) \/ Has(Tail(q), x)
           /\ NoIo(q) => NoIo(Tail(q))
           /\ OneIo(q) => OneIo(Tail(q))
           /\ OneIo(q) /\ Head(q) \in Io => NoIo(Tail(q))
<1> DEFINE t == Tail(q)
<1>1. /\ Head(q) \in Handlers /\ t \in Seq(Handlers) /\ Len(t) = Len(q) - 1
      /\ \A i \in 1..Len(t) : t[i] = q[i + 1]
  BY HeadTailProperties
<1>2. Len(q) \in Nat \ {0} /\ DOMAIN q = 1..Len(q) /\ Head(q) = q[1] BY EmptySeq
<1>3. DOMAIN t = 1..(Len(q) - 1) BY <1>1
<1> HIDE DEF t
<1>4. \A i \in DOMAIN t : t[i] = q[i + 1] /\ i + 1 \in DOMAIN q /\ i + 1 # 1 BY <1>1, <1>2, <1>3
<1>5. 1 \in DOMAIN q BY <1>2
<1>6. \A i \in DOMAIN q : i = 1 \/ (i - 1 \in DOMAIN t /\ t[i - 1] = q[i])
  <2> SUFFICES ASSUME NEW i \in DOMAIN q, i # 1 PROVE i - 1 \in DOMAIN t /\ t[i - 1] = q[i]
    OBVIOUS
  <2>1. i - 1 \in DOMAIN t /\ (i - 1) + 1 = i BY <1>2, <1>3
  <2> QED BY <1>4, <2>1
<1>7. \A x : Has(q, x) <=> x = Head(q) \/ Has(t, x) BY <1>2, <1>4, <1>5, <1>6 DEF Has
<1>8. NoIo(q) => NoIo(t) BY <1>4 DEF NoIo
<1>9. OneIo(q) => OneIo(t)
  <2> SUFFICES ASSUME OneIo(q), NEW i \in DOMAIN t, NEW j \in DOMAIN t, t[i] \in Io, t[j] \in Io
               PROVE  i = j
    BY DEF OneIo
  <2>1. i + 1 = j + 1 BY <1>4 DEF OneIo
  <2> QED BY <2>1, <1>1, <1>3
<1>10. OneIo(q) /\ Head(q) \in Io => NoIo(t)
  BY <1>2, <1>4, <1>5 DEF OneIo, NoIo
<1> QED BY <1>1, <1>7, <1>8, <1>9, <1>10 DEF t

LEMMA NoIoIs == ASSUME NEW q, NoIo(q)
                PROVE  /\ OneIo(q)
                       /\ ~Has(q, "read") /\ ~Has(q, "read error")
                       /\ ~Has(q, "written") /\ ~Has(q, "write error")
BY DEF NoIo, OneIo, Has, Io

-----------------------------------------------------------------------------
(* What a client has been sent. *)

\* more is out and n times u behind it.
Longer(more, out, n, u) ==
    /\ more \in Seq(Unit) /\ Len(more) = Len(out) + n
    /\ Len(out) \in Nat /\ DOMAIN out = 1..Len(out) /\ DOMAIN more = 1..(Len(out) + n)
    /\ \A i \in 1..Len(out) : more[i] = out[i]
    /\ \A i \in (Len(out) + 1)..(Len(out) + n) : more[i] = u

LEMMA LongerIs ==
    ASSUME NEW out \in Seq(Unit), NEW u \in Unit, NEW n \in Nat,
           NEW more, more = out \o [i \in 1..n |-> u]
    PROVE  Longer(more, out, n, u)
<1> DEFINE s == [i \in 1..n |-> u]
<1>1. s \in Seq(Unit) /\ Len(s) = n /\ \A i \in 1..n : s[i] = u
  <2>1. s \in [1..n -> Unit] OBVIOUS
  <2>2. s \in Seq(Unit) BY <2>1, SeqDef
  <2>3. Len(s) = n BY <2>1, <2>2, LenProperties
  <2> QED BY <2>2, <2>3
<1> HIDE DEF s
<1>2. more = out \o s BY DEF s
<1>3. /\ more \in Seq(Unit) /\ Len(more) = Len(out) + n
      /\ \A i \in 1..(Len(out) + n) : more[i] = IF i <= Len(out) THEN out[i] ELSE s[i - Len(out)]
  BY <1>1, <1>2, ConcatProperties
<1>4. Len(out) \in Nat /\ DOMAIN out = 1..Len(out) /\ DOMAIN more = 1..(Len(out) + n)
  BY <1>3
<1>5. \A i \in 1..Len(out) : more[i] = out[i] BY <1>3, <1>4
<1>6. ASSUME NEW i \in (Len(out) + 1)..(Len(out) + n) PROVE more[i] = u
  <2>1. i - Len(out) \in 1..n /\ ~(i <= Len(out)) /\ i \in 1..(Len(out) + n) BY <1>4
  <2> QED BY <1>1, <1>3, <2>1
<1> QED BY <1>3, <1>4, <1>5, <1>6 DEF Longer

FileUnit(r) == [req |-> r, part |-> "file", intact |-> TRUE]

LEMMA UnitsCount ==
    ASSUME NEW out \in Seq(Unit), NEW more, NEW u, NEW n \in Nat, Longer(more, out, n, u)
    PROVE  \A r : /\ FileUnits(out, r) \in Nat
                  /\ u = FileUnit(r) => FileUnits(more, r) = FileUnits(out, r) + n
                  /\ u # FileUnit(r) => FileUnits(more, r) = FileUnits(out, r)
<1> TAKE r
<1> DEFINE S == {i \in DOMAIN out : out[i] = FileUnit(r)}
           T == {i \in DOMAIN more : more[i] = FileUnit(r)}
           l == Len(out)
           N == (l + 1)..(l + n)
<1>1. /\ l \in Nat /\ DOMAIN out = 1..l /\ DOMAIN more = 1..(l + n)
      /\ \A i \in 1..l : more[i] = out[i]
      /\ \A i \in N : more[i] = u
  BY DEF Longer
<1>2. IsFiniteSet(S) /\ Cardinality(S) \in Nat
  <2>1. IsFiniteSet(1..l)
    <3> HIDE DEF l
    <3> QED BY <1>1, FS_Interval
  <2>2. S \subseteq 1..l BY <1>1
  <2> QED BY <2>1, <2>2, FS_Subset, FS_CardinalityType
<1>3. IsFiniteSet(N) /\ Cardinality(N) = n
  <2>1. CASE n = 0
    <3>1. N = {} BY <1>1, <2>1
    <3> QED BY <3>1, <2>1, FS_EmptySet
  <2>2. CASE n # 0
    <3> DEFINE a == l + 1
               b == l + n
    <3>1. a \in Int /\ b \in Int /\ a <= b /\ b - a + 1 = n BY <1>1, <2>2
    <3>2. IsFiniteSet(a..b) /\ Cardinality(a..b) = IF a > b THEN 0 ELSE b - a + 1
      <4> HIDE DEF a, b
      <4> QED BY <3>1, FS_Interval
    <3> HIDE DEF a, b
    <3>3. Cardinality(a..b) = n BY <3>1, <3>2
    <3> QED BY <3>2, <3>3 DEF a, b
  <2> QED BY <2>1, <2>2
<1>4. \A i \in 1..(l + n) : i \in 1..l \/ i \in N BY <1>1
<1>5. 1..l \subseteq 1..(l + n) /\ N \subseteq 1..(l + n) /\ (1..l) \cap N = {} BY <1>1
<1> HIDE DEF l, N
<1>6. CASE u = FileUnit(r)
  <2>1. T = S \cup N BY <1>1, <1>4, <1>5, <1>6
  <2>2. S \cap N = {} BY <1>1, <1>5
  <2>3. Cardinality(S \cup N) = Cardinality(S) + Cardinality(N) - Cardinality(S \cap N)
    BY <1>2, <1>3, FS_Union
  <2>4. Cardinality(S \cap N) = 0 BY <2>2, FS_EmptySet
  <2> HIDE DEF S, T
  <2>5. Cardinality(T) = Cardinality(S) + n BY <2>1, <2>3, <2>4, <1>2, <1>3
  <2> QED BY <2>5, <1>2, <1>6 DEF FileUnits, FileUnit, S, T
<1>7. CASE u # FileUnit(r)
  <2>1. T = S BY <1>1, <1>4, <1>5, <1>7
  <2> QED BY <2>1, <1>2, <1>7 DEF FileUnits, FileUnit
<1> QED BY <1>6, <1>7

\* A header, if the kernel takes it, behind whole answers to earlier requests.
LEMMA HeaderAdded ==
    ASSUME NEW out \in Seq(Unit), NEW u \in Unit, NEW n \in {0, 1},
           NEW more, more = out \o [i \in 1..n |-> u],
           InOrder(out), Complete(out), Before(out, u.req), u.part = "header"
    PROVE  /\ InOrder(more)
           /\ n = 1 => Sent(more, u.req, 0) /\ Last(more).part = "header"
<1> DEFINE l == Len(out)
<1>0. n \in Nat OBVIOUS
<1> Longer(more, out, n, u) BY <1>0, LongerIs
<1>1. /\ more \in Seq(Unit) /\ Len(more) = l + n
      /\ l \in Nat /\ DOMAIN out = 1..l /\ DOMAIN more = 1..(l + n)
      /\ \A i \in 1..l : more[i] = out[i]
      /\ \A i \in (l + 1)..(l + n) : more[i] = u
  BY DEF Longer
<1>2. \A r : FileUnits(more, r) = FileUnits(out, r)
  <2> SUFFICES ASSUME NEW r PROVE FileUnits(more, r) = FileUnits(out, r) OBVIOUS
  <2>1. u # FileUnit(r) BY DEF FileUnit
  <2> QED BY <2>1, <1>0, UnitsCount
<1>3. FileUnits(out, u.req) = 0
  <2>1. {i \in DOMAIN out : out[i] = FileUnit(u.req)} = {}
    <3> SUFFICES ASSUME NEW i \in DOMAIN out, out[i] = FileUnit(u.req) PROVE FALSE OBVIOUS
    <3>1. out[i].req = u.req BY DEF FileUnit
    <3>2. out[i].req < u.req BY DEF Before
    <3>3. u.req \in Nat BY DEF Unit
    <3> QED BY <3>1, <3>2, <3>3
  <2> QED BY <2>1, FS_EmptySet DEF FileUnits, FileUnit
<1>4. CASE n = 0
  <2>1. more = out
    <3>1. Len(more) = Len(out) /\ \A i \in 1..Len(more) : more[i] = out[i] BY <1>1, <1>4
    <3> QED BY <3>1, <1>1, SeqEqual
  <2> QED BY <2>1, <1>4
<1>5. CASE n = 1
  <2>1. /\ more[l + 1] = u /\ Len(more) = l + 1
        /\ \A i \in DOMAIN more : i \in DOMAIN out \/ i = l + 1
    BY <1>1, <1>5
  <2>2. more # <<>> /\ Last(more) = u BY <2>1, <1>1 DEF Last
  <2>3. \A i \in DOMAIN out : more[i].req < u.req BY <1>1 DEF Before
  <2>4. u.req \in Nat /\ \A i \in DOMAIN out : out[i] \in Unit BY <1>1, ElementOfSeq DEF Unit
  <2>5. \A i, j \in DOMAIN more : i <= j => more[i].req <= more[j].req
    <3> SUFFICES ASSUME NEW i \in DOMAIN more, NEW j \in DOMAIN more, i <= j
                 PROVE  more[i].req <= more[j].req
      OBVIOUS
    <3>1. CASE j = l + 1
      <4>1. CASE i = l + 1 BY <4>1, <3>1, <2>1, <2>4
      <4>2. CASE i # l + 1
        <5>1. i \in DOMAIN out BY <4>2, <2>1
        <5>2. out[i].req \in Nat /\ more[i] = out[i] BY <5>1, <2>4, <1>1 DEF Unit
        <5> QED BY <5>1, <5>2, <3>1, <2>1, <2>3, <2>4
      <4> QED BY <4>1, <4>2
    <3>2. CASE j # l + 1
      <4>1. j \in DOMAIN out /\ i \in DOMAIN out BY <3>2, <2>1, <1>1
      <4> QED BY <4>1, <1>1 DEF InOrder
    <3> QED BY <3>1, <3>2
  <2>6. ASSUME NEW i \in 1..Len(more) - 1
        PROVE  /\ Follows(more[i], more[i + 1])
               /\ more[i + 1].part = "header" /\ more[i].part = "file"
                  => FileUnits(more, more[i].req) = FileSize
    <3>1. CASE i = l
      <4>1. l \in DOMAIN out /\ more[i] = out[l] /\ more[i + 1] = u BY <3>1, <2>1, <2>6, <1>1
      <4>2. out[l].req < u.req BY <4>1, <1>1, <2>3
      <4>3. Follows(more[i], more[i + 1]) BY <4>1, <4>2 DEF Follows
      <4>4. out # <<>> BY <4>1
      <4>5. out[l].part = "file" => FileUnits(out, out[l].req) = FileSize
        BY <4>4 DEF Complete, Last
      <4> QED BY <4>1, <4>3, <4>5, <1>2
    <3>2. CASE i # l
      <4>0. i \in 1..(l - 1)
        <5> i \in 1..l BY <2>1, <2>6, <1>1
        <5> HIDE DEF l
        <5> QED BY <3>2, <1>1
      <4>1. i \in 1..(l - 1) /\ more[i] = out[i] /\ more[i + 1] = out[i + 1]
        BY <4>0, <1>1
      <4> QED BY <4>1, <1>2 DEF InOrder
    <3> QED BY <3>1, <3>2
  <2>7. more[1].part = "header"
    <3>1. CASE l = 0 BY <3>1, <2>1
    <3>2. CASE l # 0 BY <3>2, <1>1 DEF InOrder
    <3> QED BY <3>1, <3>2
  <2>8. InOrder(more) BY <2>5, <2>6, <2>7 DEF InOrder
  <2> QED BY <2>2, <2>8, <1>2, <1>3 DEF Sent
<1> QED BY <1>4, <1>5

\* More of the file behind its header.
LEMMA FileAdded ==
    ASSUME NEW out \in Seq(Unit), NEW r \in Nat, NEW n \in Nat, NEW more, NEW k,
           Longer(more, out, n, FileUnit(r)), InOrder(out), Sent(out, r, k)
    PROVE  InOrder(more) /\ Sent(more, r, k + n)
<1> DEFINE l == Len(out)
           u == FileUnit(r)
<1>1. u \in Unit /\ u.req = r /\ u.part = "file" BY DEF FileUnit, Unit, Parts
<1> HIDE DEF u
<1> u = FileUnit(r) BY DEF u
<1> Longer(more, out, n, u) OBVIOUS
<1>2. /\ more \in Seq(Unit) /\ Len(more) = l + n
      /\ l \in Nat /\ DOMAIN out = 1..l /\ DOMAIN more = 1..(l + n)
      /\ \A i \in 1..l : more[i] = out[i]
      /\ \A i \in (l + 1)..(l + n) : more[i] = u
  BY DEF Longer
<1>3. l >= 1 /\ out[l].req = r BY EmptySeq DEF Sent, Last
<1>4. FileUnits(more, r) = k + n
  <2> FileUnits(more, r) = FileUnits(out, r) + n BY UnitsCount
  <2> QED BY DEF Sent
<1>5. ASSUME NEW q, q # r PROVE FileUnits(more, q) = FileUnits(out, q)
  <2>1. u # FileUnit(q) BY <1>1, <1>5 DEF FileUnit
  <2> QED BY <2>1, UnitsCount
<1>6. \A i \in DOMAIN more : i \in DOMAIN out \/ (i \in (l + 1)..(l + n) /\ more[i] = u) BY <1>2
<1>7. \A i \in DOMAIN out : out[i] \in Unit /\ out[i].req \in Nat /\ out[i].req <= r
  <2>1. \A i \in DOMAIN out : out[i] \in Unit BY <1>2
  <2>2. \A i \in DOMAIN out : out[i].req <= out[l].req BY <1>2, <1>3 DEF InOrder
  <2> QED BY <2>1, <2>2, <1>3 DEF Unit
<1>8. \A i, j \in DOMAIN more : i <= j => more[i].req <= more[j].req
  <2> SUFFICES ASSUME NEW i \in DOMAIN more, NEW j \in DOMAIN more, i <= j
               PROVE  more[i].req <= more[j].req
    OBVIOUS
  <2>1. CASE j \in DOMAIN out
    <3>1. i \in DOMAIN out BY <2>1, <1>2
    <3> QED BY <2>1, <3>1, <1>2 DEF InOrder
  <2>2. CASE j \notin DOMAIN out
    <3>1. more[j].req = r BY <2>2, <1>1, <1>6
    <3>2. more[i].req <= r BY <1>1, <1>2, <1>6, <1>7
    <3> QED BY <3>1, <3>2
  <2> QED BY <2>1, <2>2
<1>9. ASSUME NEW i \in 1..Len(more) - 1
      PROVE  /\ Follows(more[i], more[i + 1])
             /\ more[i + 1].part = "header" /\ more[i].part = "file"
                => FileUnits(more, more[i].req) = FileSize
  <2>1. CASE i + 1 \in DOMAIN out
    <3>1. i \in 1..(l - 1) /\ more[i] = out[i] /\ more[i + 1] = out[i + 1] BY <2>1, <1>2, <1>9
    <3>2. /\ Follows(out[i], out[i + 1])
          /\ out[i + 1].part = "header" /\ out[i].part = "file"
             => FileUnits(out, out[i].req) = FileSize
      BY <3>1 DEF InOrder
    <3>3. ASSUME out[i + 1].part = "header" PROVE out[i].req # r
      <4>1. out[i].req < out[i + 1].req BY <3>2, <3>3 DEF Follows
      <4>2. i \in DOMAIN out /\ i + 1 \in DOMAIN out BY <2>1, <3>1, <1>2
      <4> QED BY <4>1, <4>2, <1>7
    <3> QED BY <3>1, <3>2, <3>3, <1>5
  <2>2. CASE i + 1 \notin DOMAIN out
    <3>1. more[i + 1] = u /\ more[i].req = r /\ more[i].part \in Parts
      <4>1. i + 1 \in DOMAIN more /\ i \in DOMAIN more BY <1>2, <1>9
      <4>2. more[i + 1] = u BY <2>2, <4>1, <1>6
      <4>3. more[i] \in Unit BY <4>1, <1>2, ElementOfSeq
      <4>4. more[i].req = r
        <5>1. CASE i = l BY <5>1, <1>2, <1>3
        <5>2. CASE i # l
          <6>1. i \in Int /\ i >= 1 BY <1>2, <1>9
          <6>2. i + 1 \notin 1..l BY <2>2, <1>2
          <6>4. i \notin 1..l
            <7> HIDE DEF l
            <7> QED BY <6>1, <6>2, <5>2, <1>2
          <6>3. i \notin DOMAIN out BY <6>4, <1>2
          <6> QED BY <6>3, <4>1, <1>1, <1>6
        <5> QED BY <5>1, <5>2
      <4> QED BY <4>2, <4>3, <4>4 DEF Unit
    <3> QED BY <3>1, <1>1 DEF Follows, Parts
  <2> QED BY <2>1, <2>2
<1>10. more # <<>> /\ more[1].part = "header" /\ Last(more).req = r
  <2>1. more # <<>> /\ more[1] = out[1] /\ out # <<>> BY <1>2, <1>3
  <2>2. out[1].part = "header" BY <2>1 DEF InOrder
  <2>3. Last(more).req = r
    <3>1. CASE n = 0 BY <3>1, <1>2, <1>3 DEF Last
    <3>2. CASE n # 0
      <4>1. l + n \in (l + 1)..(l + n) BY <3>2, <1>2
      <4> QED BY <4>1, <1>1, <1>2 DEF Last
    <3> QED BY <3>1, <3>2
  <2> QED BY <2>1, <2>2, <2>3
<1> QED BY <1>4, <1>8, <1>9, <1>10 DEF InOrder, Sent

-----------------------------------------------------------------------------
(* What arrives. *)

LEMMA NothingArrived == Heads(<<>>) = {} /\ Rising(<<>>) /\ Requests(<<>>)
<1>1. DOMAIN <<>> = {} OBVIOUS
<1>2. Heads(<<>>) = {} BY <1>1 DEF Heads
<1> QED BY <1>1, <1>2 DEF Rising, Requests

-----------------------------------------------------------------------------
(* The operations of one connection. *)

\* A part of the answer is being written.
Writing(o, k) ==
    /\ o \in Object /\ o.alive /\ o.open /\ ~o.reading /\ o.sending > 0 /\ NoIo(o.queue)
    /\ Covered(o) /\ Ordered(o, k)
    /\ HeaderNext(o) \/ FileNext(o)
    /\ HeaderNext(o) => /\ o.sending = 1 /\ Complete(o.out) /\ Before(o.out, o.req)
                        /\ o.room = 0 => o.blocked
    /\ FileNext(o) => Sent(o.out, o.req, FileSize - o.sending)

\* What the operations of a handler leave, m_read_buf aside.
Left(o, k) == o \in Object /\ Rest(o, k) /\ o.alive /\ ~Has(o.queue, "read")

\* No handler opens a socket or begins a start().
NotMore(r, o) == (r.open => o.open) /\ (r.starting => o.starting)

LEMMA NextPart == \A o : /\ HeaderNext(o) => /\ ~FileNext(o) /\ Head(o.parts) = "header"
                                             /\ Length(Head(o.parts)) = 1
                         /\ FileNext(o) => /\ Head(o.parts) = "file"
                                           /\ Length(Head(o.parts)) = FileSize
                         /\ HeaderNext(o) \/ FileNext(o) => o.parts # <<>>
<1> TAKE o
<1>1. ASSUME HeaderNext(o) PROVE Head(o.parts) = "header" /\ o.parts # <<>> /\ ~FileNext(o)
  <2>1. Head(<<"header">>) = "header" /\ Head(<<"header", "file">>) = "header" OBVIOUS
  <2>2. <<"header">> # <<>> /\ <<"header", "file">> # <<>> OBVIOUS
  <2>3. <<"header">> # <<"file">> /\ <<"header", "file">> # <<"file">> OBVIOUS
  <2> QED BY <1>1, <2>1, <2>2, <2>3 DEF HeaderNext, FileNext
<1>2. ASSUME FileNext(o) PROVE Head(o.parts) = "file" /\ o.parts # <<>>
  <2>1. Head(<<"file">>) = "file" /\ <<"file">> # <<>> OBVIOUS
  <2> QED BY <1>2, <2>1 DEF FileNext
<1> QED BY <1>1, <1>2 DEF Length

LEMMA TransferWorks ==
    ASSUME NEW k, NEW o, Writing(o, k)
    PROVE  /\ Left(Transfer(o), k) /\ NotMore(Transfer(o), o)
           /\ Transfer(o).buf = o.buf /\ ~Transfer(o).reading
<1> DEFINE n == Least(o.sending, o.room)
           u == [req |-> o.req, part |-> Head(o.parts),
                 intact |-> ~(o.wiped /\ Head(o.parts) = "header")]
           t == [o EXCEPT !.sending = @ - n, !.room = @ - n,
                          !.out = @ \o [i \in 1..n |-> u],
                          !.queue = @ \o If(o.sending = n, "written")]
<1>1. /\ o \in Object /\ o.alive /\ o.open /\ ~o.reading /\ o.sending > 0 /\ NoIo(o.queue)
      /\ Covered(o) /\ Ordered(o, k)
      /\ HeaderNext(o) \/ FileNext(o)
      /\ HeaderNext(o) => /\ o.sending = 1 /\ Complete(o.out) /\ Before(o.out, o.req)
                          /\ o.room = 0 => o.blocked
      /\ FileNext(o) => Sent(o.out, o.req, FileSize - o.sending)
  BY DEF Writing
<1>2. Transfer(o) = t BY DEF Transfer
<1> DEFINE q == o.queue \o If(o.sending = n, "written")
           more == o.out \o [i \in 1..n |-> u]
           done == o.sending = n
<1>3. /\ o.sending \in Nat /\ o.room \in 0..Room /\ o.queue \in Seq(Handlers)
      /\ o.out \in Seq(Unit) /\ o.req \in Nat /\ o.parts \in Seq(Parts) /\ o.wiped \in BOOLEAN
  BY <1>1 DEF Object
<1>4. Head(o.parts) \in Parts /\ o.parts # <<>> BY <1>1, NextPart DEF Parts
<1>5. u \in Unit /\ u.req = o.req /\ u.part = Head(o.parts) BY <1>3, <1>4 DEF Unit
<1>6. /\ n \in Nat /\ n <= o.sending /\ n <= o.room /\ (n # o.sending => n = o.room)
      /\ o.sending - n \in Nat /\ o.room - n \in 0..Room /\ Room \in Nat
  BY <1>3, Parameters DEF Least
<1>7. /\ q \in Seq(Handlers)
      /\ \A x : Has(q, x) <=> Has(o.queue, x) \/ (done /\ x = "written")
      /\ NoIo(q) <=> NoIo(o.queue) /\ (done => "written" \notin Io)
      /\ OneIo(o.queue) /\ (done /\ "written" \in Io => NoIo(o.queue)) => OneIo(q)
  <2>1. "written" \in Handlers BY DEF Handlers
  <2>2. done \in BOOLEAN OBVIOUS
  <2> HIDE DEF done
  <2>3. o.queue \o If(done, "written") \in Seq(Handlers)
      /\ (\A x : Has(o.queue \o If(done, "written"), x)
                    <=> Has(o.queue, x) \/ (done /\ x = "written"))
      /\ (NoIo(o.queue \o If(done, "written")) <=> NoIo(o.queue) /\ (done => "written" \notin Io))
      /\ (OneIo(o.queue) /\ (done /\ "written" \in Io => NoIo(o.queue))
           => OneIo(o.queue \o If(done, "written")))
    BY <2>1, <2>2, <1>3, Queued
  <2> QED BY <2>3 DEF done
<1>8. Longer(more, o.out, n, u) BY <1>3, <1>5, <1>6, LongerIs
<1>9. more \in Seq(Unit) BY <1>8 DEF Longer
<1>10. /\ t \in Object
       /\ t.open /\ t.alive /\ ~t.reading /\ t.sending = o.sending - n /\ t.queue = q
       /\ t.out = more /\ t.starting = o.starting /\ t.timer = o.timer /\ t.inbox = o.inbox
       /\ t.buf = o.buf /\ t.req = o.req /\ t.parts = o.parts /\ t.mapped = o.mapped
       /\ t.wiped = o.wiped /\ t.blocked = o.blocked /\ t.cut = o.cut /\ t.owes = o.owes
       /\ t.misread = o.misread /\ t.late = o.late /\ t.spoiled = o.spoiled
  <2> HIDE DEF q, n, more
  <2>1. t = [o EXCEPT !.sending = o.sending - n, !.room = o.room - n, !.out = more, !.queue = q]
    BY DEF more, q
  <2> HIDE DEF t
  <2> QED BY <2>1, <1>1, <1>6, <1>7, <1>9 DEF Object
<1> HIDE DEF t
<1>11. Alternates(t)
  <2>1. t.sending > 0 => ~done BY <1>3, <1>6, <1>10
  <2>2. OneIo(o.queue) BY <1>1, NoIoIs
  <2> HIDE DEF q, done
  <2> QED BY <2>1, <2>2, <1>1, <1>7, <1>10 DEF Alternates
<1>12. Covered(t) /\ Ended(t)
  <2> HIDE DEF q, done, n, more
  <2> QED BY <1>1, <1>7, <1>10 DEF Covered, Ended
<1>13. /\ InOrder(more)
       /\ HeaderNext(o) /\ done => Sent(more, o.req, 0) /\ Last(more).part = "header"
       /\ HeaderNext(o) /\ ~done => n = 0 /\ more = o.out
       /\ FileNext(o) => Sent(more, o.req, FileSize - t.sending)
  <2>1. InOrder(o.out) BY <1>1 DEF Ordered
  <2>2. CASE HeaderNext(o)
    <3>1. n \in {0, 1} /\ (done => n = 1) /\ (~done => n = 0) BY <1>1, <1>6, <2>2
    <3>2. u.part = "header" BY <1>5, <2>2, NextPart
    <3>3. Complete(o.out) /\ Before(o.out, u.req) BY <1>1, <1>5, <2>2
    <3>4. InOrder(more) /\ (n = 1 => Sent(more, u.req, 0) /\ Last(more).part = "header")
      <4> HIDE DEF n, u
      <4> QED BY <2>1, <3>1, <3>2, <3>3, <1>3, <1>5, HeaderAdded
    <3>5. n = 0 => more = o.out
      <4> SUFFICES ASSUME n = 0 PROVE more = o.out OBVIOUS
      <4>1. Len(more) = Len(o.out) /\ \A i \in 1..Len(more) : more[i] = o.out[i]
        BY <1>8 DEF Longer
      <4> QED BY <4>1, <1>3, <1>9, SeqEqual
    <3> QED BY <3>1, <3>4, <3>5, <1>5, <2>2, NextPart
  <2>3. CASE FileNext(o)
    <3>1. u = FileUnit(o.req)
      <4>1. Head(o.parts) = "file" BY <2>3, NextPart
      <4> QED BY <4>1 DEF FileUnit
    <3>2. InOrder(more) /\ Sent(more, o.req, (FileSize - o.sending) + n)
      <4> DEFINE f == FileSize - o.sending
      <4>1. Sent(o.out, o.req, f) BY <2>3, <1>1
      <4> HIDE DEF n, u, f
      <4>2. InOrder(more) /\ Sent(more, o.req, f + n)
        BY <2>1, <3>1, <4>1, <1>3, <1>6, <1>8, FileAdded
      <4> QED BY <4>2 DEF f
    <3>3. (FileSize - o.sending) + n = FileSize - t.sending BY <1>3, <1>6, <1>10, Parameters
    <3> QED BY <3>2, <3>3, <2>3, NextPart
  <2> QED BY <2>2, <2>3, <1>1
<1>14. Answering(t)
  <2>1. HeaderNext(t) = HeaderNext(o) /\ FileNext(t) = FileNext(o)
    BY <1>10 DEF HeaderNext, FileNext
  <2>2. Has(t.queue, "written") <=> done
    <3> HIDE DEF q, done
    <3> QED BY <1>1, <1>7, <1>10, NoIoIs
  <2>3. t.sending > 0 <=> ~done BY <1>3, <1>6, <1>10
  <2>4. ~Has(t.queue, "read")
    <3> HIDE DEF q, done
    <3> QED BY <1>1, <1>7, <1>10, NoIoIs
  <2>5. o.parts # <<>> /\ (HeaderNext(o) => ~FileNext(o)) BY <1>1, NextPart
  <2>6. HeaderNext(o) /\ ~done => /\ n = 0 /\ t.sending = 1 /\ o.blocked
                                  /\ Complete(more) /\ Before(more, o.req)
    <3> SUFFICES ASSUME HeaderNext(o), ~done
                 PROVE  n = 0 /\ t.sending = 1 /\ o.blocked /\ Complete(more) /\ Before(more, o.req)
      OBVIOUS
    <3>1. n = 0 /\ more = o.out BY <1>13
    <3>2. t.sending = 1 /\ o.room = 0 BY <3>1, <1>1, <1>6, <1>10
    <3> QED BY <3>1, <3>2, <1>1
  <2> HIDE DEF q, done, n, more
  <2> QED BY <1>1, <1>10, <1>13, <2>1, <2>2, <2>3, <2>4, <2>5, <2>6 DEF Answering
<1>15. Ordered(t, k)
  <2>1. \A i \in DOMAIN more : (i \in DOMAIN o.out /\ more[i] = o.out[i]) \/ more[i] = u
    <3> HIDE DEF n, u, more
    <3> QED BY <1>6, <1>8 DEF Longer
  <2>2. o.blocked \/ \A i \in DOMAIN more : more[i].intact
    <3> SUFFICES ASSUME ~o.blocked, NEW i \in DOMAIN more PROVE more[i].intact OBVIOUS
    <3>1. ~o.wiped /\ \A j \in DOMAIN o.out : o.out[j].intact BY <1>1 DEF Ordered
    <3>2. u.intact BY <3>1
    <3> QED BY <2>1, <3>1, <3>2
  <2>3. \A i \in DOMAIN more : more[i].req <= o.req
    <3> SUFFICES ASSUME NEW i \in DOMAIN more PROVE more[i].req <= o.req OBVIOUS
    <3>1. \A j \in DOMAIN o.out : o.out[j].req <= o.req BY <1>1 DEF Ordered
    <3> HIDE DEF n, u, more
    <3> QED BY <2>1, <3>1, <1>3, <1>5
  <2> HIDE DEF q, done, n, more, u
  <2> QED BY <1>1, <1>10, <1>13, <2>2, <2>3 DEF Ordered
<1>16. NotMore(t, o) BY <1>1, <1>10 DEF NotMore
<1> QED BY <1>2, <1>10, <1>11, <1>12, <1>14, <1>15, <1>16, <1>1, <1>7, NoIoIs DEF Left, Rest

\* Within a handler, no operation is under way but the wait of the timer.
Mid(o, k) ==
    /\ o \in Object /\ o.alive /\ ~o.reading /\ o.sending = 0 /\ NoIo(o.queue)
    /\ Covered(o) /\ Ordered(o, k)

LEMMA ChunkWorks ==
    ASSUME NEW k, NEW o, Mid(o, k), o.open \/ o.late,
           HeaderNext(o) \/ FileNext(o),
           o.open /\ HeaderNext(o) => Complete(o.out) /\ Before(o.out, o.req),
           o.open /\ FileNext(o) => Sent(o.out, o.req, 0),
           NEW gone, NEW w \in AsyncWriteChunk(o, gone)
    PROVE  Left(w, k) /\ NotMore(w, o) /\ w.buf = o.buf /\ ~w.reading
<1> DEFINE failed == [o EXCEPT !.queue = Append(@, "write error")]
           begun == [o EXCEPT !.sending = Length(Head(o.parts)), !.wiped = FALSE,
                              !.blocked = @ \/ o.room = 0]
<1>1. /\ o \in Object /\ o.alive /\ ~o.reading /\ o.sending = 0 /\ NoIo(o.queue)
      /\ Covered(o) /\ Ordered(o, k)
  BY DEF Mid
<1>2. o.parts # <<>> BY NextPart
<1>3. w = failed \/ (o.open /\ w = Transfer(begun))
  BY <1>2 DEF AsyncWriteChunk
<1>4. CASE w = failed
  <2> DEFINE q == Append(o.queue, "write error")
  <2>1. /\ q \in Seq(Handlers)
        /\ \A x : Has(q, x) <=> Has(o.queue, x) \/ x = "write error"
        /\ OneIo(q)
    <3>1. o.queue \in Seq(Handlers) /\ "write error" \in Handlers BY <1>1 DEF Object, Handlers
    <3>2. OneIo(o.queue) /\ NoIo(o.queue) BY <1>1, NoIoIs
    <3> QED BY <3>1, <3>2, Appended
  <2> HIDE DEF q
  <2>2. w = [o EXCEPT !.queue = q] BY <1>4 DEF q
  <2>3. /\ w \in Object /\ w.queue = q /\ w.alive /\ ~w.reading /\ w.sending = 0
        /\ w.open = o.open /\ w.timer = o.timer /\ w.starting = o.starting /\ w.late = o.late
        /\ w.parts = o.parts /\ w.out = o.out /\ w.req = o.req /\ w.mapped = o.mapped
        /\ w.blocked = o.blocked /\ w.buf = o.buf /\ w.inbox = o.inbox /\ w.spoiled = o.spoiled
        /\ w.wiped = o.wiped /\ w.misread = o.misread /\ w.cut = o.cut /\ w.owes = o.owes
    <3> HIDE DEF failed
    <3> QED BY <1>1, <2>1, <2>2 DEF Object
  <2>4. ~Has(q, "read") /\ ~Has(q, "written") BY <1>1, <2>1, NoIoIs
  <2>5. Alternates(w)
    <3>1. OneIo(w.queue) BY <2>1, <2>3
    <3>2. ~w.reading BY <2>3
    <3>3. ~(w.sending > 0) BY <2>3
    <3> QED BY <3>1, <3>2, <3>3, Zenon DEF Alternates
  <2>6. Covered(w) /\ Ended(w) BY <1>1, <2>1, <2>3, <2>4 DEF Covered, Ended
  <2>7. Answering(w)
    <3>1. HeaderNext(w) = HeaderNext(o) /\ FileNext(w) = FileNext(o)
      BY <2>3 DEF HeaderNext, FileNext
    <3> QED BY <1>2, <2>3, <2>4, <3>1 DEF Answering
  <2>8. Ordered(w, k) BY <1>1, <2>3 DEF Ordered
  <2>9. NotMore(w, o) BY <2>3 DEF NotMore
  <2> QED BY <2>3, <2>4, <2>5, <2>6, <2>7, <2>8, <2>9 DEF Left, Rest
<1>5. CASE o.open /\ w = Transfer(begun)
  <2> DEFINE s == Length(Head(o.parts))
             b == o.blocked \/ o.room = 0
  <2>1. s \in Nat /\ s > 0 /\ b \in BOOLEAN
    BY <1>1, Parameters DEF Length, Object
  <2> HIDE DEF s
  <2>2. /\ begun \in Object /\ begun.sending = s /\ begun.wiped = FALSE /\ begun.blocked = b
        /\ begun.queue = o.queue /\ begun.alive /\ ~begun.reading
        /\ begun.open = o.open /\ begun.timer = o.timer /\ begun.starting = o.starting
        /\ begun.parts = o.parts /\ begun.out = o.out /\ begun.req = o.req /\ begun.room = o.room
        /\ begun.buf = o.buf /\ begun.inbox = o.inbox /\ begun.spoiled = o.spoiled
        /\ begun.misread = o.misread /\ begun.cut = o.cut /\ begun.owes = o.owes
    <3>1. begun = [o EXCEPT !.sending = s, !.wiped = FALSE, !.blocked = b] BY DEF s
    <3> HIDE DEF begun, b
    <3> QED BY <1>1, <2>1, <3>1 DEF Object
  <2> HIDE DEF begun
  <2>3. Covered(begun) BY <1>1, <2>2 DEF Covered
  <2>4. Ordered(begun, k)
    <3>1. o.blocked => begun.blocked BY <2>2
    <3> HIDE DEF b
    <3> QED BY <1>1, <2>2, <3>1 DEF Ordered
  <2>5. /\ HeaderNext(begun) = HeaderNext(o) /\ FileNext(begun) = FileNext(o)
        /\ HeaderNext(o) => s = 1
        /\ FileNext(o) => s = FileSize /\ FileSize - s = 0
    BY <2>2, NextPart, Parameters DEF HeaderNext, FileNext, s
  <2>6. begun.room = 0 => begun.blocked BY <2>2
  <2> HIDE DEF b
  <2>7. Writing(begun, k)
    BY <1>1, <1>5, <2>1, <2>2, <2>3, <2>4, <2>5, <2>6 DEF Writing
  <2>8. Left(w, k) /\ NotMore(w, begun) /\ w.buf = begun.buf /\ ~w.reading
    BY <1>5, <2>7, TransferWorks
  <2>9. NotMore(w, o) BY <2>2, <2>8 DEF NotMore
  <2> QED BY <2>2, <2>8, <2>9
<1> QED BY <1>3, <1>4, <1>5

\* The timer is started again: its pending wait is aborted.
LEMMA StartTimerWorks ==
    ASSUME NEW o \in Object
    PROVE  LET t == StartTimer(o)
           IN  /\ t = [o EXCEPT !.timer = TRUE, !.queue = t.queue]
               /\ t \in Object /\ t.timer /\ t.queue \in Seq(Handlers)
               /\ \A x : Has(t.queue, x) <=> Has(o.queue, x) \/ (o.timer /\ x = "aborted")
               /\ NoIo(t.queue) <=> NoIo(o.queue)
               /\ OneIo(o.queue) => OneIo(t.queue)
<1> DEFINE q == o.queue \o If(o.timer, "aborted")
<1>1. o.queue \in Seq(Handlers) /\ o.timer \in BOOLEAN BY DEF Object
<1>2. "aborted" \in Handlers /\ "aborted" \notin Io BY DEF Handlers, Io
<1>3. /\ q \in Seq(Handlers)
      /\ \A x : Has(q, x) <=> Has(o.queue, x) \/ (o.timer /\ x = "aborted")
      /\ NoIo(q) <=> NoIo(o.queue) /\ (o.timer => "aborted" \notin Io)
      /\ OneIo(o.queue) /\ (o.timer /\ "aborted" \in Io => NoIo(o.queue)) => OneIo(q)
  BY <1>1, <1>2, Queued
<1> HIDE DEF q
<1>4. StartTimer(o) = [o EXCEPT !.timer = TRUE, !.queue = q] BY DEF StartTimer, q
<1> DEFINE t == [o EXCEPT !.timer = TRUE, !.queue = q]
<1>5. t \in Object /\ t.timer /\ t.queue = q BY <1>3 DEF Object
<1> HIDE DEF t
<1>6. StartTimer(o) = t BY <1>4 DEF t
<1>7. t = [o EXCEPT !.timer = TRUE, !.queue = t.queue] BY <1>5 DEF t
<1> QED BY <1>2, <1>3, <1>5, <1>6, <1>7

\* The connection waits for the next request, if it is still open.
LEMMA RestartWorks ==
    ASSUME NEW k, NEW o, Mid(o, k), o.open => Complete(o.out) /\ o.mapped # "file"
    PROVE  LET r == Start(Cleared(o))
           IN  Left(r, k) /\ NotMore(r, o) /\ r.buf = <<>> /\ (~o.open => ~r.reading)
<1> DEFINE q == IF o.open THEN o.queue ELSE Append(o.queue, "read error")
           r == ReadOnce(Cleared(o))
           t == StartTimer(r)
<1>1. /\ o \in Object /\ o.alive /\ ~o.reading /\ o.sending = 0 /\ NoIo(o.queue)
      /\ Covered(o) /\ Ordered(o, k)
  BY DEF Mid
<1>2. /\ q \in Seq(Handlers)
      /\ \A x : Has(q, x) <=> Has(o.queue, x) \/ (~o.open /\ x = "read error")
      /\ OneIo(q) /\ (o.open => NoIo(q))
  <2>1. o.queue \in Seq(Handlers) /\ "read error" \in Handlers BY <1>1 DEF Object, Handlers
  <2>2. OneIo(o.queue) BY <1>1, NoIoIs
  <2>3. CASE o.open BY <2>1, <2>2, <2>3, <1>1
  <2>4. CASE ~o.open
    <3>1. q = Append(o.queue, "read error") BY <2>4
    <3> HIDE DEF q
    <3> QED BY <2>1, <2>2, <2>4, <3>1, <1>1, Appended
  <2> QED BY <2>3, <2>4
<1> HIDE DEF q
<1>3. r = [o EXCEPT !.buf = <<>>, !.parts = <<>>, !.linger = FALSE,
                    !.reading = o.open, !.queue = q]
  BY <1>1 DEF ReadOnce, Cleared, q, Object
<1>4. /\ r \in Object /\ r.alive /\ r.reading = o.open /\ r.queue = q /\ r.sending = 0
      /\ r.open = o.open /\ r.timer = o.timer /\ r.starting = o.starting /\ r.late = o.late
      /\ r.parts = <<>> /\ r.out = o.out /\ r.req = o.req /\ r.mapped = o.mapped
      /\ r.blocked = o.blocked /\ r.buf = <<>> /\ r.inbox = o.inbox /\ r.spoiled = o.spoiled
      /\ r.wiped = o.wiped /\ r.misread = o.misread /\ r.cut = o.cut /\ r.owes = o.owes
  <2>1. <<>> \in Seq(Segments) /\ <<>> \in Seq(Parts) OBVIOUS
  <2> HIDE DEF r
  <2> QED BY <1>1, <1>2, <1>3, <2>1 DEF Object
<1> HIDE DEF r
<1>5. /\ t = [r EXCEPT !.timer = TRUE, !.queue = t.queue]
      /\ t \in Object /\ t.timer /\ t.queue \in Seq(Handlers)
      /\ \A x : Has(t.queue, x) <=> Has(r.queue, x) \/ (r.timer /\ x = "aborted")
      /\ NoIo(t.queue) <=> NoIo(r.queue)
      /\ OneIo(r.queue) => OneIo(t.queue)
  BY <1>4, StartTimerWorks
<1> HIDE DEF t
<1>6. /\ t.alive /\ t.reading = o.open /\ t.sending = 0
      /\ t.open = o.open /\ t.starting = o.starting /\ t.late = o.late
      /\ t.parts = <<>> /\ t.out = o.out /\ t.req = o.req /\ t.mapped = o.mapped
      /\ t.blocked = o.blocked /\ t.buf = <<>> /\ t.inbox = o.inbox /\ t.spoiled = o.spoiled
      /\ t.wiped = o.wiped /\ t.misread = o.misread /\ t.cut = o.cut /\ t.owes = o.owes
  <2> DEFINE p == t.queue
  <2>1. t = [r EXCEPT !.timer = TRUE, !.queue = p] BY <1>5
  <2> HIDE DEF p
  <2> QED BY <1>4, <2>1 DEF Object
<1>7. ~Has(t.queue, "read") /\ ~Has(t.queue, "written") /\ ~Has(t.queue, "write error")
  BY <1>1, <1>2, <1>4, <1>5, NoIoIs
<1>8. Alternates(t)
  <2>1. OneIo(t.queue) /\ (o.open => NoIo(t.queue)) BY <1>2, <1>4, <1>5
  <2>2. ~(t.sending > 0) BY <1>6
  <2>3. t.reading => o.open BY <1>6
  <2> QED BY <2>1, <2>2, <2>3, Zenon DEF Alternates
<1>9. Covered(t) /\ Ended(t)
  BY <1>1, <1>5, <1>6, <1>7 DEF Covered, Ended
<1>10. Answering(t)
  <2>1. ~HeaderNext(t) /\ ~FileNext(t) BY <1>6, NextPart
  <2>2. ~(t.sending > 0) BY <1>6
  <2>3. t.open => Complete(t.out) /\ t.mapped # "file" BY <1>6
  <2> QED BY <1>6, <1>7, <2>1, <2>2, <2>3, Zenon DEF Answering
<1>11. Ordered(t, k) BY <1>1, <1>6 DEF Ordered
<1>12. Start(Cleared(o)) = t BY DEF Start, t, r
<1>13. NotMore(t, o) BY <1>6 DEF NotMore
<1> QED BY <1>5, <1>6, <1>7, <1>8, <1>9, <1>10, <1>11, <1>12, <1>13 DEF Left, Rest

\* close_conn(), at any time.
LEMMA CloseWorks ==
    ASSUME NEW k, NEW o \in Object, Alternates(o), ~o.open => ~o.reading /\ o.sending = 0,
           Ordered(o, k)
    PROVE  LET r == CloseConn(o)
           IN  /\ r \in Object /\ ~r.open /\ ~r.reading /\ r.sending = 0 /\ Alternates(r)
               /\ r.alive = o.alive /\ r.late = o.late /\ r.buf = o.buf /\ r.parts = o.parts
               /\ r.starting = o.starting
               /\ Covered(r) /\ Ordered(r, k)
               /\ \A x : Has(r.queue, x) => \/ Has(o.queue, x)
                                            \/ o.reading /\ x = "read error"
                                            \/ o.sending > 0 /\ x = "write error"
                                            \/ o.timer /\ x = "aborted"
               /\ \A x : Has(o.queue, x) => Has(r.queue, x)
               /\ ~o.reading /\ o.sending = 0 /\ NoIo(o.queue) => NoIo(r.queue)
<1> DEFINE r == CloseConn(o)
           q == o.queue \o If(o.reading, "read error") \o If(o.sending > 0, "write error")
                  \o If(o.timer, "aborted")
<1> DEFINE R == o.reading
           S == o.sending > 0
           W == o.timer
           q1 == o.queue \o If(R, "read error")
           q2 == q1 \o If(S, "write error")
<1>1. CASE ~o.open
  <2>1. r = o BY <1>1 DEF CloseConn
  <2>2. ~o.reading /\ o.sending = 0 BY <1>1
  <2>3. Covered(o) BY <1>1 DEF Covered
  <2> QED BY <1>1, <2>1, <2>2, <2>3, Zenon
<1>2. CASE o.open
  <2>1. o.queue \in Seq(Handlers) /\ R \in BOOLEAN /\ S \in BOOLEAN /\ W \in BOOLEAN
    BY DEF Object
  <2>2. OneIo(o.queue) /\ (R \/ S => NoIo(o.queue)) /\ ~(R /\ S) BY DEF Alternates
  <2>3. /\ "read error" \in Handlers /\ "write error" \in Handlers /\ "aborted" \in Handlers
        /\ "aborted" \notin Io
    BY DEF Handlers, Io
  <2> HIDE DEF R, S, W
  <2>4. /\ q1 \in Seq(Handlers)
        /\ \A x : Has(q1, x) <=> Has(o.queue, x) \/ (R /\ x = "read error")
        /\ NoIo(q1) <=> NoIo(o.queue) /\ (R => "read error" \notin Io)
        /\ OneIo(o.queue) /\ (R /\ "read error" \in Io => NoIo(o.queue)) => OneIo(q1)
    BY <2>1, <2>3, Queued
  <2> HIDE DEF q1
  <2>5. OneIo(q1) /\ (S => NoIo(q1)) /\ (~R => (NoIo(q1) <=> NoIo(o.queue))) BY <2>2, <2>4
  <2>6. /\ q2 \in Seq(Handlers)
        /\ \A x : Has(q2, x) <=> Has(q1, x) \/ (S /\ x = "write error")
        /\ NoIo(q2) <=> NoIo(q1) /\ (S => "write error" \notin Io)
        /\ OneIo(q1) /\ (S /\ "write error" \in Io => NoIo(q1)) => OneIo(q2)
    BY <2>1, <2>3, <2>4, Queued
  <2> HIDE DEF q2
  <2>7. OneIo(q2) /\ (~S => (NoIo(q2) <=> NoIo(q1))) BY <2>5, <2>6
  <2>8. /\ q \in Seq(Handlers)
        /\ \A x : Has(q, x) <=> Has(q2, x) \/ (W /\ x = "aborted")
        /\ NoIo(q) <=> NoIo(q2) /\ (W => "aborted" \notin Io)
        /\ OneIo(q2) /\ (W /\ "aborted" \in Io => NoIo(q2)) => OneIo(q)
    <3>1. q = q2 \o If(W, "aborted") BY DEF q2, q1, R, S, W
    <3> HIDE DEF q
    <3> QED BY <2>1, <2>3, <2>6, <3>1, Queued
  <2> HIDE DEF q
  <2>9. OneIo(q) /\ (~R /\ ~S /\ NoIo(o.queue) => NoIo(q)) BY <2>3, <2>5, <2>7, <2>8
  <2>10. /\ \A x : Has(q, x) => \/ Has(o.queue, x) \/ (R /\ x = "read error")
                                \/ (S /\ x = "write error") \/ (W /\ x = "aborted")
         /\ \A x : Has(o.queue, x) => Has(q, x)
    <3>1. ASSUME NEW x
          PROVE  /\ Has(q, x) => \/ Has(o.queue, x) \/ (R /\ x = "read error")
                                 \/ (S /\ x = "write error") \/ (W /\ x = "aborted")
                 /\ Has(o.queue, x) => Has(q, x)
      <4>1. Has(q1, x) <=> Has(o.queue, x) \/ (R /\ x = "read error") BY <2>4
      <4>2. Has(q2, x) <=> Has(q1, x) \/ (S /\ x = "write error") BY <2>6
      <4>3. Has(q, x) <=> Has(q2, x) \/ (W /\ x = "aborted") BY <2>8
      <4> QED BY <4>1, <4>2, <4>3
    <3> QED BY <3>1
  <2>11. r = [o EXCEPT !.open = FALSE, !.reading = FALSE, !.sending = 0, !.timer = FALSE,
                       !.inbox = <<>>, !.room = Room, !.queue = q]
    BY <1>2 DEF CloseConn, q
  <2> HIDE DEF r
  <2>12. /\ r \in Object /\ r.alive = o.alive /\ ~r.reading /\ r.queue = q /\ r.sending = 0
         /\ ~r.open /\ r.starting = o.starting /\ r.late = o.late /\ r.parts = o.parts
         /\ r.out = o.out /\ r.req = o.req /\ r.blocked = o.blocked /\ r.buf = o.buf
         /\ r.inbox = <<>> /\ r.spoiled = o.spoiled /\ r.wiped = o.wiped
         /\ r.misread = o.misread /\ r.cut = o.cut /\ r.owes = o.owes
    <3>1. <<>> \in Seq(Segments) /\ Room \in 0..Room /\ 0 \in Nat BY Parameters
    <3> QED BY <2>8, <2>11, <3>1 DEF Object
  <2>13. Covered(r) BY <2>12 DEF Covered
  <2>14. Alternates(r)
    <3>1. ~(r.sending > 0) BY <2>12
    <3> QED BY <3>1, <2>9, <2>12, Zenon DEF Alternates
  <2>15. Ordered(r, k) BY <2>12, NothingArrived DEF Ordered
  <2>16. ~o.reading /\ o.sending = 0 => ~R /\ ~S BY DEF R, S
  <2>17. R = o.reading /\ (S <=> o.sending > 0) /\ W = o.timer BY DEF R, S, W
  <2>18. \A x : Has(r.queue, x) => \/ Has(o.queue, x)
                                   \/ o.reading /\ x = "read error"
                                   \/ o.sending > 0 /\ x = "write error"
                                   \/ o.timer /\ x = "aborted"
    BY <2>10, <2>12, <2>17, Zenon
  <2>19. \A x : Has(o.queue, x) => Has(r.queue, x) BY <2>10, <2>12
  <2>20. ~o.reading /\ o.sending = 0 /\ NoIo(o.queue) => NoIo(r.queue)
    BY <2>9, <2>12, <2>16
  <2>21. r.sending = 0 BY <2>12
  <2> QED BY <2>12, <2>13, <2>14, <2>15, <2>18, <2>19, <2>20, <2>21, Zenon DEF r
<1> QED BY <1>1, <1>2

-----------------------------------------------------------------------------
(* process(), from the handler of a read to the buffers it clears. *)

\* The order of the numbers, for the least element of a set of them.
LEMMA LessThan == \E R : /\ IsWellFoundedOn(R, Nat)
                         /\ \A x, y \in Nat : x < y => <<x, y>> \in R
<1> DEFINE R == OpToRel(<, Nat)
<1>1. IsWellFoundedOn(R, Nat) BY NatLessThanWellFounded
<1>2. \A x, y \in Nat : x < y => <<x, y>> \in R BY DEF OpToRel
<1> HIDE DEF R
<1> QED BY Zenon, <1>1, <1>2

\* The request that is read begins at the first head in the buffer.
LEMMA FirstHead ==
    ASSUME NEW buf \in Seq(Segments), Heads(buf) # {}
    PROVE  /\ Min(Heads(buf)) \in Heads(buf)
           /\ buf[Min(Heads(buf))].req \in Nat
           /\ buf # <<>>
<1> DEFINE T == Heads(buf)
<1>1. Len(buf) \in Nat /\ DOMAIN buf = 1..Len(buf) OBVIOUS
<1>2. T \subseteq DOMAIN buf BY DEF Heads
<1>3. T \subseteq Nat BY <1>1, <1>2
<1> HIDE DEF T
<1>4. PICK R : IsWellFoundedOn(R, Nat) /\ \A x, y \in Nat : x < y => <<x, y>> \in R BY LessThan
<1>5. IsWellFoundedOn(R, Nat) BY <1>4
<1>6. T # {} BY DEF T
<1>7. PICK m \in T : \A y \in T : ~ (<<y, m>> \in R) BY <1>3, <1>5, <1>6, WFMin, Zenon
<1>8. ASSUME NEW x \in T PROVE m =< x
  <2>1. ~(x < m) BY <1>3, <1>4, <1>7, Zenon
  <2>2. x \in Nat /\ m \in Nat BY <1>3
  <2> QED BY <2>1, <2>2
<1>9. Min(T) \in T BY <1>7, <1>8 DEF Min
<1>10. buf[Min(T)] \in Segments BY <1>1, <1>2, <1>9
<1> QED BY <1>1, <1>2, <1>9, <1>10 DEF Segments, T

\* The handler of a read has a request to take from the buffer.
Ready(o, k) ==
    /\ Mid(o, k) /\ Heads(o.buf) # {}
    /\ o.open \/ o.late
    /\ ~o.cut => Begins(o.buf[1])
    /\ o.open => /\ Complete(o.out)
                 /\ \A i \in Heads(o.buf) :
                       /\ o.req < o.buf[i].req /\ o.buf[i].req <= k
                       /\ \A j \in Heads(o.inbox) : o.buf[i].req < o.inbox[j].req

\* The answer is to a request that is later than every unit sent so far.
LEMMA ReadMakesAnswer ==
    ASSUME NEW k, NEW o, Ready(o, k), NEW a \in ProcessRead(o)
    PROVE  LET b == ProcessWrite(a)
           IN  /\ Mid(b, k) /\ b.buf = o.buf /\ b.open = o.open /\ b.late = o.late
               /\ b.starting = o.starting
               /\ b.parts = <<>> \/ HeaderNext(b)
               /\ b.open => Complete(b.out) /\ Before(b.out, b.req)
<1> DEFINE r == o.buf[Min(Heads(o.buf))].req
           b == ProcessWrite(a)
<1>1. /\ o \in Object /\ o.alive /\ ~o.reading /\ o.sending = 0 /\ NoIo(o.queue)
      /\ Covered(o) /\ Ordered(o, k) /\ Heads(o.buf) # {} /\ o.buf \in Seq(Segments)
      /\ o.req \in Nat
  BY DEF Ready, Mid, Object
<1>2. Min(Heads(o.buf)) \in Heads(o.buf) /\ r \in Nat /\ o.buf # <<>> BY <1>1, FirstHead
<1> HIDE DEF r
<1>3. \E x \in BOOLEAN, l \in BOOLEAN, y \in Mapping :
         /\ a.object = [o EXCEPT !.req = r, !.misread = x, !.linger = l, !.mapped = y]
         /\ x => o.misread \/ ~Begins(Head(o.buf))
  <2> DEFINE p == [o EXCEPT !.req = r]
  <2>1. o.misread \in BOOLEAN /\ o.linger \in BOOLEAN /\ o.mapped \in Mapping
    BY <1>1 DEF Object
  <2>2. CASE ~Begins(Head(o.buf))
    <3>1. a = Coded([p EXCEPT !.misread = TRUE], "BAD_REQUEST") BY <2>2 DEF ProcessRead, r
    <3>2. a.object = [p EXCEPT !.misread = TRUE] BY <3>1 DEF Coded
    <3>3. a.object = [o EXCEPT !.req = r, !.misread = TRUE, !.linger = o.linger,
                               !.mapped = o.mapped]
      BY <3>2, <1>1, <2>1, <1>2 DEF Object
    <3> QED BY <3>3, <2>1, <2>2
  <2>3. CASE Begins(Head(o.buf))
    <3>1. PICK l \in BOOLEAN : \/ a = Coded([p EXCEPT !.linger = l], "BAD_REQUEST")
                               \/ a \in DoRequest([p EXCEPT !.linger = l])
      BY <2>3 DEF ProcessRead, r
    <3>2. \/ a.object = [p EXCEPT !.linger = l]
          \/ a.object = [[p EXCEPT !.linger = l] EXCEPT !.mapped = "file"]
      <4> DEFINE d == [p EXCEPT !.linger = l]
      <4>1. a = Coded(d, "BAD_REQUEST") \/ a \in DoRequest(d) BY <3>1
      <4> HIDE DEF d
      <4>2. \A e, code : Coded(e, code).object = e BY DEF Coded
      <4>3. (\E code : a = Coded(d, code)) \/ a = Coded([d EXCEPT !.mapped = "file"], "FILE_REQUEST")
        BY <4>1, Zenon DEF DoRequest
      <4>4. a.object = d \/ a.object = [d EXCEPT !.mapped = "file"]
        BY <4>2, <4>3, Zenon
      <4> QED BY <4>4 DEF d
    <3>3. \E y \in Mapping : a.object = [o EXCEPT !.req = r, !.misread = o.misread, !.linger = l,
                                                  !.mapped = y]
      <4>1. CASE a.object = [p EXCEPT !.linger = l]
        <5>1. a.object = [o EXCEPT !.req = r, !.misread = o.misread, !.linger = l,
                                   !.mapped = o.mapped]
          BY <4>1, <1>1, <2>1, <1>2 DEF Object
        <5> QED BY <5>1, <2>1
      <4>2. CASE a.object = [[p EXCEPT !.linger = l] EXCEPT !.mapped = "file"]
        <5>1. a.object = [o EXCEPT !.req = r, !.misread = o.misread, !.linger = l,
                                   !.mapped = "file"]
          BY <4>2, <1>1, <2>1, <1>2 DEF Object
        <5>2. "file" \in Mapping BY DEF Mapping
        <5> QED BY <5>1, <5>2
      <4> QED BY <3>2, <4>1, <4>2
    <3> QED BY <3>3, <2>1
  <2> QED BY <2>2, <2>3
<1>4. PICK x \in BOOLEAN, l \in BOOLEAN, y \in Mapping :
         /\ a.object = [o EXCEPT !.req = r, !.misread = x, !.linger = l, !.mapped = y]
         /\ x => o.misread \/ ~Begins(Head(o.buf))
  BY <1>3
<1>5. PICK ps \in {<<>>, <<"header">>, <<"header", "file">>} :
         b = [a.object EXCEPT !.parts = ps]
  BY DEF ProcessWrite
<1>6. ps \in Seq(Parts)
  <2>1. "header" \in Parts /\ "file" \in Parts BY DEF Parts
  <2>2. <<>> \in Seq(Parts) OBVIOUS
  <2>3. <<"header">> \in Seq(Parts) BY <2>1
  <2>4. <<"header", "file">> \in Seq(Parts) BY <2>1
  <2> QED BY <2>2, <2>3, <2>4
<1> HIDE DEF b
<1>7. /\ b \in Object /\ b.alive /\ ~b.reading /\ b.sending = 0 /\ b.queue = o.queue
      /\ b.open = o.open /\ b.starting = o.starting /\ b.timer = o.timer /\ b.late = o.late
      /\ b.parts = ps /\ b.out = o.out /\ b.req = r /\ b.blocked = o.blocked /\ b.buf = o.buf
      /\ b.inbox = o.inbox /\ b.spoiled = o.spoiled /\ b.wiped = o.wiped
      /\ b.misread = x /\ b.cut = o.cut /\ b.owes = o.owes
  <2>1. x \in BOOLEAN /\ l \in BOOLEAN /\ y \in Mapping OBVIOUS
  <2> DEFINE c == a.object
  <2>2. c = [o EXCEPT !.req = r, !.misread = x, !.linger = l, !.mapped = y] BY <1>4
  <2>3. b = [c EXCEPT !.parts = ps] BY <1>5
  <2> HIDE DEF c
  <2>5. c \in Object
    <3>1. o \in Object /\ r \in Nat BY <1>1, <1>2
    <3>2. [o EXCEPT !.req = r, !.mapped = y] \in Object BY <2>1, <3>1 DEF Object
    <3> DEFINE e == [o EXCEPT !.req = r, !.mapped = y]
    <3>3. e \in Object BY <3>2
    <3>4. c = [e EXCEPT !.misread = x, !.linger = l] BY <2>2, <3>1 DEF Object
    <3> HIDE DEF e
    <3> QED BY <2>1, <3>3, <3>4 DEF Object
  <2>4. /\ c \in Object /\ c.alive /\ ~c.reading /\ c.sending = 0 /\ c.queue = o.queue
        /\ c.open = o.open /\ c.starting = o.starting /\ c.timer = o.timer /\ c.late = o.late
        /\ c.out = o.out /\ c.req = r /\ c.blocked = o.blocked /\ c.buf = o.buf
        /\ c.inbox = o.inbox /\ c.spoiled = o.spoiled /\ c.wiped = o.wiped
        /\ c.misread = x /\ c.cut = o.cut /\ c.owes = o.owes
    BY <1>1, <1>2, <2>1, <2>2, <2>5 DEF Object
  <2> QED BY <1>6, <2>3, <2>4 DEF Object
<1>8. x => o.cut
  <2>1. Head(o.buf) = o.buf[1] BY <1>1, <1>2
  <2>2. ~Begins(Head(o.buf)) => o.cut BY <2>1 DEF Ready
  <2>3. o.misread => o.cut BY <1>1 DEF Ordered
  <2> QED BY <2>2, <2>3, <1>4
<1>9. o.open => /\ Complete(o.out) /\ r <= k /\ o.req < r
                /\ \A i \in Heads(o.inbox) : r < o.inbox[i].req /\ o.inbox[i].req <= k
                /\ Rising(o.inbox)
  BY <1>1, <1>2 DEF Ready, Ordered, r
<1>10. o.open => \A i \in DOMAIN o.out : o.out[i].req < r
  <2> SUFFICES ASSUME o.open, NEW i \in DOMAIN o.out PROVE o.out[i].req < r OBVIOUS
  <2>1. o.out \in Seq(Unit) BY <1>1 DEF Object
  <2>2. o.out[i].req \in Nat
    <3>1. o.out[i] \in Unit BY <2>1
    <3> QED BY <3>1 DEF Unit
  <2>3. o.out[i].req <= o.req BY <1>1 DEF Ordered
  <2> QED BY <2>2, <2>3, <1>1, <1>2, <1>9
<1>11. o.open => \A i \in DOMAIN o.out : o.out[i].req <= r
  <2> SUFFICES ASSUME o.open, NEW i \in DOMAIN o.out PROVE o.out[i].req <= r OBVIOUS
  <2>1. o.out \in Seq(Unit) BY <1>1 DEF Object
  <2>2. o.out[i].req \in Nat
    <3>1. o.out[i] \in Unit BY <2>1
    <3> QED BY <3>1 DEF Unit
  <2> QED BY <2>2, <1>2, <1>10
<1>12. Covered(b) BY <1>1, <1>7 DEF Covered
<1>13. Ordered(b, k)
  BY <1>1, <1>7, <1>8, <1>9, <1>11 DEF Ordered
<1>14. b.open => Complete(b.out) /\ Before(b.out, b.req) BY <1>7, <1>9, <1>10 DEF Before
<1>15. b.parts = <<>> \/ HeaderNext(b) BY <1>7 DEF HeaderNext
<1>16. Mid(b, k) BY <1>1, <1>7, <1>12, <1>13 DEF Mid
<1> QED BY <1>7, <1>14, <1>15, <1>16 DEF b

\* m_read_buf and m_write_buf are cleared, when no read is pending.
LEMMA ClearWorks ==
    ASSUME NEW k, NEW o, Left(o, k), ~o.reading
    PROVE  LET r == ClearBuffers(o) IN Left(r, k) /\ NotMore(r, o) /\ r.buf = <<>>
<1> DEFINE w == o.sending > 0 /\ Head(o.parts) = "header"
           r == ClearBuffers(o)
<1>1. o \in Object /\ Rest(o, k) /\ o.alive /\ ~Has(o.queue, "read") BY DEF Left
<1>2. Alternates(o) /\ Covered(o) /\ Ended(o) /\ Answering(o) /\ Ordered(o, k) BY <1>1 DEF Rest
<1>3. w => o.blocked
  <2>1. o.sending > 0 => HeaderNext(o) \/ FileNext(o) BY <1>2 DEF Answering
  <2>2. o.sending > 0 /\ HeaderNext(o) => o.blocked BY <1>2 DEF Answering
  <2>3. "file" # "header" OBVIOUS
  <2> QED BY <2>1, <2>2, <2>3, NextPart
<1>4. w \in BOOLEAN OBVIOUS
<1>5. r = [o EXCEPT !.buf = <<>>, !.spoiled = o.spoiled, !.wiped = w]
  <2>1. (o.spoiled \/ o.reading) = o.spoiled BY <1>1 DEF Object
  <2> QED BY <2>1, Zenon DEF ClearBuffers
<1> HIDE DEF w, r
<1>6. /\ r \in Object /\ r.alive /\ r.reading = o.reading /\ r.sending = o.sending
      /\ r.queue = o.queue /\ r.wiped = w /\ r.buf = <<>>
      /\ r.open = o.open /\ r.starting = o.starting /\ r.timer = o.timer /\ r.late = o.late
      /\ r.parts = o.parts /\ r.out = o.out /\ r.req = o.req /\ r.blocked = o.blocked
      /\ r.inbox = o.inbox /\ r.spoiled = o.spoiled /\ r.mapped = o.mapped
      /\ r.misread = o.misread /\ r.cut = o.cut /\ r.owes = o.owes
  <2>1. <<>> \in Seq(Segments) /\ o.spoiled \in BOOLEAN BY <1>1 DEF Object
  <2> QED BY <1>1, <1>4, <1>5, <2>1 DEF Object
<1>7. Alternates(r) BY <1>2, <1>6 DEF Alternates
<1>8. Covered(r) /\ Ended(r) BY <1>1, <1>2, <1>6 DEF Covered, Ended
<1>9. Answering(r)
  <2>1. HeaderNext(r) = HeaderNext(o) /\ FileNext(r) = FileNext(o)
    BY <1>6 DEF HeaderNext, FileNext
  <2> QED BY <1>1, <1>2, <1>6, <2>1 DEF Answering
<1>10. Ordered(r, k) BY <1>2, <1>3, <1>6 DEF Ordered
<1>11. NotMore(r, o) BY <1>6 DEF NotMore
<1> QED BY <1>1, <1>6, <1>7, <1>8, <1>9, <1>10, <1>11 DEF Left, Rest, r

\* process() answers: it closes the connection, begins to write, or finds that the peer has gone.
LEMMA ProcessWorks ==
    ASSUME NEW k, NEW o, Ready(o, k), NEW gone, NEW w \in Process(o, gone)
    PROVE  Left(w, k) /\ NotMore(w, o) /\ w.buf = <<>>
<1>1. PICK a \in ProcessRead(o) :
         \E v \in AsyncWriteChunk(IF ProcessWrite(a).parts = <<>> THEN CloseConn(ProcessWrite(a))
                                  ELSE ProcessWrite(a), gone) : w = ClearBuffers(v)
  BY DEF Process
<1> DEFINE b == ProcessWrite(a)
           c == CloseConn(b)
<1>2. /\ Mid(b, k) /\ b.open = o.open /\ b.late = o.late /\ b.starting = o.starting
      /\ b.parts = <<>> \/ HeaderNext(b)
      /\ b.open => Complete(b.out) /\ Before(b.out, b.req)
  BY ReadMakesAnswer
<1> HIDE DEF b
<1>3. PICK v \in AsyncWriteChunk(IF b.parts = <<>> THEN c ELSE b, gone) : w = ClearBuffers(v)
  BY <1>1 DEF b
<1>4. CASE b.parts = <<>>
  <2>1. /\ b \in Object /\ b.alive /\ ~b.reading /\ b.sending = 0 /\ NoIo(b.queue)
        /\ Ordered(b, k)
    BY <1>2 DEF Mid
  <2>2. Alternates(b)
    <3>1. ~(b.sending > 0) BY <2>1
    <3>2. OneIo(b.queue) BY <2>1, NoIoIs
    <3> QED BY <2>1, <3>1, <3>2, Zenon DEF Alternates
  <2>3. /\ c \in Object /\ ~c.open /\ ~c.reading /\ c.sending = 0 /\ c.alive
        /\ c.starting = b.starting /\ c.parts = <<>> /\ Covered(c) /\ Ordered(c, k) /\ NoIo(c.queue)
    BY <2>1, <2>2, <1>4, CloseWorks
  <2> HIDE DEF c
  <2>4. v \in AsyncWriteChunk(c, gone) BY <1>3, <1>4
  <2>5. v = Start(Cleared(c)) BY <2>3, <2>4 DEF AsyncWriteChunk
  <2>6. Mid(c, k) BY <2>3 DEF Mid
  <2>7. Left(v, k) /\ NotMore(v, c) /\ ~v.reading BY <2>3, <2>5, <2>6, RestartWorks
  <2>8. Left(w, k) /\ NotMore(w, v) /\ w.buf = <<>> BY <2>7, <1>3, ClearWorks
  <2>9. NotMore(w, o) BY <1>2, <2>3, <2>7, <2>8 DEF NotMore
  <2> QED BY <2>8, <2>9
<1>5. CASE b.parts # <<>>
  <2>1. v \in AsyncWriteChunk(b, gone) BY <1>3, <1>5
  <2>2. HeaderNext(b) /\ (b.open \/ b.late) BY <1>2, <1>5 DEF Ready
  <2>3. ~FileNext(b) BY <2>2, NextPart
  <2>4. Left(v, k) /\ NotMore(v, b) /\ ~v.reading BY <1>2, <2>1, <2>2, <2>3, ChunkWorks
  <2>5. Left(w, k) /\ NotMore(w, v) /\ w.buf = <<>> BY <2>4, <1>3, ClearWorks
  <2>6. NotMore(w, o) BY <1>2, <2>4, <2>5 DEF NotMore
  <2> QED BY <2>5, <2>6
<1> QED BY <1>4, <1>5

-----------------------------------------------------------------------------
(* The other handlers. *)

Shape(o) == o.parts = <<>> \/ HeaderNext(o) \/ FileNext(o)

\* A handler that closes the connection.
LEMMA CloseMid ==
    ASSUME NEW k, NEW o, Mid(o, k), Shape(o)
    PROVE  Left(CloseConn(o), k) /\ NotMore(CloseConn(o), o) /\ CloseConn(o).buf = o.buf
<1> DEFINE r == CloseConn(o)
<1>1. /\ o \in Object /\ o.alive /\ ~o.reading /\ o.sending = 0 /\ NoIo(o.queue)
      /\ Ordered(o, k)
  BY DEF Mid
<1>2. Alternates(o)
  <2>1. ~(o.sending > 0) BY <1>1
  <2>2. OneIo(o.queue) BY <1>1, NoIoIs
  <2> QED BY <1>1, <2>1, <2>2, Zenon DEF Alternates
<1>3. /\ r \in Object /\ ~r.open /\ ~r.reading /\ r.sending = 0 /\ Alternates(r) /\ r.alive
      /\ r.buf = o.buf /\ r.parts = o.parts /\ Covered(r) /\ Ordered(r, k) /\ NoIo(r.queue)
      /\ r.starting = o.starting
  BY <1>1, <1>2, CloseWorks
<1> HIDE DEF r
<1>4. ~Has(r.queue, "read") /\ ~Has(r.queue, "written") /\ ~Has(r.queue, "write error")
  BY <1>3, NoIoIs
<1>5. Ended(r) BY <1>3, <1>4 DEF Ended
<1>6. Answering(r)
  <2>1. Shape(r) BY <1>3 DEF Shape, HeaderNext, FileNext
  <2>2. ~(r.sending > 0) BY <1>3
  <2> QED BY <1>3, <1>4, <2>1, <2>2, Zenon DEF Answering, Shape
<1>7. NotMore(r, o) BY <1>3 DEF NotMore
<1> QED BY <1>3, <1>4, <1>5, <1>6, <1>7 DEF Left, Rest, r

\* The handler of a write has been called: a part has been sent.
Wrote(o, k) ==
    /\ Mid(o, k) /\ (o.open \/ o.late) /\ o.buf = <<>>
    /\ HeaderNext(o) \/ FileNext(o)
    /\ o.open /\ HeaderNext(o) => Sent(o.out, o.req, 0) /\ Last(o.out).part = "header"
    /\ o.open /\ FileNext(o) => Sent(o.out, o.req, FileSize)

LEMMA WriteDoneWorks ==
    ASSUME NEW k, NEW o, Wrote(o, k), NEW gone, NEW w \in WriteDone(o, gone)
    PROVE  Left(w, k) /\ NotMore(w, o) /\ w.buf = <<>>
<1> DEFINE rest == [o EXCEPT !.parts = Tail(@)]
           done == [rest EXCEPT !.mapped = "no"]
           ps == Tail(o.parts)
<1>1. /\ o \in Object /\ o.alive /\ ~o.reading /\ o.sending = 0 /\ NoIo(o.queue)
      /\ Covered(o) /\ Ordered(o, k) /\ o.buf = <<>>
  BY DEF Wrote, Mid
<1>2. /\ ps = <<>> \/ ps = <<"file">>
      /\ ps = <<"file">> => HeaderNext(o)
      /\ ps \in Seq(Parts)
  <2>1. /\ Tail(<<"header">>) = <<>> /\ Tail(<<"file">>) = <<>>
        /\ Tail(<<"header", "file">>) = <<"file">>
    OBVIOUS
  <2>2. <<"header">> # <<"file">> /\ <<>> # <<"file">> OBVIOUS
  <2>3. <<>> \in Seq(Parts) /\ <<"file">> \in Seq(Parts) BY DEF Parts
  <2>4. \/ o.parts = <<"header">> \/ o.parts = <<"header", "file">> \/ o.parts = <<"file">>
    BY DEF Wrote, HeaderNext, FileNext
  <2>5. CASE o.parts = <<"header">> BY <2>1, <2>2, <2>3, <2>5
  <2>6. CASE o.parts = <<"header", "file">>
    BY <2>1, <2>3, <2>6 DEF HeaderNext
  <2>7. CASE o.parts = <<"file">> BY <2>1, <2>2, <2>3, <2>7
  <2> QED BY <2>4, <2>5, <2>6, <2>7
<1> HIDE DEF ps
<1>3. rest = [o EXCEPT !.parts = ps] BY DEF ps
<1>4. /\ rest \in Object /\ rest.alive /\ ~rest.reading /\ rest.sending = 0
      /\ rest.queue = o.queue /\ rest.wiped = o.wiped /\ rest.buf = <<>>
      /\ rest.open = o.open /\ rest.starting = o.starting /\ rest.timer = o.timer
      /\ rest.late = o.late /\ rest.parts = ps /\ rest.out = o.out /\ rest.req = o.req
      /\ rest.blocked = o.blocked /\ rest.inbox = o.inbox /\ rest.spoiled = o.spoiled
      /\ rest.misread = o.misread /\ rest.cut = o.cut /\ rest.owes = o.owes
  <2> HIDE DEF rest
  <2> QED BY <1>1, <1>2, <1>3 DEF Object
<1>5. Mid(rest, k)
  <2> HIDE DEF rest
  <2>1. Covered(rest) BY <1>1, <1>4 DEF Covered
  <2>2. Ordered(rest, k) BY <1>1, <1>4 DEF Ordered
  <2> QED BY <1>1, <1>4, <2>1, <2>2 DEF Mid
<1>6. CASE rest.parts # <<>>
  <2>1. w \in AsyncWriteChunk(rest, gone) BY <1>6 DEF WriteDone
  <2> HIDE DEF rest
  <2>2. FileNext(rest) /\ HeaderNext(o) BY <1>2, <1>4, <1>6 DEF FileNext
  <2>3. ~HeaderNext(rest) BY <2>2, NextPart
  <2>4. rest.open => Sent(rest.out, rest.req, 0) BY <1>4, <2>2 DEF Wrote
  <2>5. rest.open \/ rest.late BY <1>4 DEF Wrote
  <2>6. Left(w, k) /\ NotMore(w, rest) /\ w.buf = <<>>
    BY <1>4, <1>5, <2>1, <2>2, <2>3, <2>4, <2>5, ChunkWorks
  <2>7. NotMore(w, o) BY <1>4, <2>6 DEF NotMore
  <2> QED BY <2>6, <2>7
<1>7. CASE rest.parts = <<>>
  <2>1. w = IF o.linger THEN Start(Cleared(done)) ELSE CloseConn(done)
    BY <1>7 DEF WriteDone
  <2>2. /\ done \in Object /\ done.alive /\ ~done.reading /\ done.sending = 0
        /\ done.queue = o.queue /\ done.wiped = o.wiped /\ done.buf = <<>> /\ done.mapped # "file"
        /\ done.open = o.open /\ done.starting = o.starting /\ done.timer = o.timer
        /\ done.parts = <<>> /\ done.out = o.out /\ done.req = o.req
        /\ done.blocked = o.blocked /\ done.inbox = o.inbox /\ done.spoiled = o.spoiled
        /\ done.misread = o.misread /\ done.cut = o.cut /\ done.owes = o.owes
    <3> HIDE DEF rest
    <3> QED BY <1>4, <1>7 DEF Object, Mapping
  <2> HIDE DEF rest, done
  <2>3. Mid(done, k)
    <3>1. Covered(done) BY <1>1, <2>2 DEF Covered
    <3>2. Ordered(done, k) BY <1>1, <2>2 DEF Ordered
    <3> QED BY <1>1, <2>2, <3>1, <3>2 DEF Mid
  <2>4. done.open => Complete(done.out)
    <3>1. o.open => Complete(o.out)
      BY DEF Wrote, Complete, Sent
    <3> QED BY <2>2, <3>1
  <2>5. Left(w, k) /\ NotMore(w, done) /\ w.buf = <<>>
    <3>1. CASE o.linger BY <2>1, <2>2, <2>3, <2>4, <3>1, RestartWorks
    <3>2. CASE ~o.linger
      <4>1. Shape(done) BY <2>2 DEF Shape
      <4> QED BY <2>1, <2>2, <2>3, <3>2, <4>1, CloseMid
    <3> QED BY <3>1, <3>2
  <2>6. NotMore(w, o) BY <2>2, <2>5 DEF NotMore
  <2> QED BY <2>5, <2>6
<1> QED BY <1>6, <1>7

\* With an empty buffer there is nothing to say about it.
LEMMA NothingBuffered == ASSUME NEW k, NEW o, Left(o, k), o.buf = <<>>
                         PROVE  ObjInv(o, k)
<1>1. Heads(o.buf) = {} BY DEF Heads
<1>2. ~Has(o.queue, "read") BY DEF Left
<1>3. Buffered(o, k) BY <1>1, <1>2 DEF Buffered
<1> QED BY <1>3 DEF Left, ObjInv

\* The timer closes the connection, which may be reading, writing or neither.
LEMMA TimeoutWorks ==
    ASSUME NEW k, NEW o \in Object, o.alive, Alternates(o), Ended(o), Answering(o),
           Ordered(o, k), Buffered(o, k)
    PROVE  ObjInv(Timeout(o), k) /\ Timeout(o).alive /\ NotMore(Timeout(o), o)
<1> DEFINE c == CloseConn(o)
           late == o.late \/ (o.open /\ ~o.reading)
           r == Timeout(o)
<1>1. ~o.open => ~o.reading /\ o.sending = 0 BY DEF Ended
<1>2. /\ c \in Object /\ ~c.open /\ ~c.reading /\ c.sending = 0 /\ Alternates(c) /\ c.alive
      /\ c.starting = o.starting
      /\ c.late = o.late /\ c.buf = o.buf /\ c.parts = o.parts /\ Ordered(c, k)
      /\ \A x : Has(c.queue, x) => \/ Has(o.queue, x)
                                   \/ o.reading /\ x = "read error"
                                   \/ o.sending > 0 /\ x = "write error"
                                   \/ o.timer /\ x = "aborted"
      /\ \A x : Has(o.queue, x) => Has(c.queue, x)
  BY <1>1, CloseWorks
<1>20. ASSUME NEW x, x \in {"read", "written"} PROVE Has(c.queue, x) <=> Has(o.queue, x)
  <2> DEFINE S == o.sending > 0
  <2>1. Has(c.queue, x) => \/ Has(o.queue, x)
                           \/ o.reading /\ x = "read error"
                           \/ S /\ x = "write error"
                           \/ o.timer /\ x = "aborted"
    BY <1>2
  <2>2. x # "read error" /\ x # "write error" /\ x # "aborted" BY <1>20
  <2> HIDE DEF S, c
  <2> QED BY <1>2, <2>1, <2>2, Zenon
<1>21. Has(c.queue, "write error") => Has(o.queue, "write error") \/ o.sending > 0
  <2> DEFINE S == o.sending > 0
  <2>1. \A x : Has(c.queue, x) => \/ Has(o.queue, x)
                                  \/ o.reading /\ x = "read error"
                                  \/ S /\ x = "write error"
                                  \/ o.timer /\ x = "aborted"
    BY <1>2
  <2> HIDE DEF S, c
  <2>2. "write error" # "read error" /\ "write error" # "aborted" OBVIOUS
  <2>3. Has(c.queue, "write error") => Has(o.queue, "write error") \/ S
    BY <2>1, <2>2, Zenon
  <2> QED BY <2>3 DEF S
<1>3. r = [c EXCEPT !.late = late] BY <1>2 DEF Timeout
<1>4. late \in BOOLEAN OBVIOUS
<1> HIDE DEF c, late, r
<1>5. /\ r \in Object /\ r.alive /\ ~r.reading /\ r.sending = 0 /\ r.queue = c.queue
      /\ r.late = late /\ ~r.open /\ r.parts = c.parts /\ r.out = c.out /\ r.req = c.req
      /\ r.buf = c.buf /\ r.blocked = c.blocked /\ r.inbox = c.inbox /\ r.spoiled = c.spoiled
      /\ r.wiped = c.wiped /\ r.misread = c.misread /\ r.cut = c.cut /\ r.owes = c.owes
      /\ r.starting = c.starting
  BY <1>2, <1>3, <1>4 DEF Object
<1>6. Alternates(r) BY <1>2, <1>5 DEF Alternates
<1>7. Covered(r) BY <1>5 DEF Covered
<1>8. ~late => /\ ~Has(c.queue, "read") /\ ~Has(c.queue, "written")
               /\ ~Has(c.queue, "write error")
  <2> SUFFICES ASSUME ~late PROVE /\ ~Has(c.queue, "read") /\ ~Has(c.queue, "written")
                                  /\ ~Has(c.queue, "write error")
    OBVIOUS
  <2>1. ~o.late /\ (o.open => o.reading) BY DEF late
  <2>2. CASE o.open
    <3>1. o.reading /\ NoIo(o.queue) /\ ~(o.sending > 0) BY <2>1, <2>2 DEF Alternates
    <3> QED BY <3>1, <1>20, <1>21, NoIoIs
  <2>3. CASE ~o.open
    <3>1. ~(o.sending > 0) BY <2>3, <1>1
    <3> QED BY <2>1, <2>3, <3>1, <1>20, <1>21 DEF Ended
  <2> QED BY <2>2, <2>3
<1>9. Ended(r) BY <1>5, <1>8 DEF Ended
<1>10. Answering(r)
  <2>1. Shape(o) BY DEF Answering, Shape
  <2>2. Shape(r) BY <2>1, <1>2, <1>5 DEF Shape, HeaderNext, FileNext
  <2>3. ~(r.sending > 0) BY <1>5
  <2>4. Has(r.queue, "written") => r.parts # <<>>
    <3>1. Has(o.queue, "written") => o.parts # <<>> BY DEF Answering
    <3> QED BY <3>1, <1>2, <1>5, <1>20
  <2> QED BY <1>5, <2>2, <2>3, <2>4, Zenon DEF Answering, Shape
<1>11. Ordered(r, k) BY <1>2, <1>5 DEF Ordered
<1>12. Buffered(r, k)
  <2>1. Has(r.queue, "read") <=> Has(o.queue, "read") BY <1>5, <1>20
  <2>2. r.buf = o.buf BY <1>2, <1>5
  <2>3. o.cut <=> r.cut
    <3>1. c.cut = o.cut BY DEF CloseConn, c, Object
    <3> QED BY <3>1, <1>5
  <2> QED BY <1>5, <2>1, <2>2, <2>3 DEF Buffered
<1>13. NotMore(r, o) BY <1>2, <1>5 DEF NotMore
<1> QED BY <1>5, <1>6, <1>7, <1>9, <1>10, <1>11, <1>12, <1>13 DEF ObjInv, Rest, r

LEMMA FreshIs ==
    /\ Fresh \in Object
    /\ ~Fresh.open /\ Fresh.alive /\ ~Fresh.starting /\ ~Fresh.reading /\ Fresh.sending = 0
    /\ ~Fresh.timer /\ Fresh.queue = <<>> /\ Fresh.inbox = <<>> /\ Fresh.buf = <<>>
    /\ ~Fresh.owes /\ Fresh.req = 0 /\ Fresh.parts = <<>> /\ Fresh.mapped = "unknown" /\ ~Fresh.wiped
    /\ Fresh.out = <<>> /\ ~Fresh.misread /\ ~Fresh.late /\ ~Fresh.spoiled
<1>1. Room \in 0..Room /\ 0 \in Nat BY Parameters
<1>2. <<>> \in Seq(Segments) /\ <<>> \in Seq(Parts) /\ <<>> \in Seq(Handlers) /\ <<>> \in Seq(Unit)
  OBVIOUS
<1>3. Fresh \in Object BY <1>1, <1>2 DEF Fresh, Object, Mapping
<1> QED BY <1>3 DEF Fresh

\* The destructor runs only for a connection that is closed, and leaves no handler but,
\* after a late timeout, that of a write.
LEMMA ReleasedWorks ==
    ASSUME NEW k, NEW o, ObjInv(o, k), o.alive
    PROVE  ObjInv(Released(o), k) /\ NotMore(Released(o), o)
<1> DEFINE r == Released(o)
<1>1. /\ o \in Object /\ Alternates(o) /\ Covered(o) /\ Ended(o) /\ Answering(o)
      /\ Ordered(o, k) /\ Buffered(o, k)
  BY DEF ObjInv, Rest
<1>2. CASE Held(o) BY <1>2 DEF Released, NotMore
<1>3. CASE ~Held(o)
  <2>1. /\ ~o.starting /\ ~o.reading /\ ~o.timer
        /\ \A i \in DOMAIN o.queue : o.queue[i] \in {"written", "write error"}
    BY <1>3 DEF Held
  <2>2. ~Has(o.queue, "timeout") /\ ~Has(o.queue, "read") /\ ~Has(o.queue, "read error")
    BY <2>1 DEF Has
  <2>3. ~o.open BY <2>1, <2>2, <1>1 DEF Covered
  <2>4. CloseConn(o) = o BY <2>3 DEF CloseConn
  <2>5. r = [Fresh EXCEPT !.alive = FALSE, !.queue = o.queue, !.out = o.out,
                          !.blocked = o.blocked, !.late = o.late, !.spoiled = o.spoiled,
                          !.cut = o.cut, !.misread = o.misread]
    BY <1>3, <2>4 DEF Released
  <2> HIDE DEF r
  <2>6. /\ r \in Object /\ ~r.alive /\ ~r.reading /\ r.sending = 0 /\ r.queue = o.queue
        /\ r.late = o.late /\ ~r.open /\ r.parts = <<>> /\ r.out = o.out /\ r.mapped # "file"
        /\ r.buf = <<>> /\ r.blocked = o.blocked /\ r.inbox = <<>> /\ r.spoiled = o.spoiled
        /\ ~r.wiped /\ r.misread = o.misread /\ r.cut = o.cut /\ ~r.timer /\ ~r.starting
    <3>1. r \in Object
      <4> DEFINE f == [Fresh EXCEPT !.alive = FALSE, !.queue = o.queue, !.out = o.out]
      <4>1. f \in Object BY <1>1, FreshIs DEF Object
      <4>2. r = [f EXCEPT !.blocked = o.blocked, !.late = o.late, !.spoiled = o.spoiled,
                          !.cut = o.cut, !.misread = o.misread]
        BY <2>5, FreshIs DEF Object
      <4> HIDE DEF f
      <4> QED BY <1>1, <4>1, <4>2 DEF Object
    <3> QED BY <1>1, <2>5, <3>1, FreshIs DEF Object
  <2>7. ~(r.sending > 0) BY <2>6
  <2>8. Alternates(r)
    <3>1. OneIo(r.queue) BY <1>1, <2>6 DEF Alternates
    <3> QED BY <3>1, <2>6, <2>7, Zenon DEF Alternates
  <2>9. Covered(r) BY <2>6 DEF Covered
  <2>10. Ended(r)
    <3>1. ~o.late => ~Has(o.queue, "written") /\ ~Has(o.queue, "write error")
      BY <1>1, <2>3 DEF Ended
    <3>2. \A h \in Handlers \ {"written", "write error"} : ~Has(o.queue, h)
      BY <2>1 DEF Has
    <3> QED BY <2>2, <2>6, <3>1, <3>2 DEF Ended
  <2>11. Answering(r) BY <2>6, <2>7, Zenon DEF Answering
  <2>12. Ordered(r, k) BY <1>1, <2>6, NothingArrived DEF Ordered
  <2>13. Buffered(r, k)
    <3>1. Heads(r.buf) = {} BY <2>6 DEF Heads
    <3> QED BY <2>2, <2>6, <3>1 DEF Buffered
  <2>14. NotMore(r, o) BY <2>6 DEF NotMore
  <2> QED BY <2>6, <2>8, <2>9, <2>10, <2>11, <2>12, <2>13, <2>14 DEF ObjInv, Rest, r
<1> QED BY <1>2, <1>3

\* What is left when the next handler has been taken from the queue.
LEMMA NextHandler ==
    ASSUME NEW k, NEW o, ObjInv(o, k), o.queue # <<>>
    PROVE  LET r == [o EXCEPT !.queue = Tail(@)]
           IN  /\ r \in Object /\ Alternates(r) /\ Ended(r) /\ Answering(r) /\ Ordered(r, k)
               /\ NotMore(r, o)
               /\ r.alive = o.alive /\ r.open = o.open /\ r.late = o.late
               /\ Head(o.queue) # "read" => Buffered(r, k)
               /\ Head(o.queue) # "timeout" => Covered(r)
               /\ Head(o.queue) \in Io =>
                     /\ o.alive => Mid(r, k)
                     /\ Head(o.queue) # "read" => r.buf = <<>>
               /\ Head(o.queue) = "read" /\ o.alive => Ready(r, k)
               /\ Head(o.queue) = "written" /\ o.alive => Wrote(r, k)
<1> DEFINE q == Tail(o.queue)
           h == Head(o.queue)
           r == [o EXCEPT !.queue = Tail(@)]
<1>1. /\ o \in Object /\ Alternates(o) /\ Covered(o) /\ Ended(o) /\ Answering(o)
      /\ Ordered(o, k) /\ Buffered(o, k) /\ o.queue \in Seq(Handlers) /\ o.sending \in Nat
  BY DEF ObjInv, Rest, Object
<1>2. /\ h \in Handlers /\ q \in Seq(Handlers)
      /\ \A x : Has(o.queue, x) <=> x = h \/ Has(q, x)
      /\ NoIo(o.queue) => NoIo(q)
      /\ OneIo(o.queue) => OneIo(q)
      /\ OneIo(o.queue) /\ h \in Io => NoIo(q)
  BY <1>1, Unqueued
<1>3. Has(o.queue, h) BY <1>2
<1> HIDE DEF q, h
<1>4. r = [o EXCEPT !.queue = q] BY DEF q
<1> HIDE DEF r
<1>5. /\ r \in Object /\ r.alive = o.alive /\ r.reading = o.reading /\ r.sending = o.sending
      /\ r.queue = q /\ r.wiped = o.wiped /\ r.buf = o.buf /\ r.mapped = o.mapped
      /\ r.open = o.open /\ r.starting = o.starting /\ r.timer = o.timer /\ r.late = o.late
      /\ r.parts = o.parts /\ r.out = o.out /\ r.req = o.req /\ r.blocked = o.blocked
      /\ r.inbox = o.inbox /\ r.spoiled = o.spoiled
      /\ r.misread = o.misread /\ r.cut = o.cut /\ r.owes = o.owes
  BY <1>1, <1>2, <1>4 DEF Object
<1>6. Alternates(r) BY <1>1, <1>2, <1>5 DEF Alternates
<1>7. \A x : Has(q, x) => Has(o.queue, x) BY <1>2
<1>8. Ended(r) BY <1>1, <1>5, <1>7 DEF Ended
<1>9. /\ HeaderNext(r) = HeaderNext(o) /\ FileNext(r) = FileNext(o)
  BY <1>5 DEF HeaderNext, FileNext
<1>10. Answering(r) BY <1>1, <1>5, <1>7, <1>9 DEF Answering
<1>11. Ordered(r, k) BY <1>1, <1>5 DEF Ordered
<1>12. h # "read" => Buffered(r, k)
  <2>1. h # "read" => (Has(q, "read") <=> Has(o.queue, "read")) BY <1>2
  <2> QED BY <1>1, <1>5, <2>1 DEF Buffered
<1>13. h # "timeout" => Covered(r)
  <2>1. h # "timeout" => (Has(q, "timeout") <=> Has(o.queue, "timeout")) BY <1>2
  <2> QED BY <1>1, <1>5, <2>1 DEF Covered
<1>14. ASSUME h \in Io
       PROVE  NoIo(q) /\ ~o.reading /\ o.sending = 0 /\ h # "timeout"
  <2>1. ~NoIo(o.queue) BY <1>3, <1>14 DEF NoIo, Has
  <2>2. ~o.reading /\ ~(o.sending > 0) /\ OneIo(o.queue) BY <1>1, <2>1 DEF Alternates
  <2>3. o.sending = 0 BY <1>1, <2>2
  <2>4. h # "timeout" BY <1>14 DEF Io
  <2> QED BY <1>2, <1>14, <2>2, <2>3, <2>4
<1>15. h \in Io /\ o.alive => Mid(r, k)
  BY <1>5, <1>11, <1>13, <1>14 DEF Mid
<1>16. h \in Io /\ h # "read" => r.buf = <<>>
  <2> SUFFICES ASSUME h \in Io, h # "read" PROVE r.buf = <<>> OBVIOUS
  <2>1. ~Has(o.queue, "read") BY <1>2, <1>14, NoIoIs
  <2> QED BY <1>1, <1>5, <2>1 DEF Buffered
<1>17. ASSUME h = "read", o.alive PROVE Ready(r, k)
  <2>1. Mid(r, k) /\ Has(o.queue, "read") BY <1>3, <1>15, <1>17 DEF Io
  <2>2. o.open \/ o.late BY <1>1, <2>1 DEF Ended
  <2>3. o.open => Complete(o.out) BY <1>1, <2>1 DEF Answering
  <2>4. Heads(o.buf) # {} /\ o.buf # <<>>
    <3>1. Heads(o.buf) # {} BY <1>1, <2>1 DEF Buffered
    <3> QED BY <3>1 DEF Heads
  <2> QED BY <1>1, <1>5, <2>1, <2>2, <2>3, <2>4 DEF Ready, Buffered
<1>18. ASSUME h = "written", o.alive PROVE Wrote(r, k)
  <2>1. Mid(r, k) /\ Has(o.queue, "written") /\ r.buf = <<>>
    BY <1>3, <1>15, <1>16, <1>18 DEF Io
  <2>2. o.open \/ o.late BY <1>1, <2>1 DEF Ended
  <2>3. HeaderNext(o) \/ FileNext(o) BY <1>1, <1>18, <2>1 DEF Answering
  <2>4. o.open /\ HeaderNext(o) => Sent(o.out, o.req, 0) /\ Last(o.out).part = "header"
    BY <1>1, <2>1 DEF Answering
  <2>5. o.open /\ FileNext(o) => Sent(o.out, o.req, FileSize)
    <3>1. o.open /\ FileNext(o) => Sent(o.out, o.req, FileSize - o.sending)
      BY <1>1, <2>1 DEF Answering
    <3>2. FileSize - o.sending = FileSize BY <1>14, <1>18, Parameters DEF Io
    <3> QED BY <3>1, <3>2
  <2> QED BY <1>5, <1>9, <2>1, <2>2, <2>3, <2>4, <2>5 DEF Wrote
<1>19. NotMore(r, o) BY <1>5 DEF NotMore
<1> QED BY <1>19, <1>5, <1>6, <1>8, <1>10, <1>11, <1>12, <1>13, <1>15, <1>16, <1>17, <1>18 DEF r, h

\* One handler of a connection, from its call to the end of its object's last reference.
Handled(o, gone) ==
    LET rest == [o EXCEPT !.queue = Tail(@)]
    IN  CASE ~o.alive -> {rest}
          [] o.alive /\ Head(o.queue) = "read" -> Process(rest, gone)
          [] o.alive /\ Head(o.queue) = "written" -> WriteDone(rest, gone)
          [] o.alive /\ Head(o.queue) = "aborted" -> {rest}
          [] o.alive /\ Head(o.queue) = "timeout" -> {Timeout(rest)}
          [] OTHER -> {CloseConn(rest)}

LEMMA HandlerWorks ==
    ASSUME NEW k, NEW o, ObjInv(o, k), o.queue # <<>>, NEW gone, NEW r \in Handled(o, gone)
    PROVE  LET n == IF o.alive THEN Released(r) ELSE r IN ObjInv(n, k) /\ NotMore(n, o)
<1> DEFINE rest == [o EXCEPT !.queue = Tail(@)]
           h == Head(o.queue)
<1>1. /\ rest \in Object /\ Alternates(rest) /\ Ended(rest) /\ Answering(rest)
      /\ Ordered(rest, k) /\ NotMore(rest, o) /\ rest.alive = o.alive
      /\ h # "read" => Buffered(rest, k)
      /\ h # "timeout" => Covered(rest)
      /\ h \in Io => (o.alive => Mid(rest, k)) /\ (h # "read" => rest.buf = <<>>)
      /\ h = "read" /\ o.alive => Ready(rest, k)
      /\ h = "written" /\ o.alive => Wrote(rest, k)
  BY NextHandler
<1>2. h \in Handlers
  <2>1. o.queue \in Seq(Handlers) BY DEF ObjInv, Object
  <2> QED BY <2>1, Unqueued
<1>3. CASE ~o.alive
  <2>1. r = rest BY <1>3 DEF Handled
  <2> HIDE DEF rest, h
  <2>2. ~rest.open BY <1>1, <1>3 DEF Ended
  <2>3. Covered(rest) BY <2>2 DEF Covered
  <2>4. h # "read"
    <3>1. o.queue \in Seq(Handlers) BY DEF ObjInv, Object
    <3>2. Has(o.queue, h) BY <3>1, Unqueued DEF h
    <3>3. Ended(o) BY DEF ObjInv, Rest
    <3>4. "read" \in Handlers \ {"written", "write error"} BY DEF Handlers
    <3> QED BY <1>3, <3>2, <3>3, <3>4 DEF Ended
  <2>5. ObjInv(rest, k) BY <1>1, <2>3, <2>4 DEF ObjInv, Rest
  <2> QED BY <2>1, <2>5, <1>1, <1>3
<1>4. CASE o.alive
  <2>1. ObjInv(r, k) /\ r.alive /\ NotMore(r, rest)
    <3>1. CASE h = "read"
      <4>1. r \in Process(rest, gone) BY <1>4, <3>1 DEF Handled
      <4> HIDE DEF rest, h
      <4>2. Left(r, k) /\ NotMore(r, rest) /\ r.buf = <<>>
        BY <1>1, <1>4, <3>1, <4>1, ProcessWorks
      <4> QED BY <4>2, NothingBuffered DEF Left
    <3>2. CASE h = "written"
      <4>1. r \in WriteDone(rest, gone) BY <1>4, <3>2 DEF Handled
      <4> HIDE DEF rest, h
      <4>2. Left(r, k) /\ NotMore(r, rest) /\ r.buf = <<>>
        BY <1>1, <1>4, <3>2, <4>1, WriteDoneWorks
      <4> QED BY <4>2, NothingBuffered DEF Left
    <3>3. CASE h = "aborted"
      <4>1. r = rest BY <1>4, <3>3 DEF Handled
      <4> HIDE DEF rest, h
      <4>2. NotMore(rest, rest) BY DEF NotMore
      <4>3. ObjInv(rest, k) BY <1>1, <3>3 DEF ObjInv, Rest
      <4> QED BY <1>1, <1>4, <4>1, <4>2, <4>3
    <3>4. CASE h = "timeout"
      <4>1. r = Timeout(rest) BY <1>4, <3>4 DEF Handled
      <4> HIDE DEF rest, h
      <4> QED BY <1>1, <1>4, <3>4, <4>1, TimeoutWorks
    <3>5. CASE h = "read error" \/ h = "write error"
      <4>1. r = CloseConn(rest) BY <1>4, <3>5 DEF Handled
      <4> HIDE DEF rest, h
      <4>2. h \in Io /\ h # "read" BY <3>5 DEF Io
      <4>3. Mid(rest, k) /\ rest.buf = <<>> BY <1>1, <1>4, <4>2
      <4>4. Shape(rest) BY <1>1 DEF Answering, Shape
      <4>5. Left(r, k) /\ NotMore(r, rest) /\ r.buf = <<>> BY <4>1, <4>3, <4>4, CloseMid
      <4> QED BY <4>5, NothingBuffered DEF Left
    <3> QED BY <1>2, <3>1, <3>2, <3>3, <3>4, <3>5 DEF Handlers
  <2> HIDE DEF rest, h
  <2>2. ObjInv(Released(r), k) /\ NotMore(Released(r), r) BY <2>1, ReleasedWorks
  <2> QED BY <1>1, <1>4, <2>1, <2>2 DEF NotMore
<1> QED
  <2>1. o.alive \/ ~o.alive OBVIOUS
  <2> QED BY <1>3, <1>4, <2>1

-----------------------------------------------------------------------------
(* What the reactor of asio, the clients and the accepting thread do to a connection. *)

LEMMA InvIs ==
    ASSUME NEW k, NEW o, ObjInv(o, k)
    PROVE  /\ o \in Object /\ Alternates(o) /\ Covered(o) /\ Ended(o) /\ Answering(o)
           /\ Ordered(o, k) /\ Buffered(o, k)
           /\ o.queue \in Seq(Handlers) /\ o.inbox \in Seq(Segments) /\ o.buf \in Seq(Segments)
           /\ o.req \in Nat /\ o.sending \in Nat /\ o.room \in 0..Room
BY DEF ObjInv, Rest, Object

\* A read takes the first n segments, with the end of a head among them, and leaves the rest: as it
\* is or, if it cuts a head, with another part in the first place.
BehindHead(s, n) == Heads(s) # {} /\ n \in Min(Heads(s))..Len(s)

\* What is read (t), what is left (l), and what stays of that (rest).
DividedInto(s, n, t, l, rest) ==
    /\ t \in Seq(Segments) /\ rest \in Seq(Segments)
    /\ n \in 1..Len(s)
    /\ t # <<>> /\ t[1] = s[1] /\ Heads(t) # {}
    /\ \A i \in Heads(t) : i \in Heads(s) /\ t[i] = s[i] /\ i <= n
    /\ \A j \in Heads(rest) : n + j \in Heads(s) /\ rest[j].req = s[n + j].req
    /\ \A j \in Heads(rest) : j \in Nat \ {0}
    /\ s[n].part # "post" /\ Requests(s) /\ rest = l => Requests(rest)
    /\ s[n].part # "post" /\ Waits(s) /\ rest = l => Waits(rest)

LEMMA Divided ==
    ASSUME NEW s \in Seq(Segments), NEW n, BehindHead(s, n),
           NEW t, t = SubSeq(s, 1, n), NEW l, l = SubSeq(s, n + 1, Len(s)), NEW rest \in Remains(l)
    PROVE  DividedInto(s, n, t, l, rest)
<1> DEFINE m == Len(s)
           h == Min(Heads(s))
<1>1. m \in Nat /\ DOMAIN s = 1..m /\ \A i \in 1..m : s[i] \in Segments OBVIOUS
<1>2. h \in Heads(s)
  <2>1. Heads(s) # {} BY DEF BehindHead
  <2> QED BY <2>1, FirstHead
<1>3. h \in 1..m BY <1>1, <1>2 DEF Heads
<1> HIDE DEF h, m
<1>4. n \in h..m BY DEF h, m, BehindHead
<1>5. n \in 1..m /\ n \in Nat /\ h <= n BY <1>1, <1>3, <1>4
<1>6. /\ t \in Seq(Segments) /\ Len(t) = n /\ \A i \in 1..n : t[i] = s[i]
  <2>1. \A i \in 1..n : s[i] \in Segments BY <1>1, <1>5
  <2>2. /\ t \in Seq(Segments) /\ Len(t) = IF 1 <= n THEN n - 1 + 1 ELSE 0
        /\ \A i \in 1..(n - 1 + 1) : t[i] = s[1 + i - 1]
    BY <2>1, <1>5, SubSeqProperties
  <2>3. n - 1 + 1 = n /\ 1 <= n BY <1>5
  <2>4. \A i \in 1..n : 1 + i - 1 = i BY <1>5
  <2> QED BY <2>2, <2>3, <2>4
<1>7. /\ l \in Seq(Segments) /\ Len(l) = m - n /\ \A i \in 1..(m - n) : l[i] = s[n + i]
  <2>0. l = SubSeq(s, n + 1, m) BY DEF m
  <2>1. \A i \in (n + 1)..m : s[i] \in Segments BY <1>1, <1>5
  <2>2. n + 1 \in Int /\ m \in Int BY <1>1, <1>5
  <2>3. /\ l \in Seq(Segments) /\ Len(l) = IF n + 1 <= m THEN m - (n + 1) + 1 ELSE 0
        /\ \A i \in 1..(m - (n + 1) + 1) : l[i] = s[(n + 1) + i - 1]
    BY <2>0, <2>1, <2>2, SubSeqProperties
  <2>4. m - (n + 1) + 1 = m - n /\ (~(n + 1 <= m) => m - n = 0) BY <1>1, <1>5
  <2>5. \A i \in 1..(m - n) : (n + 1) + i - 1 = n + i BY <1>1, <1>5
  <2> QED BY <2>3, <2>4, <2>5
<1>8. DOMAIN t = 1..n /\ DOMAIN l = 1..(m - n) BY <1>6, <1>7
<1>9. /\ rest \in Seq(Segments) /\ DOMAIN rest = 1..(m - n)
      /\ \A j \in Heads(rest) : l[j].part # "body" /\ rest[j].req = l[j].req
  <2>1. CASE rest = l BY <1>7, <1>8, <2>1 DEF Heads
  <2>2. CASE rest # l
    <3>1. PICK p \in {"tail", "body"} : l # <<>> /\ Begins(l[1]) /\ rest = [l EXCEPT ![1].part = p]
      BY <2>2 DEF Remains
    <3> DEFINE x == [l[1] EXCEPT !.part = p]
    <3>2. 1 \in 1..(m - n) /\ l[1] \in Segments
      <4>1. m - n # 0 BY <1>7, <3>1, EmptySeq
      <4>2. 1 \in 1..(m - n) BY <1>1, <1>5, <4>1
      <4> QED BY <1>7, <1>8, <4>2
    <3>3. x \in Segments /\ x.req = l[1].req BY <3>2 DEF Segments
    <3>4. rest = [l EXCEPT ![1] = x] BY <3>1
    <3> HIDE DEF x
    <3>5. /\ rest \in [1..(m - n) -> Segments] /\ rest[1] = x
          /\ \A j \in 1..(m - n) : j # 1 => rest[j] = l[j]
      <4>1. l \in [1..(m - n) -> Segments]
        <5>1. l \in [1..Len(l) -> Segments] BY <1>7, LenProperties
        <5>2. 1..Len(l) = 1..(m - n) BY <1>7
        <5> QED BY <5>1, <5>2
      <4> QED BY <3>2, <3>3, <3>4, <4>1
    <3>6. m - n \in Nat BY <1>1, <1>5
    <3>7. rest \in Seq(Segments) /\ DOMAIN rest = 1..(m - n) BY <3>5, <3>6, SeqDef
    <3>8. l[1].part # "body" BY <3>1 DEF Begins
    <3> QED BY <3>3, <3>5, <3>7, <3>8 DEF Heads
  <2> QED BY <2>1, <2>2
<1>10. \A j \in 1..(m - n) : n + j \in 1..m /\ j \in Nat \ {0} /\ l[j] = s[n + j]
  <2>1. \A j \in 1..(m - n) : n + j \in 1..m /\ j \in Nat \ {0} BY <1>1, <1>5
  <2> QED BY <1>7, <2>1
<1>11. \A j \in Heads(rest) : /\ n + j \in Heads(s) /\ rest[j].req = s[n + j].req
                              /\ j \in Nat \ {0}
  <2> SUFFICES ASSUME NEW j \in Heads(rest)
               PROVE  /\ n + j \in Heads(s) /\ rest[j].req = s[n + j].req
                      /\ j \in Nat \ {0}
    OBVIOUS
  <2>1. j \in 1..(m - n) BY <1>9 DEF Heads
  <2> QED BY <1>1, <1>9, <1>10, <2>1 DEF Heads
<1>12. \A i \in Heads(t) : i \in Heads(s) /\ t[i] = s[i] /\ i <= n
  <2> SUFFICES ASSUME NEW i \in Heads(t) PROVE i \in Heads(s) /\ t[i] = s[i] /\ i <= n OBVIOUS
  <2>1. i \in 1..n BY <1>8 DEF Heads
  <2>2. i \in 1..m /\ i <= n BY <1>1, <1>5, <2>1
  <2> QED BY <1>1, <1>6, <2>1, <2>2 DEF Heads
<1>13. h \in Heads(t)
  <2>1. h \in 1..n BY <1>3, <1>5
  <2> QED BY <1>2, <1>6, <1>8, <2>1 DEF Heads
<1>14. t # <<>> /\ t[1] = s[1]
  <2>1. 1 \in 1..n /\ n # 0 BY <1>5
  <2>2. t # <<>> BY <1>6, <2>1, EmptySeq
  <2> QED BY <1>6, <2>1, <2>2
<1>15. ASSUME s[n].part # "post", Requests(s), NEW j \in 1..(m - n)
       PROVE  Begins(l[j]) \/ (j - 1 \in 1..(m - n) /\ l[j - 1].part = "post")
  <2>1. n + j \in 1..m /\ l[j] = s[n + j] BY <1>10
  <2>2. Begins(s[n + j]) \/ s[n + j - 1].part = "post"
    <3>1. PICK i \in DOMAIN s : i = n + j BY <1>1, <2>1
    <3>2. Begins(s[i]) \/ s[i - 1].part = "post" BY <1>15 DEF Requests
    <3>3. i - 1 = n + j - 1 BY <1>1, <1>5, <3>1
    <3> QED BY ONLY <3>1, <3>2, <3>3
  <2>3. CASE j = 1
    <3>1. n + j - 1 = n BY <2>3, <1>5
    <3> QED BY <1>15, <2>1, <2>2, <3>1
  <2>4. CASE j # 1
    <3>1. j - 1 \in 1..(m - n) /\ n + (j - 1) = n + j - 1 BY <2>4, <1>1, <1>5
    <3>2. l[j - 1] = s[n + (j - 1)] BY <1>10, <3>1
    <3> QED BY <2>1, <2>2, <3>1, <3>2
  <2> QED BY <2>3, <2>4
<1>16. s[n].part # "post" /\ Requests(s) /\ rest = l => Requests(rest)
  BY <1>8, <1>15 DEF Requests
<1>17. ASSUME s[n].part # "post", Waits(s), rest = l PROVE Waits(rest)
  <2>1. s[m].part = "post" BY <1>17 DEF Waits, Last, m
  <2>2. n # m BY <1>17, <2>1
  <2>3. m - n \in 1..(m - n) /\ n + (m - n) = m BY <2>2, <1>1, <1>5
  <2>4. l[m - n] = s[m] BY <1>10, <2>3
  <2>5. l # <<>>
    <3>1. m - n # 0 BY <2>2, <1>1, <1>5
    <3> QED BY <1>7, <3>1
  <2> QED BY <1>7, <1>17, <2>1, <2>4, <2>5 DEF Waits, Last
<1>18. n \in 1..Len(s) BY <1>5 DEF m
<1> QED BY <1>6, <1>9, <1>11, <1>12, <1>13, <1>14, <1>16, <1>17, <1>18 DEF DividedInto

LEMMA ArriveWorks ==
    ASSUME NEW k, NEW o, ObjInv(o, k), o.reading, Heads(o.inbox) # {},
           NEW n \in Min(Heads(o.inbox))..Len(o.inbox),
           NEW rest \in Remains(SubSeq(o.inbox, n + 1, Len(o.inbox))), NEW cut \in BOOLEAN,
           cut <=> \/ o.cut
                   \/ rest # SubSeq(o.inbox, n + 1, Len(o.inbox)) \/ o.inbox[n].part = "post"
    PROVE  LET r == [o EXCEPT !.reading = FALSE, !.inbox = rest,
                              !.buf = @ \o SubSeq(o.inbox, 1, n),
                              !.queue = Append(@, "read"), !.cut = cut]
           IN  ObjInv(r, k) /\ NotMore(r, o)
<1> DEFINE q == Append(o.queue, "read")
           t == SubSeq(o.inbox, 1, n)
           l == SubSeq(o.inbox, n + 1, Len(o.inbox))
           r == [o EXCEPT !.reading = FALSE, !.inbox = rest, !.buf = @ \o t, !.queue = q,
                          !.cut = cut]
<1>1. /\ o \in Object /\ Alternates(o) /\ Covered(o) /\ Ended(o) /\ Answering(o)
      /\ Ordered(o, k) /\ Buffered(o, k)
      /\ o.queue \in Seq(Handlers) /\ o.inbox \in Seq(Segments) /\ o.sending \in Nat
  BY InvIs
<1>2. o.open /\ o.alive BY <1>1 DEF Ended
<1>3. NoIo(o.queue) /\ o.sending = 0
  <2>1. NoIo(o.queue) /\ ~(o.sending > 0) BY <1>1 DEF Alternates
  <2> QED BY <1>1, <2>1
<1>4. o.buf = <<>>
  <2>1. ~Has(o.queue, "read") BY <1>3, NoIoIs
  <2> QED BY <1>1, <2>1 DEF Buffered
<1>5. /\ q \in Seq(Handlers)
      /\ \A x : Has(q, x) <=> Has(o.queue, x) \/ x = "read"
      /\ OneIo(q)
  <2>1. "read" \in Handlers /\ OneIo(o.queue) BY <1>3, NoIoIs DEF Handlers
  <2> QED BY <1>1, <1>3, <2>1, Appended
<1>6. /\ t \in Seq(Segments) /\ rest \in Seq(Segments)
      /\ n \in 1..Len(o.inbox)
      /\ t # <<>> /\ t[1] = o.inbox[1] /\ Heads(t) # {}
      /\ \A i \in Heads(t) : i \in Heads(o.inbox) /\ t[i] = o.inbox[i] /\ i <= n
      /\ \A j \in Heads(rest) : n + j \in Heads(o.inbox) /\ rest[j].req = o.inbox[n + j].req
      /\ \A j \in Heads(rest) : j \in Nat \ {0}
      /\ o.inbox[n].part # "post" /\ Requests(o.inbox) /\ rest = l => Requests(rest)
      /\ o.inbox[n].part # "post" /\ Waits(o.inbox) /\ rest = l => Waits(rest)
  <2> DEFINE s == o.inbox
  <2>1. s \in Seq(Segments) BY <1>1
  <2>2. BehindHead(s, n) /\ rest \in Remains(l) BY DEF BehindHead
  <2>3. t = SubSeq(s, 1, n) /\ l = SubSeq(s, n + 1, Len(s)) OBVIOUS
  <2> HIDE DEF s, t, l
  <2>4. DividedInto(s, n, t, l, rest) BY ONLY <2>1, <2>2, <2>3, Divided
  <2> QED BY <2>4 DEF DividedInto, s
<1>20. cut <=> o.cut \/ rest # l \/ o.inbox[n].part = "post" OBVIOUS
<1> HIDE DEF q, t, l
<1>7. r = [o EXCEPT !.reading = FALSE, !.inbox = rest, !.buf = t, !.queue = q, !.cut = cut]
  <2>1. o.buf \o t = t BY <1>4, <1>6
  <2> QED BY <2>1
<1> HIDE DEF r
<1>8. /\ r \in Object /\ r.alive = o.alive /\ ~r.reading /\ r.sending = o.sending
      /\ r.queue = q /\ r.wiped = o.wiped /\ r.buf = t /\ r.mapped = o.mapped
      /\ r.open = o.open /\ r.starting = o.starting /\ r.timer = o.timer /\ r.late = o.late
      /\ r.parts = o.parts /\ r.out = o.out /\ r.req = o.req /\ r.blocked = o.blocked
      /\ r.inbox = rest /\ r.spoiled = o.spoiled
      /\ r.misread = o.misread /\ r.cut = cut /\ r.owes = o.owes
  <2>1. t \in Seq(Segments) /\ rest \in Seq(Segments) /\ cut \in BOOLEAN BY <1>6
  <2> QED BY ONLY <1>1, <1>5, <1>7, <2>1 DEF Object
<1>9. ~(r.sending > 0) BY <1>3, <1>8
<1>10. Alternates(r)
  <2>1. OneIo(r.queue) BY <1>5, <1>8
  <2> QED BY <1>8, <1>9, <2>1, Zenon DEF Alternates
<1>11. Covered(r) BY <1>1, <1>5, <1>8 DEF Covered
<1>12. Ended(r) BY <1>2, <1>8 DEF Ended
<1>13. Answering(r)
  <2>1. HeaderNext(r) = HeaderNext(o) /\ FileNext(r) = FileNext(o)
    BY <1>8 DEF HeaderNext, FileNext
  <2>2. ~Has(r.queue, "written") BY <1>3, <1>5, <1>8, NoIoIs
  <2>3. Shape(r) BY <1>1, <1>8, <2>1 DEF Answering, Shape
  <2>4. r.open /\ r.mapped = "file" => r.parts # <<>> BY <1>1, <1>8 DEF Answering
  <2>5. Complete(r.out) BY <1>1, <1>2, <1>8 DEF Answering
  <2> QED BY <1>9, <2>2, <2>3, <2>4, <2>5, Zenon DEF Answering, Shape
<1>14. /\ \A i \in Heads(o.inbox) : o.req < o.inbox[i].req /\ o.inbox[i].req <= k
       /\ Rising(o.inbox)
  BY <1>1, <1>2 DEF Ordered
<1>15. \A j \in Heads(rest) : o.req < rest[j].req /\ rest[j].req <= k
  BY <1>6, <1>14
<1>16. ASSUME NEW i \in Heads(rest), NEW j \in Heads(rest), i < j PROVE rest[i].req < rest[j].req
  <2>1. n + i < n + j BY <1>6, <1>16
  <2> QED BY <1>6, <1>14, <2>1 DEF Rising
<1>17. ASSUME NEW i \in Heads(t), NEW j \in Heads(rest) PROVE t[i].req < rest[j].req
  <2>1. i <= n /\ j \in Nat \ {0} /\ i \in Heads(o.inbox) /\ n + j \in Heads(o.inbox) BY <1>6
  <2>2. i \in Int /\ n \in Int BY <2>1, <1>1, <1>6 DEF Heads
  <2>3. i < n + j BY <2>1, <2>2
  <2> QED BY <1>6, <1>14, <2>1, <2>3 DEF Rising
<1>18. Ordered(r, k)
  <2>1. Rising(rest) BY <1>16 DEF Rising
  <2>2. o.misread => cut BY <1>1, <1>20 DEF Ordered
  <2>3. ~cut => Requests(rest) /\ (r.open /\ r.owes => Waits(rest))
    <3> SUFFICES ASSUME ~cut PROVE Requests(rest) /\ (o.owes => Waits(rest)) BY <1>2, <1>8
    <3>1. ~o.cut /\ rest = l /\ o.inbox[n].part # "post" BY <1>20
    <3>2. Requests(o.inbox) /\ (o.owes => Waits(o.inbox)) BY <1>1, <1>2, <3>1 DEF Ordered
    <3> QED BY <1>6, <3>1, <3>2
  <2> QED BY <1>1, <1>8, <1>15, <2>1, <2>2, <2>3 DEF Ordered
<1>19. Buffered(r, k)
  <2>1. Has(r.queue, "read") BY <1>5, <1>8
  <2>2. ~cut => Begins(t[1])
    <3> SUFFICES ASSUME ~cut PROVE Begins(t[1]) OBVIOUS
    <3>1. ~o.cut BY <1>20
    <3>2. Requests(o.inbox) BY <1>1, <3>1 DEF Ordered
    <3>3. 1 \in DOMAIN o.inbox /\ 1 - 1 \notin DOMAIN o.inbox BY <1>1, <1>6
    <3>4. Begins(o.inbox[1]) BY <3>2, <3>3 DEF Requests
    <3> QED BY <1>6, <3>4
  <2>3. \A i \in Heads(t) : o.req < t[i].req /\ t[i].req <= k BY <1>6, <1>14
  <2> QED BY <1>6, <1>8, <1>17, <2>1, <2>2, <2>3 DEF Buffered
<1>21. NotMore(r, o) BY <1>8 DEF NotMore
<1> QED BY <1>8, <1>10, <1>11, <1>12, <1>13, <1>18, <1>19, <1>21 DEF ObjInv, Rest, r, q, t

\* An operation is over and its handler is ready, with an error.
Fails(o, h) == \/ o.reading /\ h = "read error"
               \/ o.sending > 0 /\ h = "write error"

LEMMA FailureWorks ==
    ASSUME NEW k, NEW o, ObjInv(o, k), NEW h, Fails(o, h)
    PROVE  LET r == [o EXCEPT !.reading = FALSE, !.sending = 0, !.queue = Append(@, h)]
           IN  ObjInv(r, k) /\ NotMore(r, o)
<1> DEFINE q == Append(o.queue, h)
           r == [o EXCEPT !.reading = FALSE, !.sending = 0, !.queue = q]
<1>1. /\ o \in Object /\ Alternates(o) /\ Covered(o) /\ Ended(o) /\ Answering(o)
      /\ Ordered(o, k) /\ Buffered(o, k)
      /\ o.queue \in Seq(Handlers) /\ o.sending \in Nat
  BY InvIs
<1>2. o.open /\ o.alive
  <2>1. o.sending > 0 => o.sending # 0 BY <1>1
  <2> QED BY <1>1, <2>1 DEF Ended, Fails
<1>3. NoIo(o.queue) BY <1>1 DEF Alternates, Fails
<1>4. h \in {"read error", "write error"} BY DEF Fails
<1>5. /\ q \in Seq(Handlers)
      /\ \A x : Has(q, x) <=> Has(o.queue, x) \/ x = h
      /\ OneIo(q)
  <2>1. h \in Handlers /\ OneIo(o.queue) BY <1>3, <1>4, NoIoIs DEF Handlers
  <2> QED BY <1>1, <1>3, <2>1, Appended
<1> HIDE DEF q, r
<1>6. r = [o EXCEPT !.reading = FALSE, !.sending = 0, !.queue = q] BY DEF r
<1>7. /\ r \in Object /\ r.alive = o.alive /\ ~r.reading /\ r.sending = 0
      /\ r.queue = q /\ r.wiped = o.wiped /\ r.buf = o.buf /\ r.mapped = o.mapped
      /\ r.open = o.open /\ r.starting = o.starting /\ r.timer = o.timer /\ r.late = o.late
      /\ r.parts = o.parts /\ r.out = o.out /\ r.req = o.req /\ r.blocked = o.blocked
      /\ r.inbox = o.inbox /\ r.spoiled = o.spoiled
      /\ r.misread = o.misread /\ r.cut = o.cut /\ r.owes = o.owes
  BY <1>1, <1>5, <1>6 DEF Object
<1>8. ~(r.sending > 0) BY <1>7
<1>9. Alternates(r)
  <2>1. OneIo(r.queue) BY <1>5, <1>7
  <2> QED BY <1>7, <1>8, <2>1, Zenon DEF Alternates
<1>10. Covered(r) BY <1>1, <1>5, <1>7 DEF Covered
<1>11. Ended(r) BY <1>2, <1>7 DEF Ended
<1>12. ~Has(r.queue, "read") /\ ~Has(r.queue, "written")
  BY <1>3, <1>4, <1>5, <1>7, NoIoIs
<1>13. Answering(r)
  <2>1. HeaderNext(r) = HeaderNext(o) /\ FileNext(r) = FileNext(o)
    BY <1>7 DEF HeaderNext, FileNext
  <2>2. Shape(r) BY <1>1, <1>7, <2>1 DEF Answering, Shape
  <2>3. r.open /\ r.mapped = "file" => r.parts # <<>> BY <1>1, <1>7 DEF Answering
  <2> QED BY <1>7, <1>8, <1>12, <2>2, <2>3, Zenon DEF Answering, Shape
<1>14. Ordered(r, k) BY <1>1, <1>7 DEF Ordered
<1>15. r.buf = <<>>
  <2>1. ~Has(o.queue, "read") BY <1>3, NoIoIs
  <2> QED BY <1>1, <1>7, <2>1 DEF Buffered
<1>16. NotMore(r, o) BY <1>7 DEF NotMore
<1>17. Left(r, k) BY <1>2, <1>7, <1>9, <1>10, <1>11, <1>12, <1>13, <1>14 DEF Left, Rest
<1> QED BY <1>15, <1>16, <1>17, NothingBuffered DEF r, q

LEMMA DrainWorks ==
    ASSUME NEW k, NEW o, ObjInv(o, k), o.open
    PROVE  LET d == [o EXCEPT !.room = Room]
               r == IF d.sending > 0 THEN Transfer(d) ELSE d
           IN  ObjInv(r, k) /\ NotMore(r, o)
<1> DEFINE d == [o EXCEPT !.room = Room]
           r == IF d.sending > 0 THEN Transfer(d) ELSE d
<1>1. /\ o \in Object /\ Alternates(o) /\ Covered(o) /\ Ended(o) /\ Answering(o)
      /\ Ordered(o, k) /\ Buffered(o, k)
  BY InvIs
<1> HIDE DEF d
<1>2. /\ d \in Object /\ d.alive = o.alive /\ d.reading = o.reading /\ d.sending = o.sending
      /\ d.queue = o.queue /\ d.wiped = o.wiped /\ d.buf = o.buf /\ d.mapped = o.mapped
      /\ d.open = o.open /\ d.starting = o.starting /\ d.timer = o.timer /\ d.late = o.late
      /\ d.parts = o.parts /\ d.out = o.out /\ d.req = o.req /\ d.blocked = o.blocked
      /\ d.inbox = o.inbox /\ d.spoiled = o.spoiled /\ d.room = Room
      /\ d.misread = o.misread /\ d.cut = o.cut /\ d.owes = o.owes
  <2>1. Room \in 0..Room BY Parameters
  <2> QED BY <1>1, <2>1 DEF Object, d
<1>3. NotMore(d, o) BY <1>2 DEF NotMore
<1>4. HeaderNext(d) = HeaderNext(o) /\ FileNext(d) = FileNext(o)
  BY <1>2 DEF HeaderNext, FileNext
<1>5. Covered(d) BY <1>1, <1>2 DEF Covered
<1>6. Ordered(d, k) BY <1>1, <1>2 DEF Ordered
<1>7. CASE o.sending > 0
  <2>1. r = Transfer(d) BY <1>2, <1>7
  <2>2. NoIo(o.queue) /\ ~o.reading BY <1>1, <1>7 DEF Alternates
  <2>3. HeaderNext(o) \/ FileNext(o) BY <1>1, <1>7 DEF Answering
  <2>4. HeaderNext(o) => o.sending = 1 /\ Complete(o.out) /\ Before(o.out, o.req)
    BY <1>1, <1>7 DEF Answering
  <2>5. FileNext(o) => Sent(o.out, o.req, FileSize - o.sending) BY <1>1, <1>7 DEF Answering
  <2>6. o.alive BY <1>1 DEF Ended
  <2>7. d.room # 0 BY <1>2, Parameters
  <2>8. d.sending > 0 BY <1>2, <1>7
  <2>9. HeaderNext(d) \/ FileNext(d) BY <2>3, <1>4
  <2>10. HeaderNext(d) => d.sending = 1 /\ Complete(d.out) /\ Before(d.out, d.req)
    BY <2>4, <1>2, <1>4
  <2>11. FileNext(d) => Sent(d.out, d.req, FileSize - d.sending) BY <2>5, <1>2, <1>4
  <2>12. d.alive /\ d.open /\ ~d.reading /\ NoIo(d.queue) BY <1>2, <2>2, <2>6
  <2>13. Writing(d, k)
    BY <1>2, <1>5, <1>6, <2>7, <2>8, <2>9, <2>10, <2>11, <2>12, Zenon DEF Writing
  <2>14. Left(r, k) /\ NotMore(r, d) /\ r.buf = d.buf BY <2>1, <2>13, TransferWorks
  <2>15. r.buf = <<>>
    <3>1. ~Has(o.queue, "read") BY <2>2, NoIoIs
    <3>2. o.buf = <<>> BY <1>1, <3>1 DEF Buffered
    <3> QED BY <3>2, <1>2, <2>14
  <2>16. NotMore(r, o) BY <1>3, <2>14 DEF NotMore
  <2> QED BY <2>14, <2>15, <2>16, NothingBuffered DEF d
<1>8. CASE ~(o.sending > 0)
  <2>1. r = d BY <1>2, <1>8
  <2>2. Alternates(d) BY <1>1, <1>2 DEF Alternates
  <2>3. Ended(d) BY <1>1, <1>2 DEF Ended
  <2>4. Answering(d) BY <1>1, <1>2, <1>4 DEF Answering
  <2>5. Buffered(d, k) BY <1>1, <1>2 DEF Buffered
  <2>6. ObjInv(d, k) BY <1>2, <1>5, <1>6, <2>2, <2>3, <2>4, <2>5 DEF ObjInv, Rest
  <2> QED BY <1>3, <2>1, <2>6 DEF d
<1> QED BY <1>7, <1>8

LEMMA ExpireWorks ==
    ASSUME NEW k, NEW o, ObjInv(o, k), o.timer
    PROVE  LET r == [o EXCEPT !.timer = FALSE, !.queue = Append(@, "timeout")]
           IN  ObjInv(r, k) /\ NotMore(r, o)
<1> DEFINE q == Append(o.queue, "timeout")
           r == [o EXCEPT !.timer = FALSE, !.queue = q]
<1>1. /\ o \in Object /\ Alternates(o) /\ Covered(o) /\ Ended(o) /\ Answering(o)
      /\ Ordered(o, k) /\ Buffered(o, k) /\ o.queue \in Seq(Handlers)
  BY InvIs
<1>2. /\ q \in Seq(Handlers)
      /\ \A x : Has(q, x) <=> Has(o.queue, x) \/ x = "timeout"
      /\ NoIo(q) <=> NoIo(o.queue)
      /\ OneIo(q)
  <2>1. "timeout" \in Handlers /\ "timeout" \notin Io /\ OneIo(o.queue)
    BY <1>1 DEF Handlers, Io, Alternates
  <2> QED BY <1>1, <2>1, Appended
<1> HIDE DEF q, r
<1>3. r = [o EXCEPT !.timer = FALSE, !.queue = q] BY DEF r
<1>4. /\ r \in Object /\ r.alive = o.alive /\ r.reading = o.reading /\ r.sending = o.sending
      /\ r.queue = q /\ r.wiped = o.wiped /\ r.buf = o.buf /\ r.mapped = o.mapped
      /\ r.open = o.open /\ r.starting = o.starting /\ ~r.timer /\ r.late = o.late
      /\ r.parts = o.parts /\ r.out = o.out /\ r.req = o.req /\ r.blocked = o.blocked
      /\ r.inbox = o.inbox /\ r.spoiled = o.spoiled
      /\ r.misread = o.misread /\ r.cut = o.cut /\ r.owes = o.owes
  BY <1>1, <1>2, <1>3 DEF Object
<1>5. \A x \in {"read", "written", "write error"} : Has(q, x) <=> Has(o.queue, x) BY <1>2
<1>6. Alternates(r) BY <1>1, <1>2, <1>4 DEF Alternates
<1>7. Covered(r) BY <1>2, <1>4 DEF Covered
<1>8. Ended(r)
  <2>1. o.alive BY <1>1 DEF Ended
  <2> QED BY <1>1, <1>4, <1>5, <2>1 DEF Ended
<1>9. Answering(r)
  <2>1. HeaderNext(r) = HeaderNext(o) /\ FileNext(r) = FileNext(o)
    BY <1>4 DEF HeaderNext, FileNext
  <2> QED BY <1>1, <1>4, <1>5, <2>1 DEF Answering
<1>10. Ordered(r, k) BY <1>1, <1>4 DEF Ordered
<1>11. Buffered(r, k) BY <1>1, <1>4, <1>5 DEF Buffered
<1>12. NotMore(r, o) BY <1>4 DEF NotMore
<1> QED BY <1>4, <1>6, <1>7, <1>8, <1>9, <1>10, <1>11, <1>12 DEF ObjInv, Rest, r, q

LEMMA StartWorks ==
    ASSUME NEW k, NEW o, ObjInv(o, k), o.starting
    PROVE  LET r == StartTimer([o EXCEPT !.starting = FALSE]) IN ObjInv(r, k) /\ NotMore(r, o)
<1> DEFINE d == [o EXCEPT !.starting = FALSE]
           r == StartTimer(d)
           q == r.queue
<1>1. /\ o \in Object /\ Alternates(o) /\ Covered(o) /\ Ended(o) /\ Answering(o)
      /\ Ordered(o, k) /\ Buffered(o, k) /\ o.queue \in Seq(Handlers)
  BY InvIs
<1>2. d \in Object /\ d.queue = o.queue /\ d.timer = o.timer BY <1>1 DEF Object
<1>3. /\ r = [d EXCEPT !.timer = TRUE, !.queue = q]
      /\ q \in Seq(Handlers)
      /\ \A x : Has(q, x) <=> Has(o.queue, x) \/ (o.timer /\ x = "aborted")
      /\ NoIo(q) <=> NoIo(o.queue)
      /\ OneIo(o.queue) => OneIo(q)
  <2> HIDE DEF d
  <2>1. /\ r = [d EXCEPT !.timer = TRUE, !.queue = q]
        /\ q \in Seq(Handlers)
        /\ \A x : Has(q, x) <=> Has(d.queue, x) \/ (d.timer /\ x = "aborted")
        /\ NoIo(q) <=> NoIo(d.queue)
        /\ OneIo(d.queue) => OneIo(q)
    BY <1>2, StartTimerWorks
  <2> HIDE DEF q, r
  <2> QED BY <1>2, <2>1
<1> HIDE DEF q, r
<1>4. /\ r \in Object /\ r.alive = o.alive /\ r.reading = o.reading /\ r.sending = o.sending
      /\ r.queue = q /\ r.wiped = o.wiped /\ r.buf = o.buf /\ r.mapped = o.mapped
      /\ r.open = o.open /\ ~r.starting /\ r.timer /\ r.late = o.late
      /\ r.parts = o.parts /\ r.out = o.out /\ r.req = o.req /\ r.blocked = o.blocked
      /\ r.inbox = o.inbox /\ r.spoiled = o.spoiled
      /\ r.misread = o.misread /\ r.cut = o.cut /\ r.owes = o.owes
  <2>1. r = [o EXCEPT !.starting = FALSE, !.timer = TRUE, !.queue = q]
    <3>1. r = [d EXCEPT !.timer = TRUE, !.queue = q] BY <1>3
    <3> QED BY <1>1, <3>1 DEF Object
  <2>2. o \in Object /\ q \in Seq(Handlers) BY <1>1, <1>3
  <2> HIDE DEF d
  <2> QED BY <2>1, <2>2 DEF Object
<1>5. \A x \in {"read", "written", "write error"} : Has(q, x) <=> Has(o.queue, x) BY <1>3
<1>6. Alternates(r) BY <1>1, <1>3, <1>4 DEF Alternates
<1>7. Covered(r) BY <1>4 DEF Covered
<1>8. Ended(r)
  <2>1. o.alive BY <1>1 DEF Ended
  <2> QED BY <1>1, <1>4, <1>5, <2>1 DEF Ended
<1>9. Answering(r)
  <2>1. HeaderNext(r) = HeaderNext(o) /\ FileNext(r) = FileNext(o)
    BY <1>4 DEF HeaderNext, FileNext
  <2> QED BY <1>1, <1>4, <1>5, <2>1 DEF Answering
<1>10. Ordered(r, k) BY <1>1, <1>4 DEF Ordered
<1>11. Buffered(r, k) BY <1>1, <1>4, <1>5 DEF Buffered
<1>12. NotMore(r, o) BY <1>4 DEF NotMore
<1> QED BY <1>4, <1>6, <1>7, <1>8, <1>9, <1>10, <1>11, <1>12 DEF ObjInv, Rest, r

Added(s, x, t) ==
    /\ t \in Seq(Segments) /\ t # <<>> /\ Last(t) = x
    /\ \A i \in Heads(t) : \/ i \in Heads(s) /\ t[i] = s[i] /\ i <= Len(s)
                           \/ t[i] = x /\ x.part # "body" /\ i = Len(s) + 1
    /\ Requests(s) /\ (Begins(x) \/ Waits(s)) => Requests(t)

LEMMA SegmentAdded ==
    ASSUME NEW s \in Seq(Segments), NEW x \in Segments, NEW t, t = Append(s, x)
    PROVE  Added(s, x, t)
<1>1. /\ t \in Seq(Segments) /\ Len(t) = Len(s) + 1 /\ t[Len(s) + 1] = x
      /\ \A i \in 1..Len(s) : t[i] = s[i]
  OBVIOUS
<1>2. Len(s) \in Nat /\ DOMAIN s = 1..Len(s) BY LenProperties
<1>3. DOMAIN t = 1..(Len(s) + 1) BY <1>1, LenProperties
<1>4. t # <<>> /\ Last(t) = x BY <1>1, <1>2 DEF Last
<1>5. \A i \in DOMAIN t : i \in 1..Len(s) \/ i = Len(s) + 1 BY <1>2, <1>3
<1>6. \A i \in 1..Len(s) : i <= Len(s) /\ i \in DOMAIN t BY <1>2, <1>3
<1>7. ASSUME NEW i \in Heads(t)
      PROVE  \/ i \in Heads(s) /\ t[i] = s[i] /\ i <= Len(s)
             \/ t[i] = x /\ x.part # "body" /\ i = Len(s) + 1
  <2>1. i \in DOMAIN t /\ t[i].part # "body" BY DEF Heads
  <2>2. CASE i = Len(s) + 1 BY <1>1, <2>1, <2>2
  <2>3. CASE i \in 1..Len(s) BY <1>1, <1>2, <1>6, <2>1, <2>3 DEF Heads
  <2> QED BY <1>5, <2>1, <2>2, <2>3
<1>8. ASSUME Requests(s), Begins(x) \/ Waits(s), NEW i \in DOMAIN t
      PROVE  Begins(t[i]) \/ (i - 1 \in DOMAIN t /\ t[i - 1].part = "post")
  <2>1. CASE i \in 1..Len(s) BY <1>1, <1>2, <1>6, <1>8, <2>1 DEF Requests
  <2>2. CASE i = Len(s) + 1
    <3>1. CASE Begins(x) BY <1>1, <2>2, <3>1
    <3>2. CASE Waits(s)
      <4>1. Len(s) \in 1..Len(s) /\ i - 1 = Len(s)
        <5>1. Len(s) # 0 BY <3>2, EmptySeq DEF Waits
        <5> QED BY <1>2, <2>2, <5>1
      <4>2. s[Len(s)].part = "post" BY <3>2 DEF Waits, Last
      <4> QED BY <1>1, <1>6, <4>1, <4>2
    <3> QED BY <1>8, <3>1, <3>2
  <2> QED BY <1>5, <2>1, <2>2
<1>9. Requests(s) /\ (Begins(x) \/ Waits(s)) => Requests(t) BY <1>8 DEF Requests
<1> QED BY <1>1, <1>4, <1>7, <1>9 DEF Added

\* A client sends a segment: the head of a request, later than all before, or the body that the
\* last one has announced.
LEMMA SegmentWorks ==
    ASSUME NEW k \in Nat, NEW m \in Nat, k <= m, NEW o, ObjInv(o, k), o.open,
           NEW x \in Segments, NEW owes \in BOOLEAN,
           x.part # "body" => k < m /\ x.req = m,
           Begins(x) \/ o.owes,
           owes => x.part = "post"
    PROVE  LET r == [o EXCEPT !.inbox = Append(@, x), !.owes = owes]
           IN  ObjInv(r, m) /\ NotMore(r, o)
<1> DEFINE s == Append(o.inbox, x)
           r == [o EXCEPT !.inbox = s, !.owes = owes]
<1>1. /\ o \in Object /\ Alternates(o) /\ Covered(o) /\ Ended(o) /\ Answering(o)
      /\ Ordered(o, k) /\ Buffered(o, k) /\ o.inbox \in Seq(Segments) /\ o.req \in Nat
      /\ o.buf \in Seq(Segments)
  BY InvIs
<1>2. /\ s \in Seq(Segments) /\ s # <<>> /\ Last(s) = x
      /\ \A i \in Heads(s) : \/ i \in Heads(o.inbox) /\ s[i] = o.inbox[i] /\ i <= Len(o.inbox)
                             \/ s[i] = x /\ x.part # "body" /\ i = Len(o.inbox) + 1
      /\ Requests(o.inbox) /\ (Begins(x) \/ Waits(o.inbox)) => Requests(s)
  <2>1. o.inbox \in Seq(Segments) BY <1>1
  <2>2. s = Append(o.inbox, x) OBVIOUS
  <2> HIDE DEF s
  <2>3. Added(o.inbox, x, s) BY ONLY <2>1, <2>2, x \in Segments, SegmentAdded
  <2> QED BY <2>3 DEF Added
<1> HIDE DEF s, r
<1>3. r = [o EXCEPT !.inbox = s, !.owes = owes] BY DEF r
<1>4. /\ r \in Object /\ r.alive = o.alive /\ r.reading = o.reading /\ r.sending = o.sending
      /\ r.queue = o.queue /\ r.wiped = o.wiped /\ r.buf = o.buf /\ r.mapped = o.mapped
      /\ r.open = o.open /\ r.starting = o.starting /\ r.timer = o.timer /\ r.late = o.late
      /\ r.parts = o.parts /\ r.out = o.out /\ r.req = o.req /\ r.blocked = o.blocked
      /\ r.inbox = s /\ r.spoiled = o.spoiled
      /\ r.misread = o.misread /\ r.cut = o.cut /\ r.owes = owes
  BY <1>1, <1>2, <1>3 DEF Object
<1>5. Alternates(r) BY <1>1, <1>4 DEF Alternates
<1>6. Covered(r) /\ Ended(r) BY <1>1, <1>4 DEF Covered, Ended
<1>7. Answering(r)
  <2>1. HeaderNext(r) = HeaderNext(o) /\ FileNext(r) = FileNext(o)
    BY <1>4 DEF HeaderNext, FileNext
  <2> QED BY <1>1, <1>4, <2>1 DEF Answering
<1>8. o.req <= k /\ o.req <= m
  <2>1. o.req <= k BY <1>1 DEF Ordered
  <2> QED BY <1>1, <2>1
<1>14. \A i \in Heads(o.inbox) : /\ o.req < o.inbox[i].req /\ o.inbox[i].req <= k
                                 /\ o.inbox[i].req \in Nat
  <2>1. \A i \in Heads(o.inbox) : o.inbox[i] \in Segments BY <1>1 DEF Heads
  <2> QED BY <1>1, <2>1 DEF Ordered, Segments
<1>9. ASSUME NEW i \in Heads(s) PROVE o.req < s[i].req /\ s[i].req <= m
  <2>1. CASE i \in Heads(o.inbox) /\ s[i] = o.inbox[i]
    <3>1. o.req < o.inbox[i].req /\ o.inbox[i].req <= k /\ o.inbox[i].req \in Nat
      BY <1>14, <2>1
    <3> QED BY <2>1, <3>1
  <2>2. CASE s[i] = x /\ x.part # "body"
    <3>1. s[i].req = m /\ k < m BY <2>2
    <3> QED BY <1>1, <1>8, <3>1
  <2> QED BY <1>2, <2>1, <2>2
<1>10. ASSUME NEW i \in Heads(s), NEW j \in Heads(s), i < j PROVE s[i].req < s[j].req
  <2>0. Len(o.inbox) \in Nat /\ i \in Nat
    <3>1. i \in DOMAIN s BY DEF Heads
    <3> QED BY <1>1, <1>2, <3>1
  <2>1. i \in Heads(o.inbox) /\ s[i] = o.inbox[i]
    <3>1. CASE i = Len(o.inbox) + 1
      <4>1. j <= Len(o.inbox) \/ j = Len(o.inbox) + 1 BY <1>2
      <4>2. j \in Nat
        <5>1. j \in DOMAIN s BY DEF Heads
        <5> QED BY <1>2, <5>1
      <4> QED BY <1>10, <2>0, <3>1, <4>1, <4>2
    <3>2. CASE i # Len(o.inbox) + 1 BY <1>2, <3>2
    <3> QED BY <3>1, <3>2
  <2>2. CASE j \in Heads(o.inbox) /\ s[j] = o.inbox[j]
    <3>1. Rising(o.inbox) BY <1>1 DEF Ordered
    <3> QED BY <1>10, <2>1, <2>2, <3>1 DEF Rising
  <2>3. CASE s[j] = x /\ x.part # "body"
    <3>1. s[j].req = m /\ k < m BY <2>3
    <3>2. o.inbox[i].req <= k /\ o.inbox[i].req \in Nat BY <1>14, <2>1
    <3> QED BY <2>1, <3>1, <3>2
  <2> QED BY <1>2, <2>2, <2>3
<1>11. Ordered(r, m)
  <2>1. Rising(s) BY <1>10 DEF Rising
  <2>2. ~o.cut => Requests(s)
    <3> SUFFICES ASSUME ~o.cut PROVE Requests(s) OBVIOUS
    <3>1. Requests(o.inbox) /\ (o.owes => Waits(o.inbox)) BY <1>1 DEF Ordered
    <3> QED BY <1>2, <3>1
  <2>3. owes => Waits(s) BY <1>2 DEF Waits
  <2> QED BY <1>1, <1>4, <1>8, <1>9, <2>1, <2>2, <2>3 DEF Ordered
<1>12. Buffered(r, m)
  <2>1. ASSUME NEW i \in Heads(o.buf)
        PROVE  /\ o.req < o.buf[i].req /\ o.buf[i].req <= m
               /\ \A j \in Heads(s) : o.buf[i].req < s[j].req
    <3>1. /\ o.req < o.buf[i].req /\ o.buf[i].req <= k
          /\ \A j \in Heads(o.inbox) : o.buf[i].req < o.inbox[j].req
      BY <1>1, <2>1 DEF Buffered
    <3>2. o.buf[i].req \in Nat
      <4>1. o.buf[i] \in Segments BY <1>1, <2>1 DEF Heads
      <4> QED BY <4>1 DEF Segments
    <3>3. o.buf[i].req <= m BY <3>1, <3>2
    <3>4. ASSUME NEW j \in Heads(s) PROVE o.buf[i].req < s[j].req
      <4>1. CASE j \in Heads(o.inbox) /\ s[j] = o.inbox[j] BY <3>1, <4>1
      <4>2. CASE s[j] = x /\ x.part # "body"
        <5>1. s[j].req = m /\ k < m BY <4>2
        <5> QED BY <3>1, <3>2, <5>1
      <4> QED BY <1>2, <4>1, <4>2
    <3> QED BY <3>1, <3>3, <3>4
  <2> QED BY <1>1, <1>4, <2>1 DEF Buffered
<1>13. NotMore(r, o) BY <1>4 DEF NotMore
<1> QED BY <1>4, <1>5, <1>6, <1>7, <1>11, <1>12, <1>13 DEF ObjInv, Rest, r, s

\* A new connection waits for its first request.
Opened == ReadOnce([Fresh EXCEPT !.open = TRUE, !.starting = TRUE])

LEMMA AcceptWorks == ASSUME NEW k \in Nat PROVE ObjInv(Opened, k)
<1> DEFINE r == Opened
<1>1. r = [Fresh EXCEPT !.open = TRUE, !.starting = TRUE, !.reading = TRUE]
  BY FreshIs DEF Opened, ReadOnce, Object
<1> HIDE DEF r
<1>2. /\ r \in Object /\ r.open /\ r.alive /\ r.starting /\ r.reading /\ r.sending = 0
      /\ r.queue = <<>> /\ r.inbox = <<>> /\ r.buf = <<>> /\ r.req = 0 /\ r.parts = <<>>
      /\ r.mapped # "file" /\ ~r.wiped /\ r.out = <<>> /\ ~r.misread /\ ~r.spoiled /\ ~r.owes
  BY <1>1, FreshIs DEF Object
<1>3. NoIo(r.queue) BY <1>2 DEF NoIo
<1>4. \A x : ~Has(r.queue, x) BY <1>2 DEF Has
<1>5. ~(r.sending > 0) BY <1>2
<1>6. Alternates(r) BY <1>3, <1>5, NoIoIs DEF Alternates
<1>7. Covered(r) BY <1>2 DEF Covered
<1>8. Ended(r) BY <1>2 DEF Ended
<1>9. Answering(r)
  <2>1. Complete(r.out) BY <1>2 DEF Complete
  <2> QED BY <1>2, <1>4, <1>5, <2>1, Zenon DEF Answering
<1>11. DOMAIN r.out = {} /\ Len(r.out) = 0 BY <1>2
<1>12. InOrder(r.out)
  <2>1. 1..Len(r.out) - 1 = {} BY <1>11
  <2> QED BY <1>2, <1>11, <2>1 DEF InOrder
<1>13. Ordered(r, k) BY <1>2, <1>11, <1>12, NothingArrived DEF Ordered
<1>14. Left(r, k) BY <1>2, <1>4, <1>6, <1>7, <1>8, <1>9, <1>13 DEF Left, Rest
<1> QED BY <1>2, <1>14, NothingBuffered DEF r

-----------------------------------------------------------------------------
(* The invariant. *)

LEMMA FreshWorks == ASSUME NEW k \in Nat PROVE ObjInv(Fresh, k)
<1> DEFINE r == Fresh
<1> HIDE DEF r
<1>1. /\ r \in Object /\ ~r.open /\ r.alive /\ ~r.reading /\ r.sending = 0
      /\ r.queue = <<>> /\ r.inbox = <<>> /\ r.buf = <<>> /\ r.parts = <<>>
      /\ ~r.wiped /\ r.out = <<>> /\ ~r.misread /\ ~r.spoiled
  BY FreshIs DEF r
<1>2. NoIo(r.queue) BY <1>1 DEF NoIo
<1>3. \A x : ~Has(r.queue, x) BY <1>1 DEF Has
<1>4. ~(r.sending > 0) BY <1>1
<1>5. Alternates(r) BY <1>1, <1>2, <1>4, NoIoIs DEF Alternates
<1>6. Covered(r) BY <1>1 DEF Covered
<1>7. Ended(r) BY <1>1, <1>3 DEF Ended
<1>8. Answering(r) BY <1>1, <1>3, <1>4, Zenon DEF Answering
<1>9. DOMAIN r.out = {} /\ Len(r.out) = 0 BY <1>1
<1>10. InOrder(r.out)
  <2>1. 1..Len(r.out) - 1 = {} BY <1>9
  <2> QED BY <1>1, <1>9, <2>1 DEF InOrder
<1>11. Ordered(r, k) BY <1>1, <1>9, <1>10, NothingArrived DEF Ordered
<1>12. Left(r, k) BY <1>1, <1>3, <1>5, <1>6, <1>7, <1>8, <1>11 DEF Left, Rest
<1> QED BY <1>1, <1>12, NothingBuffered DEF r

\* A step of the connection c, which is not one of an io_context that has ended, and of
\* nothing else but the number of its client's requests.
ChangesTo(c, o) ==
    /\ conn' = [conn EXCEPT ![c] = o]
    /\ sent' \in [Conns -> Nat] /\ \A d \in Conns \ {c} : sent'[d] = sent[d]
    /\ UNCHANGED <<service, load, hung, kept, undefined, pool>>

LEMMA OneConnection ==
    ASSUME AsioInv, NEW c \in Conns, service[c] \notin ended, NEW o,
           ChangesTo(c, o), ObjInv(o, sent'[c]), NotMore(o, conn[c])
    PROVE  AsioInv'
<1>1. /\ conn' = [conn EXCEPT ![c] = o]
      /\ sent' \in [Conns -> Nat] /\ \A d \in Conns \ {c} : sent'[d] = sent[d]
      /\ service' = service /\ load' = load /\ hung' = hung /\ kept' = kept
      /\ _nextIOService' = _nextIOService /\ _works' = _works /\ ended' = ended
      /\ main' = main /\ joined' = joined /\ undefined' = undefined
  BY DEF ChangesTo, pool
<1>2. /\ PoolTypes /\ PoolShape /\ StopWaits /\ conn \in [Conns -> Object]
      /\ \A d \in Conns : ObjInv(conn[d], sent[d])
  BY DEF AsioInv
<1>3. o \in Object BY DEF ObjInv
<1>4. /\ conn' \in [Conns -> Object] /\ conn'[c] = o
      /\ \A d \in Conns \ {c} : conn'[d] = conn[d]
  BY <1>1, <1>2, <1>3
<1>5. \A d \in Conns : ObjInv(conn'[d], sent'[d])
  <2> SUFFICES ASSUME NEW d \in Conns PROVE ObjInv(conn'[d], sent'[d]) OBVIOUS
  <2>1. CASE d = c BY <1>4, <2>1
  <2>2. CASE d # c
    <3>1. conn'[d] = conn[d] /\ sent'[d] = sent[d] BY <1>1, <1>4, <2>2
    <3> QED BY <1>2, <3>1
  <2> QED BY <2>1, <2>2
<1>6. PoolTypes' BY <1>1, <1>2 DEF PoolTypes
<1>7. StopWaits' BY <1>1, <1>2, <1>4 DEF StopWaits
<1>8. \A d \in Conns : (conn'[d].open => conn[d].open) /\ (conn'[d].starting => conn[d].starting)
  BY <1>4 DEF NotMore
<1>9. PoolShape' BY <1>1, <1>2, <1>8 DEF PoolShape, Starting
<1> QED BY <1>4, <1>5, <1>6, <1>7, <1>9 DEF AsioInv

LEMMA InitInv == Init => AsioInv
<1> SUFFICES ASSUME Init PROVE AsioInv OBVIOUS
<1>1. /\ conn = [c \in Conns |-> Fresh] /\ service = [c \in Conns |-> None]
      /\ load \in Loads /\ sent = [c \in Conns |-> 0] /\ hung = [c \in Conns |-> FALSE]
      /\ kept \in BOOLEAN /\ _nextIOService = 0 /\ _works = TRUE /\ ended = {}
      /\ main = "run" /\ joined = 0 /\ undefined = FALSE
  BY DEF Init
<1>2. 0 \in Services /\ 0 \in 0..Size BY Parameters DEF Services
<1>3. PoolTypes BY <1>1, <1>2 DEF PoolTypes
<1>4. StopWaits BY <1>1 DEF StopWaits
<1>5. \A c \in Conns : ObjInv(conn[c], sent[c])
  <2>1. ObjInv(Fresh, 0) BY FreshWorks
  <2> QED BY <1>1, <2>1
<1>6. conn \in [Conns -> Object] BY <1>1, FreshIs
<1>7. PoolShape BY <1>1, FreshIs DEF PoolShape, Starting
<1> QED BY <1>3, <1>4, <1>5, <1>6, <1>7 DEF AsioInv

\* An io_context that has ended has nothing to report or to run.
LEMMA NotEnded ==
    ASSUME AsioInv, NEW c \in Conns, ~(~conn[c].open /\ Idle(conn[c]))
    PROVE  service[c] \notin ended
BY DEF AsioInv, StopWaits

LEMMA StepInv == AsioInv /\ [Next]_vars => AsioInv'
<1> SUFFICES ASSUME AsioInv, [Next]_vars PROVE AsioInv' OBVIOUS
<1>1. /\ PoolTypes /\ PoolShape /\ StopWaits /\ conn \in [Conns -> Object]
      /\ \A c \in Conns : ObjInv(conn[c], sent[c])
  BY DEF AsioInv
<1>2. sent \in [Conns -> Nat] BY <1>1 DEF PoolTypes
<1>3. ASSUME NEW c \in Conns
      PROVE  /\ ObjInv(conn[c], sent[c]) /\ sent[c] \in Nat
             /\ conn[c] \in Object /\ conn[c].sending \in Nat
             /\ Covered(conn[c]) /\ Ended(conn[c])
  BY <1>1, <1>2, InvIs
<1>4. ASSUME NEW c \in Conns, Handle(c) PROVE AsioInv'
  <2> DEFINE o == conn[c]
  <2>1. /\ o.queue # <<>> /\ service[c] \notin ended
        /\ UNCHANGED <<service, load, sent, hung, kept, undefined, pool>>
    BY <1>4 DEF Handle
  <2>2. PICK r \in Handled(o, hung[c]) :
           conn' = [conn EXCEPT ![c] = IF o.alive THEN Released(r) ELSE r]
    BY <1>4 DEF Handle, Handled
  <2> DEFINE n == IF o.alive THEN Released(r) ELSE r
  <2>3. ObjInv(n, sent[c]) /\ NotMore(n, o) BY <1>3, <2>1, <2>2, HandlerWorks
  <2> HIDE DEF n
  <2>4. ChangesTo(c, n) BY <1>2, <2>1, <2>2 DEF ChangesTo, n
  <2>5. ObjInv(n, sent'[c]) BY <2>1, <2>3
  <2> QED BY <2>1, <2>3, <2>4, <2>5, OneConnection
<1>5. ASSUME NEW c \in Conns, Arrive(c) PROVE AsioInv'
  <2> DEFINE o == conn[c]
             L(i) == SubSeq(o.inbox, i + 1, Len(o.inbox))
  <2>1. /\ o.reading /\ Heads(o.inbox) # {}
        /\ UNCHANGED <<service, load, sent, hung, kept, undefined, pool>>
    BY <1>5 DEF Arrive
  <2>2. PICK i \in Min(Heads(o.inbox))..Len(o.inbox) :
           \E rest \in Remains(L(i)) :
              conn' = [conn EXCEPT ![c] =
                         [o EXCEPT !.reading = FALSE, !.inbox = rest,
                                   !.buf = @ \o SubSeq(o.inbox, 1, i),
                                   !.queue = Append(@, "read"),
                                   !.cut = @ \/ rest # L(i) \/ o.inbox[i].part = "post"]]
    BY <1>5 DEF Arrive
  <2>3. PICK rest \in Remains(L(i)) :
           conn' = [conn EXCEPT ![c] =
                      [o EXCEPT !.reading = FALSE, !.inbox = rest,
                                !.buf = @ \o SubSeq(o.inbox, 1, i),
                                !.queue = Append(@, "read"),
                                !.cut = @ \/ rest # L(i) \/ o.inbox[i].part = "post"]]
    BY <2>2
  <2> DEFINE C == o.cut \/ rest # L(i) \/ o.inbox[i].part = "post"
  <2>4. PICK cut \in BOOLEAN : cut = C
    <3>1. o.cut \in BOOLEAN BY <1>3 DEF Object
    <3> QED BY <3>1
  <2> DEFINE n == [o EXCEPT !.reading = FALSE, !.inbox = rest, !.buf = @ \o SubSeq(o.inbox, 1, i),
                            !.queue = Append(@, "read"), !.cut = cut]
  <2>5. conn' = [conn EXCEPT ![c] = n] BY <2>3, <2>4
  <2>6. ObjInv(n, sent[c]) /\ NotMore(n, o)
    <3>1. cut <=> o.cut \/ rest # L(i) \/ o.inbox[i].part = "post" BY <2>4
    <3> QED BY <1>3, <2>1, <3>1, ArriveWorks
  <2>7. service[c] \notin ended BY <2>1, NotEnded DEF Idle
  <2> HIDE DEF n
  <2>8. ChangesTo(c, n) BY <1>2, <2>1, <2>5 DEF ChangesTo
  <2>9. ObjInv(n, sent'[c]) BY <2>1, <2>6
  <2> QED BY <2>6, <2>7, <2>8, <2>9, OneConnection
<1>6. ASSUME NEW c \in Conns, EndOfStream(c) PROVE AsioInv'
  <2> DEFINE o == conn[c]
             n == [o EXCEPT !.reading = FALSE, !.sending = 0, !.queue = Append(@, "read error")]
  <2>1. /\ o.reading /\ UNCHANGED <<service, load, sent, hung, kept, undefined, pool>>
        /\ conn' = [conn EXCEPT ![c].reading = FALSE, ![c].queue = Append(@, "read error")]
    BY <1>6 DEF EndOfStream
  <2>2. conn' = [conn EXCEPT ![c] = n]
    <3>1. o.sending = 0
      <4>1. ~(o.sending > 0) BY <1>3, <2>1, InvIs DEF Alternates
      <4> QED BY <1>3, <4>1
    <3>2. n = [o EXCEPT !.reading = FALSE, !.queue = Append(@, "read error")]
      BY <1>3, <3>1 DEF Object
    <3>3. conn' = [conn EXCEPT ![c] = [o EXCEPT !.reading = FALSE,
                                                !.queue = Append(@, "read error")]]
      BY <1>1, <2>1
    <3> HIDE DEF n
    <3> QED BY <3>2, <3>3
  <2>3. ObjInv(n, sent[c]) /\ NotMore(n, o)
    <3>1. Fails(o, "read error") BY <2>1 DEF Fails
    <3> QED BY <1>3, <3>1, FailureWorks
  <2>4. service[c] \notin ended BY <2>1, NotEnded DEF Idle
  <2> HIDE DEF n
  <2>5. ChangesTo(c, n) BY <1>2, <2>1, <2>2 DEF ChangesTo
  <2>6. ObjInv(n, sent'[c]) BY <2>1, <2>3
  <2> QED BY <2>3, <2>4, <2>5, <2>6, OneConnection
<1>7. ASSUME NEW c \in Conns, Drain(c) PROVE AsioInv'
  <2> DEFINE o == conn[c]
             d == [o EXCEPT !.room = Room]
             n == IF d.sending > 0 THEN Transfer(d) ELSE d
  <2>1. /\ o.open /\ UNCHANGED <<service, load, sent, hung, kept, undefined, pool>>
        /\ conn' = [conn EXCEPT ![c] = n]
    BY <1>7 DEF Drain
  <2>2. ObjInv(n, sent[c]) /\ NotMore(n, o) BY <1>3, <2>1, DrainWorks
  <2>3. service[c] \notin ended BY <2>1, NotEnded
  <2> HIDE DEF n
  <2>4. ChangesTo(c, n) BY <1>2, <2>1 DEF ChangesTo
  <2>5. ObjInv(n, sent'[c]) BY <2>1, <2>2
  <2> QED BY <2>2, <2>3, <2>4, <2>5, OneConnection
<1>8. ASSUME NEW c \in Conns, Reset(c) PROVE AsioInv'
  <2> DEFINE o == conn[c]
             n == [o EXCEPT !.reading = FALSE, !.sending = 0, !.queue = Append(@, "write error")]
  <2>1. /\ o.sending > 0 /\ UNCHANGED <<service, load, sent, hung, kept, undefined, pool>>
        /\ conn' = [conn EXCEPT ![c].sending = 0, ![c].queue = Append(@, "write error")]
    BY <1>8 DEF Reset
  <2>2. conn' = [conn EXCEPT ![c] = n]
    <3>1. ~o.reading BY <1>3, <2>1, InvIs DEF Alternates
    <3>2. n = [o EXCEPT !.sending = 0, !.queue = Append(@, "write error")]
      BY <1>3, <3>1 DEF Object
    <3>3. conn' = [conn EXCEPT ![c] = [o EXCEPT !.sending = 0,
                                                !.queue = Append(@, "write error")]]
      BY <1>1, <2>1
    <3> HIDE DEF n
    <3> QED BY <3>2, <3>3
  <2>3. ObjInv(n, sent[c]) /\ NotMore(n, o)
    <3>1. Fails(o, "write error") BY <2>1 DEF Fails
    <3> QED BY <1>3, <3>1, FailureWorks
  <2>4. service[c] \notin ended
    <3> DEFINE z == o.sending
    <3>1. z # 0
      <4>1. z \in Nat /\ z > 0 BY <1>3, <2>1
      <4> HIDE DEF z
      <4> QED BY <4>1
    <3> QED BY <3>1, NotEnded DEF Idle
  <2> HIDE DEF n
  <2>5. ChangesTo(c, n) BY <1>2, <2>1, <2>2 DEF ChangesTo
  <2>6. ObjInv(n, sent'[c]) BY <2>1, <2>3
  <2> QED BY <2>3, <2>4, <2>5, <2>6, OneConnection
<1>9. ASSUME NEW c \in Conns, Expire(c) PROVE AsioInv'
  <2> DEFINE o == conn[c]
             n == [o EXCEPT !.timer = FALSE, !.queue = Append(@, "timeout")]
  <2>1. /\ o.timer /\ UNCHANGED <<service, load, sent, hung, kept, undefined, pool>>
        /\ conn' = [conn EXCEPT ![c].timer = FALSE, ![c].queue = Append(@, "timeout")]
    BY <1>9 DEF Expire
  <2>2. conn' = [conn EXCEPT ![c] = n] BY <1>1, <2>1
  <2>3. ObjInv(n, sent[c]) /\ NotMore(n, o) BY <1>3, <2>1, ExpireWorks
  <2>4. service[c] \notin ended BY <2>1, NotEnded DEF Idle
  <2> HIDE DEF n
  <2>5. ChangesTo(c, n) BY <1>2, <2>1, <2>2 DEF ChangesTo
  <2>6. ObjInv(n, sent'[c]) BY <2>1, <2>3
  <2> QED BY <2>3, <2>4, <2>5, <2>6, OneConnection
<1>10. ASSUME NEW c \in Conns, Send(c) PROVE AsioInv'
  <2> DEFINE o == conn[c]
             m == sent[c] + 1
  <2>1. /\ o.open /\ UNCHANGED <<service, load, hung, kept, undefined, pool>>
        /\ sent' = [sent EXCEPT ![c] = @ + 1]
    BY <1>10 DEF Send
  <2>2. sent' = [sent EXCEPT ![c] = m] /\ sent' \in [Conns -> Nat] /\ sent'[c] = m
        /\ m \in Nat /\ sent[c] < m /\ sent[c] <= m
    BY <1>2, <2>1
  <2> HIDE DEF m
  <2>3. load[c] \in Nat
    <3>1. load[c] # None BY <1>1, <2>1 DEF PoolShape
    <3>2. load[c] \in Nat \cup {None} BY <1>1, Parameters DEF PoolTypes
    <3> QED BY <3>1, <3>2
  <2>4. PICK owes \in BOOLEAN :
           conn' = [conn EXCEPT ![c].inbox = Append(@, Segment(sent'[c], IF owes THEN "post" ELSE "head")),
                                ![c].owes = owes]
    <3>1. (sent'[c] < load[c]) \in BOOLEAN BY <2>2, <2>3
    <3> QED BY <1>10, <3>1 DEF Send
  <2> DEFINE x == Segment(m, IF owes THEN "post" ELSE "head")
             n == [o EXCEPT !.inbox = Append(@, x), !.owes = owes]
  <2>5. conn' = [conn EXCEPT ![c] = n]
    <3> HIDE DEF x
    <3>1. conn' = [conn EXCEPT ![c].inbox = Append(@, x), ![c].owes = owes] BY <2>2, <2>4 DEF x
    <3> QED BY <1>1, <3>1
  <2>6. ObjInv(n, m) /\ NotMore(n, o)
    <3>1. x \in Segments /\ x.part # "body" /\ x.req = m /\ Begins(x) /\ (owes => x.part = "post")
      BY <2>2 DEF Segment, Segments, Begins
    <3> HIDE DEF x
    <3> QED BY <1>3, <2>1, <2>2, <3>1, SegmentWorks
  <2>7. service[c] \notin ended BY <2>1, NotEnded
  <2> HIDE DEF n
  <2>8. ChangesTo(c, n) BY <1>2, <2>1, <2>2, <2>5 DEF ChangesTo
  <2>9. ObjInv(n, sent'[c]) BY <2>2, <2>6
  <2> QED BY <2>6, <2>7, <2>8, <2>9, OneConnection
<1>11. ASSUME NEW c \in Conns, SendBody(c) PROVE AsioInv'
  <2> DEFINE o == conn[c]
             k == sent[c]
             x == Segment(k, "body")
             n == [o EXCEPT !.inbox = Append(@, x), !.owes = FALSE]
  <2>1. /\ o.open /\ o.owes /\ UNCHANGED <<service, load, sent, hung, kept, undefined, pool>>
        /\ conn' = [conn EXCEPT ![c].inbox = Append(@, x), ![c].owes = FALSE]
    BY <1>11 DEF SendBody
  <2>3. conn' = [conn EXCEPT ![c] = n]
    <3> HIDE DEF x
    <3> QED BY <1>1, <2>1
  <2>4. ObjInv(n, k) /\ NotMore(n, o)
    <3>1. x \in Segments /\ x.part = "body" BY <1>3 DEF Segment, Segments
    <3>2. k \in Nat /\ k <= k BY <1>3
    <3> HIDE DEF x, k
    <3>3. ObjInv(o, k) BY <1>3 DEF k
    <3> QED BY <2>1, <3>1, <3>2, <3>3, SegmentWorks
  <2>5. service[c] \notin ended BY <2>1, NotEnded
  <2> HIDE DEF n
  <2>6. ChangesTo(c, n) BY <1>2, <2>1, <2>3 DEF ChangesTo
  <2>7. ObjInv(n, sent'[c]) BY <2>1, <2>4
  <2> QED BY <2>4, <2>5, <2>6, <2>7, OneConnection
<1>12. ASSUME NEW c \in Conns, FinishStart(c) PROVE AsioInv'
  <2> DEFINE o == conn[c]
             n == StartTimer([o EXCEPT !.starting = FALSE])
  <2>1. /\ o.starting /\ UNCHANGED <<service, load, sent, hung, kept, undefined, pool>>
        /\ conn' = [conn EXCEPT ![c] = n]
    BY <1>12 DEF FinishStart
  <2>2. ObjInv(n, sent[c]) /\ NotMore(n, o) BY <1>3, <2>1, StartWorks
  <2>3. service[c] \notin ended
    <3>1. ended = {} BY <1>1, <2>1 DEF PoolShape, Starting
    <3> QED BY <3>1
  <2> HIDE DEF n
  <2>4. ChangesTo(c, n) BY <1>2, <2>1 DEF ChangesTo
  <2>5. ObjInv(n, sent'[c]) BY <2>1, <2>2
  <2> QED BY <2>2, <2>3, <2>4, <2>5, OneConnection
<1>13. ASSUME NEW c \in Conns, Accept(c) PROVE AsioInv'
  <2>1. /\ main = "run" /\ ~Starting /\ service[c] = None /\ load[c] # None
        /\ service' = [service EXCEPT ![c] = _nextIOService]
        /\ _nextIOService' = GetIOService
        /\ conn' = [conn EXCEPT ![c] = Opened]
        /\ load' = load /\ sent' = sent /\ hung' = hung /\ kept' = kept
        /\ _works' = _works /\ ended' = ended /\ main' = main /\ joined' = joined
        /\ undefined' = undefined
    BY <1>13 DEF Accept, Opened
  <2>2. ObjInv(Opened, sent[c]) BY <1>3, AcceptWorks
  <2>3. Opened \in Object BY <2>2 DEF ObjInv
  <2>4. GetIOService \in Services
    <3>1. _nextIOService \in 0..(Size - 1) BY <1>1 DEF PoolTypes, Services
    <3> QED BY <3>1, Parameters DEF GetIOService, Services
  <2>5. ended = {} BY <1>1, <2>1 DEF PoolShape
  <2>6. PoolTypes' BY <1>1, <2>1, <2>4 DEF PoolTypes
  <2>7. StopWaits' BY <2>1, <2>5 DEF StopWaits
  <2>8. /\ conn' \in [Conns -> Object] /\ conn'[c] = Opened
        /\ \A d \in Conns \ {c} : conn'[d] = conn[d]
    BY <1>1, <2>1, <2>3
  <2>9. PoolShape'
    <3>1. \A d \in Conns : conn'[d].open => load[d] # None
      BY <1>1, <2>1, <2>8 DEF PoolShape
    <3> QED BY <1>1, <2>1, <2>5, <3>1 DEF PoolShape
  <2>10. \A d \in Conns : ObjInv(conn'[d], sent'[d])
    <3> SUFFICES ASSUME NEW d \in Conns PROVE ObjInv(conn'[d], sent'[d]) OBVIOUS
    <3>1. CASE d = c BY <2>1, <2>2, <2>8, <3>1
    <3>2. CASE d # c
      <4>1. conn'[d] = conn[d] BY <2>8, <3>2
      <4> QED BY <1>1, <2>1, <4>1
    <3> QED BY <3>1, <3>2
  <2> QED BY <2>6, <2>7, <2>8, <2>9, <2>10 DEF AsioInv
<1>14. ASSUME conn' = conn, sent' = sent, service' = service, load' = load, kept' = kept,
              hung' \in [Conns -> BOOLEAN], _nextIOService' = _nextIOService,
              _works' \in BOOLEAN, ended' \subseteq Services, main' \in {"run", "stop", "done"},
              joined' \in 0..Size, undefined' \in BOOLEAN, StopWaits',
              _works' <=> main' = "run", _works' => ended' = {},
              Starting => main' = "run"
       PROVE  AsioInv'
  <2>1. PoolTypes' BY <1>1, <1>14 DEF PoolTypes
  <2>2. PoolShape' BY <1>1, <1>14 DEF PoolShape, Starting
  <2>3. conn' \in [Conns -> Object] /\ \A c \in Conns : ObjInv(conn'[c], sent'[c])
    BY <1>1, <1>14
  <2> QED BY <1>14, <2>1, <2>2, <2>3 DEF AsioInv
<1>15. ASSUME NEW c \in Conns, HangUp(c) PROVE AsioInv'
  <2>1. /\ conn' = conn /\ sent' = sent /\ service' = service /\ load' = load /\ kept' = kept
        /\ _nextIOService' = _nextIOService /\ _works' = _works /\ ended' = ended
        /\ main' = main /\ joined' = joined /\ hung' = [hung EXCEPT ![c] = TRUE]
        /\ undefined' = undefined
    BY <1>15 DEF HangUp, pool
  <2>2. hung' \in [Conns -> BOOLEAN] BY <1>1, <2>1 DEF PoolTypes
  <2>3. StopWaits' BY <1>1, <2>1 DEF StopWaits
  <2> QED BY <1>1, <2>1, <2>2, <2>3, <1>14 DEF PoolTypes, PoolShape
<1>16. ASSUME Stop PROVE AsioInv'
  <2>1. /\ conn' = conn /\ sent' = sent /\ service' = service /\ load' = load /\ kept' = kept
        /\ _nextIOService' = _nextIOService /\ _works' = FALSE /\ ended' = ended
        /\ main' = "stop" /\ joined' = joined /\ hung' = hung /\ ~Starting
        /\ undefined' = undefined
    BY <1>16 DEF Stop
  <2>2. StopWaits' BY <1>1, <2>1 DEF StopWaits
  <2> QED BY <1>1, <2>1, <2>2, <1>14 DEF PoolTypes
<1>17. ASSUME Join PROVE AsioInv'
  <2>1. /\ conn' = conn /\ sent' = sent /\ service' = service /\ load' = load /\ kept' = kept
        /\ _nextIOService' = _nextIOService /\ _works' = _works /\ ended' = ended
        /\ main = "stop" /\ main' \in {"stop", "done"} /\ joined' = joined + 1 /\ hung' = hung
        /\ joined \in ended /\ undefined' = undefined
    BY <1>17 DEF Join
  <2>2. StopWaits' BY <1>1, <2>1 DEF StopWaits
  <2>3. joined' \in 0..Size
    <3>1. joined \in 0..Size - 1 BY <1>1, <2>1 DEF PoolTypes, Services
    <3> QED BY <2>1, <3>1, Parameters
  <2>4. ~_works /\ ~Starting BY <1>1, <2>1 DEF PoolShape
  <2> QED BY <1>1, <2>1, <2>2, <2>3, <2>4, <1>14 DEF PoolTypes
<1>18. ASSUME NEW s \in Services, RunReturns(s) PROVE AsioInv'
  <2>1. /\ conn' = conn /\ sent' = sent /\ service' = service /\ load' = load /\ kept' = kept
        /\ _nextIOService' = _nextIOService /\ _works' = _works /\ ended' = ended \cup {s}
        /\ main' = main /\ joined' = joined /\ hung' = hung /\ undefined' = undefined
        /\ ~_works /\ \A c \in Conns : service[c] = s => Idle(conn[c])
    BY <1>18 DEF RunReturns
  <2>2. ~Starting /\ main # "run" BY <1>1, <2>1 DEF PoolShape
  <2>3. ASSUME NEW c \in Conns, service[c] = s PROVE ~conn[c].open
    <3>1. Idle(conn[c]) BY <2>1, <2>3
    <3>2. ~conn[c].timer /\ ~Has(conn[c].queue, "timeout") BY <3>1 DEF Idle, Has
    <3>3. ~conn[c].starting BY <2>2 DEF Starting
    <3> QED BY <1>3, <3>2, <3>3 DEF Covered
  <2>4. StopWaits'
    <3> SUFFICES ASSUME NEW c \in Conns, service[c] \in ended \cup {s}
                 PROVE  ~conn[c].open /\ Idle(conn[c])
      BY <2>1 DEF StopWaits
    <3>1. CASE service[c] = s BY <2>1, <2>3, <3>1
    <3>2. CASE service[c] \in ended BY <1>1, <3>2 DEF StopWaits
    <3> QED BY <3>1, <3>2
  <2> QED BY <1>1, <2>1, <2>2, <2>4, <1>14 DEF PoolTypes
<1>19. CASE UNCHANGED vars
  <2>1. /\ conn' = conn /\ sent' = sent /\ service' = service /\ load' = load /\ kept' = kept
        /\ _nextIOService' = _nextIOService /\ _works' = _works /\ ended' = ended
        /\ main' = main /\ joined' = joined /\ hung' = hung /\ undefined' = undefined
    BY <1>19 DEF vars, pool
  <2>2. StopWaits' BY <1>1, <2>1 DEF StopWaits
  <2> QED BY <1>1, <2>1, <2>2, <1>14 DEF PoolTypes, PoolShape
<1>20. ASSUME NEW c \in Conns, Undefined(c) PROVE AsioInv'
  <2>1. /\ conn' = conn /\ sent' = sent /\ service' = service /\ load' = load /\ kept' = kept
        /\ _nextIOService' = _nextIOService /\ _works' = _works /\ ended' = ended
        /\ main' = main /\ joined' = joined /\ hung' = hung /\ undefined' = TRUE
    BY <1>20 DEF Undefined, pool
  <2>2. StopWaits' BY <1>1, <2>1 DEF StopWaits
  <2> QED BY <1>1, <2>1, <2>2, <1>14 DEF PoolTypes, PoolShape
<1> QED BY <1>4, <1>5, <1>6, <1>7, <1>8, <1>9, <1>10, <1>11, <1>12, <1>13, <1>15, <1>16, <1>17,
           <1>18, <1>19, <1>20 DEF Next

LEMMA Invariant == Spec => []AsioInv
BY InitInv, StepInv, PTL DEF Spec

-----------------------------------------------------------------------------
(* What it says of the properties that the run checks. *)

\* At most one read or write is under way, or over and its handler is ready.
LEMMA AtMostOne ==
    ASSUME NEW o \in Object, Alternates(o)
    PROVE  (IF o.reading THEN 1 ELSE 0) + (IF o.sending > 0 THEN 1 ELSE 0)
           + Cardinality({i \in DOMAIN o.queue : o.queue[i] \notin {"timeout", "aborted"}}) <= 1
<1> DEFINE S == {i \in DOMAIN o.queue : o.queue[i] \notin {"timeout", "aborted"}}
           R == IF o.reading THEN 1 ELSE 0
           W == IF o.sending > 0 THEN 1 ELSE 0
<1>1. \A i \in S : o.queue[i] \in Io
  <2>1. o.queue \in Seq(Handlers) BY DEF Object
  <2>2. \A i \in DOMAIN o.queue : o.queue[i] \in Handlers BY <2>1
  <2> QED BY <2>2 DEF Handlers, Io
<1>2. R \in 0..1 /\ W \in 0..1 /\ R + W <= 1
  <2>1. ~(o.reading /\ o.sending > 0) BY DEF Alternates
  <2>2. CASE o.reading BY <2>1, <2>2
  <2>3. CASE ~o.reading BY <2>3
  <2> QED BY <2>2, <2>3
<1>3. CASE S = {}
  <2>1. Cardinality(S) = 0 BY <1>3, FS_EmptySet
  <2> HIDE DEF S, R, W
  <2>2. R + W + Cardinality(S) <= 1 BY <2>1, <1>2
  <2> QED BY <2>2 DEF S, R, W
<1>4. CASE S # {}
  <2>1. PICK i \in S : TRUE BY <1>4
  <2>2. o.queue[i] \in Io BY <1>1, <2>1
  <2>3. S = {i}
    <3>1. \A j \in S : j = i BY <1>1, <2>1, <2>2 DEF Alternates, OneIo
    <3> HIDE DEF S
    <3> QED BY <2>1, <3>1
  <2>4. Cardinality(S) = 1 BY <2>3, FS_Singleton
  <2>5. ~NoIo(o.queue) BY <2>1, <2>2 DEF NoIo
  <2>6. ~o.reading /\ ~(o.sending > 0) BY <2>5 DEF Alternates
  <2>7. R = 0 /\ W = 0 BY <2>6
  <2> HIDE DEF S, R, W
  <2>8. R + W + Cardinality(S) <= 1 BY <2>4, <2>7
  <2> QED BY <2>8 DEF S, R, W
<1> QED BY <1>3, <1>4

\* The connections of the server, whatever the clients do: reads and writes alternate, the
\* timer covers every open socket, a file is mapped only while it is sent, the buffer is
\* never cleared under a read, and Stop() waits for all of this to end.
THEOREM ConnectionsAreRight == Spec => []ConnInv
<1>1. AsioInv => ConnInv
  <2> SUFFICES ASSUME AsioInv PROVE ConnInv OBVIOUS
  <2>1. /\ PoolTypes /\ StopWaits /\ conn \in [Conns -> Object]
        /\ \A c \in Conns : ObjInv(conn[c], sent[c])
    BY DEF AsioInv
  <2>2. ASSUME NEW c \in Conns
        PROVE  /\ conn[c] \in Object /\ Alternates(conn[c]) /\ Covered(conn[c])
               /\ Answering(conn[c]) /\ Ordered(conn[c], sent[c])
    BY <2>1, InvIs
  <2>3. TypeOK
    <3>1. \A c \in Conns : ConnType(conn[c])
      <4> SUFFICES ASSUME NEW c \in Conns PROVE ConnType(conn[c]) OBVIOUS
      <4>1. conn[c] \in Object BY <2>2
      <4> QED BY <4>1 DEF Object, ConnType, Unit, Mapping
    <3> QED BY <2>1, <3>1 DEF TypeOK, PoolTypes
  <2>4. OneOperation BY <2>2, AtMostOne DEF OneOperation
  <2>5. NeverSpoiled BY <2>2 DEF NeverSpoiled, Ordered
  <2>6. TimerCovers BY <2>2 DEF TimerCovers, Covered, Has
  <2>7. MappedWhileSending BY <2>2 DEF MappedWhileSending, Answering
  <2> QED BY <2>1, <2>3, <2>4, <2>5, <2>6, <2>7 DEF ConnInv
<1> QED BY <1>1, Invariant, PTL

\* What a client is sent: whole answers in the order of its requests, with an intact header
\* unless the kernel's buffer was full.  And what is left of a request is taken for the next one
\* only if a read cut it off, however the reads divide what has arrived.
THEOREM AnswersAreWhole == Spec => []AnswersWhole
<1>1. AsioInv => AnswersWhole
  <2> SUFFICES ASSUME AsioInv, NEW c \in Conns
               PROVE  LET out == conn[c].out
                          Units(r) == Cardinality({i \in DOMAIN out :
                                           out[i] = [req |-> r, part |-> "file", intact |-> TRUE]})
                      IN  /\ out # <<>> => out[1].part = "header"
                          /\ \A i \in 1..Len(out) - 1 :
                                /\ Follows(out[i], out[i + 1])
                                /\ out[i + 1].part = "header" /\ out[i].part = "file"
                                   => Units(out[i].req) = FileSize
                          /\ conn[c].blocked \/ \A i \in DOMAIN out : out[i].intact
                          /\ conn[c].misread => conn[c].cut
    BY DEF AnswersWhole
  <2>1. Ordered(conn[c], sent[c]) BY InvIs DEF AsioInv
  <2>2. InOrder(conn[c].out) BY <2>1 DEF Ordered
  <2> QED BY <2>1, <2>2 DEF Ordered, InOrder, FileUnits
<1> QED BY <1>1, Invariant, PTL

\* No handler runs for a deleted object, unless the timer closed it during an answer.
THEOREM HandlersAreSafe == Spec => []HandlersFindObject
<1>1. AsioInv => HandlersFindObject
  <2> SUFFICES ASSUME AsioInv, NEW c \in Conns, ~conn[c].alive, ~conn[c].late
               PROVE  conn[c].queue = <<>>
    BY DEF HandlersFindObject
  <2> DEFINE q == conn[c].queue
  <2>1. Ended(conn[c]) /\ q \in Seq(Handlers) BY InvIs DEF AsioInv
  <2>2. /\ \A h \in Handlers \ {"written", "write error"} : ~Has(q, h)
        /\ ~Has(q, "written") /\ ~Has(q, "write error")
    BY <2>1 DEF Ended
  <2> HIDE DEF q
  <2>3. ASSUME q # <<>> PROVE FALSE
    <3>1. Head(q) \in Handlers /\ Has(q, Head(q)) BY <2>1, <2>3, Unqueued
    <3> QED BY <2>2, <3>1
  <2> QED BY <2>3 DEF q
<1> QED BY <1>1, Invariant, PTL
=============================================================================
