------------------------------- MODULE Chap5 -------------------------------
(***************************************************************************)
(* The first version of the server, in chap.5/: main() runs the event loop *)
(* as a simulated proactor, level-triggered, over the same list of timers, *)
(* pool of threads and http_conn objects as Webserver/ does later.  Its    *)
(* control is that of WebServer.tla, which counts segments and pieces.     *)
(* This module adds what they are: every action is an action of WebServer  *)
(* together with its effect on the buffers, the mapped file and what the   *)
(* client is told, and the choices of WebServer (what comes of a request,  *)
(* how many pieces its answer has) follow from these.                      *)
(*                                                                         *)
(* A client sends its requests one after another, each when it has the     *)
(* whole answer to the one before.                                         *)
(***************************************************************************)
EXTENDS WebServer

CONSTANTS
    Plans,      \* what the clients may ask for: functions from Conns to their requests
    Interrupted \* bound: the plans during which SIGTERM may arrive

(* A request: the page it names, whether it asks for keep-alive, and in how many
   segments its head and its body arrive.  Nothing follows a malformed request line. *)
Pages == {"file", "missing", "forbidden", "directory", "empty", "malformed"}
Request == {r \in [page : Pages, linger : BOOLEAN, head : Nat \ {0}, body : Nat] :
               r.page = "malformed" => r.head = 1 /\ r.body = 0}

ASSUME Chap5Parameters ==
    /\ \A m \in Modes : m.actormodel = 0 /\ m.LISTENTrigmode = 0 /\ m.CONNTrigmode = 0
    /\ \A p \in Plans : DOMAIN p = Conns /\ \A c \in Conns : p[c] \in Seq(Request)
    /\ Interrupted \subseteq Plans
    /\ Outcomes = {"more", "answer", "fail"} /\ KeepAlive = BOOLEAN /\ {1, 2} \subseteq AnswerSizes

VARIABLES
    plan,       \* plan[c]: the requests of c
    asked,      \* asked[c]: how many of them c has begun to send
    given,      \* given[c]: segments of the last of them that c has sent
    wire,       \* wire[c]: the segments that inbox[c] counts
    buf,        \* buf[fd]: m_read_buf, the segments that users[fd].got counts
    checked,    \* checked[fd]: m_checked_idx, in segments
    file,       \* file[fd]: whose file is mapped at m_file_address
    made,       \* made[w]: the answer process_write() makes in worker w
    pieces,     \* pieces[fd]: m_iv, the pieces that users[fd].out counts
    told,       \* told[c]: pieces c was sent since its last request began
    spoilt      \* history: connections that another one came in the way of

asking == <<plan, asked, given>>
object == <<buf, checked, file, pieces>>
data == <<asking, wire, object, made, told, spoilt>>

\* Who asked for what: a segment, a mapped file and a piece of an answer are known by it.
Whose(x) == [client |-> x.client, nth |-> x.nth]
RequestOf(x) == plan[x.client][x.nth]
NoFile == [client |-> None, nth |-> 0]

C5Init ==
    /\ Init
    /\ plan \in Plans
    /\ asked = [c \in Conns |-> 0] /\ given = [c \in Conns |-> 0]
    /\ wire = [c \in Conns |-> <<>>]
    /\ buf = [fd \in Fds |-> <<>>] /\ checked = [fd \in Fds |-> 0]
    /\ file = [fd \in Fds |-> NoFile]
    /\ pieces = [fd \in Fds |-> <<>>]
    /\ made = [w \in Workers |-> <<>>]
    /\ told = [c \in Conns |-> <<>>]
    /\ spoilt = {}

\* What a client and the server see of their conversation.  The server may end one that
\* the client has shut, that was idle for 3*TIMESLOT or was never accepted, or whose page
\* is an empty file.
Talk == INSTANCE Conversation WITH
    state <- [c \in Conns |-> IF phase[c] = "new" THEN "new"
                              ELSE IF Connected(c) THEN "open" ELSE "ended"],
    excused <- {c \in Conns : \/ phase[c] = "shut"
                              \/ left[c] = 0
                              \/ asked[c] > 0 /\ plan[c][asked[c]].page = "empty"}

-----------------------------------------------------------------------------
(* Clients. *)

\* Its bytes are there until init() of another object clears them.
Segment(c, k) == [client |-> c, nth |-> k, wiped |-> FALSE]

\* The rest of a request, or the next one.
SendSegment(c) ==
    /\ Send(c)
    /\ \/ /\ asked[c] > 0 /\ given[c] < plan[c][asked[c]].head + plan[c][asked[c]].body
          /\ given' = [given EXCEPT ![c] = @ + 1]
          /\ UNCHANGED <<asked, told>>
       \/ /\ Talk!MayAsk(c)
          /\ asked' = [asked EXCEPT ![c] = @ + 1]
          /\ given' = [given EXCEPT ![c] = 1]
          /\ told' = [told EXCEPT ![c] = <<>>]
    /\ wire' = [wire EXCEPT ![c] = Append(@, Segment(c, asked'[c]))]
    /\ UNCHANGED <<plan, object, made, spoilt>>

OtherClient == (\E c \in Conns : Connect(c) \/ Shut(c) \/ Drain(c)) /\ UNCHANGED data

-----------------------------------------------------------------------------
(* The main thread. *)

\* What it does without an object, and deal_timer() for a client that hung up.
OtherEvent ==
    /\ EpollWait \/ AcceptFails \/ ServerBusy \/ DealWithSignal \/ \E fd \in Fds : HangUp(fd)
    /\ UNCHANGED data

\* A worker or the queue still has a request of the connection that was here before, or the
\* batch an event: a worker may close a connection while its event waits.
Reused(fd) == \/ \E w \in Workers : worker[w].fd = fd
              \/ \E i \in DOMAIN m_workqueue : m_workqueue[i] = fd
              \/ \E e \in batch : e.fd = fd

MutantInitObject(fd) ==
    /\ buf' = buf
    /\ checked' = [checked EXCEPT ![fd] = 0]
    /\ file' = [file EXCEPT ![fd] = NoFile]

\* init() clears READ_BUFFER_SIZE bytes from m_write_buf on, twice its length: the rest of
\* the object with m_file_address, and of the next object m_sockfd (Put in WebServer) and
\* the start of m_read_buf.
InitObject(fd) ==
    /\ buf' = [g \in Fds |-> IF g = fd THEN <<>>
                            ELSE IF g \in Overrun[fd]
                            THEN [i \in DOMAIN buf[g] |-> [buf[g][i] EXCEPT !.wiped = TRUE]]
                            ELSE buf[g]]
    /\ checked' = [checked EXCEPT ![fd] = 0]
    /\ file' = [file EXCEPT ![fd] = NoFile]

\* The connections whose objects that writes over.
Neighbours(fd) == {sock[g] : g \in Overrun[fd]} \ {None}

\* users[connfd].init() and a timer.
AcceptConnection(c, fd) ==
    /\ Accept(c, fd)
    /\ InitObject(fd)
    /\ pieces' = [pieces EXCEPT ![fd] = <<>>]
    /\ spoilt' = spoilt \cup (IF Reused(fd) THEN {c} ELSE {}) \cup Neighbours(fd)
    /\ UNCHANGED <<asking, wire, made, told>>

\* Plausible mistakes, as in WebServer.
MutantReadOnce(fd) ==
    LET c == Peer(fd)
        n == Readable(fd)
    IN  IF c = None THEN UNCHANGED <<wire, buf>>
        ELSE /\ wire' = [wire EXCEPT ![c] = SubSeq(@, n + 1, Len(@))]
             /\ buf' = [buf EXCEPT ![fd] = SubSeq(wire[c], 1, n)]

\* read_once() takes what fits into m_read_buf.
ReadOnce(fd) ==
    LET c == Peer(fd)
        n == Readable(fd)
    IN  IF c = None THEN UNCHANGED <<wire, buf>>
        ELSE /\ wire' = [wire EXCEPT ![c] = SubSeq(@, n + 1, Len(@))]
             /\ buf' = [buf EXCEPT ![fd] = @ \o SubSeq(wire[c], 1, n)]

\* Then append() and three more TIMESLOTs, or cb_func() and del_timer().
ReadRequest(fd) ==
    /\ ReadProactor(fd)
    /\ ReadOnce(fd)
    /\ UNCHANGED <<asking, checked, file, pieces, made, told, spoilt>>

MutantGathered(fd) == pieces[fd][Len(pieces[fd])]

\* writev() takes the header from m_write_buf and the content from the file that is
\* mapped now.
Gathered(fd) ==
    LET p == Head(pieces[fd])
    IN  IF p.what = "content"
        THEN [client |-> file[fd].client, nth |-> file[fd].nth, what |-> "content"]
        ELSE p

Unmap(fd) == file' = [file EXCEPT ![fd] = NoFile]

\* write(): the pieces that fit; unmap() when all are sent or writev() fails; init() when
\* the connection is kept, or when there was nothing to send.
Write(fd) ==
    LET c == Peer(fd)
        was == users[fd].out
        is == users'[fd].out
        sent == c # None /\ room'[c] < room[c]
        over == was > 0 /\ (is = 0 \/ sock'[fd] = None)
    IN  /\ told' = IF sent THEN [told EXCEPT ![c] = Append(@, Gathered(fd))] ELSE told
        /\ pieces' = [pieces EXCEPT ![fd] = SubSeq(@, was - is + 1, was)]
        /\ IF is = 0 /\ (was = 0 \/ users[fd].linger)
           THEN InitObject(fd) /\ spoilt' = spoilt \cup Neighbours(fd)
           ELSE /\ IF over THEN Unmap(fd) ELSE file' = file
                /\ UNCHANGED <<buf, checked, spoilt>>

\* Then three more TIMESLOTs, or cb_func() and del_timer().
WriteAnswer(fd) == WriteProactor(fd) /\ Write(fd) /\ UNCHANGED <<asking, wire, made>>

\* tick() acts for timers that close_conn() left behind, on the connections of others.
Harmed == {c \in Conns : \E t \in TS!Expired \ {c}, fd \in Fds : timerFd[t] = fd /\ sock[fd] = c}

EndOfBatch ==
    /\ EndBatch
    /\ spoilt' = IF timeout THEN spoilt \cup Harmed ELSE spoilt
    /\ UNCHANGED <<asking, wire, object, made, told>>

-----------------------------------------------------------------------------
(* The workers. *)

MutantBodyStart(fd, r) == IF checked[fd] > r.head THEN checked[fd] ELSE r.head + 1

\* process_read(): the head is parsed as it comes.  The body is whole when as many bytes
\* as it has follow those that were looked at before, by parse_line() too.
BodyStart(fd, r) == IF checked[fd] > r.head THEN checked[fd] ELSE r.head

\* The head was parsed in an earlier call: m_check_state is CHECK_STATE_CONTENT.
InBody(fd) == checked[fd] >= RequestOf(Head(buf[fd])).head

\* A buffer is wiped as a whole: m_sockfd goes with it, so nothing is read after that, and
\* zeros have no line end.
NoRequest(fd) ==
    \/ buf[fd] = <<>>
    \/ Head(buf[fd]).wiped /\ ~InBody(fd)
    \/ LET r == RequestOf(Head(buf[fd])) IN Len(buf[fd]) < BodyStart(fd, r) + r.body

\* The whole body of a request whose head was wiped out: do_request() looks behind the '/'
\* in an empty m_url and the process dies.
Dies(fd) == ~NoRequest(fd) /\ Head(buf[fd]).wiped

\* parse_request_line(), and parse_headers(), which a malformed line leaves no time for.
Malformed(r) == r.page = "malformed"
KeepsAlive(r) == r.linger /\ ~Malformed(r)

\* do_request(): stat(), the tests of st_mode, and mmap().
DoRequest(page) == CASE page = "missing"   -> "NO_RESOURCE"
                     [] page = "forbidden" -> "FORBIDDEN_REQUEST"
                     [] page = "directory" -> "BAD_REQUEST"
                     [] page \in {"file", "empty"} -> "FILE_REQUEST"

ProcessRead(r) == IF Malformed(r) THEN "BAD_REQUEST" ELSE DoRequest(r.page)

\* process_write(): for an empty file it falls through to its default case.
ProcessWrite(code, page) ==
    CASE code = "NO_RESOURCE"       -> <<"404">>
      [] code = "FORBIDDEN_REQUEST" -> <<"403">>
      [] code = "BAD_REQUEST"       -> <<"400">>
      [] code = "FILE_REQUEST"      -> IF page = "empty" THEN <<>> ELSE <<"header", "content">>

AnswerTo(x) ==
    LET r == RequestOf(x)
        parts == ProcessWrite(ProcessRead(r), r.page)
    IN  [i \in DOMAIN parts |-> [client |-> x.client, nth |-> x.nth, what |-> parts[i]]]

\* process(), up to process_write().
ParseRequest(w) ==
    LET fd == worker[w].fd
        x == Head(buf[fd])
        r == RequestOf(x)
    IN  /\ Parse(w)
        /\ ~Dies(fd)
        /\ IF NoRequest(fd)
           THEN /\ worker'[w].pc = "rearmIn"
                /\ checked' = [checked EXCEPT ![fd] = Len(buf[fd])]
                /\ UNCHANGED <<made, file>>
           ELSE /\ worker'[w].pc = IF AnswerTo(x) = <<>> THEN "close" ELSE "fill"
                /\ worker'[w].pc = "fill" =>
                       users'[fd].linger = KeepsAlive(r)
                /\ made' = [made EXCEPT ![w] = AnswerTo(x)]
                /\ file' = IF ProcessRead(r) = "FILE_REQUEST"
                           THEN [file EXCEPT ![fd] = Whose(x)] ELSE file
                /\ UNCHANGED checked
        /\ UNCHANGED <<asking, wire, buf, pieces, told, spoilt>>

\* m_write_buf and m_iv are filled.
FillAnswer(w) ==
    LET fd == worker[w].fd IN
    /\ Fill(w)
    /\ users'[fd].out = Len(made[w])
    /\ pieces' = [pieces EXCEPT ![fd] = made[w]]
    /\ made' = [made EXCEPT ![w] = <<>>]
    /\ UNCHANGED <<asking, wire, buf, checked, file, told, spoilt>>

\* Taking a request, close_conn() and the last modfd().
OtherWork(w) ==
    /\ Take(w) \/ CloseConn(w) \/ Forget(w) \/ LoadCount(w) \/ StoreCount(w) \/ Rearm(w)
    /\ UNCHANGED data

-----------------------------------------------------------------------------
C5Client == OtherClient \/ \E c \in Conns : SendSegment(c)

C5Main == \/ OtherEvent
          \/ \E c \in Conns, fd \in Fds : AcceptConnection(c, fd)
          \/ \E fd \in Fds : ReadRequest(fd) \/ WriteAnswer(fd)
          \/ EndOfBatch

C5Work(w) == OtherWork(w) \/ ParseRequest(w) \/ FillAnswer(w)

TimeAndSignals ==
    /\ Clock \/ SigAlrm \/ (plan \in Interrupted /\ SigTerm)
    /\ UNCHANGED data

C5Next == C5Client \/ C5Main \/ TimeAndSignals \/ \E w \in Workers : C5Work(w)

C5Spec == C5Init /\ [][C5Next]_<<vars, data>>

\* Threads run and clients read what they are sent.  Nothing is asked of the clock.
C5FairSpec == /\ C5Spec
              /\ WF_<<vars, data>>(C5Main)
              /\ \A w \in Workers : WF_<<vars, data>>(C5Work(w))
              /\ \A c \in Conns : WF_<<vars, data>>(Drain(c) /\ UNCHANGED data)

-----------------------------------------------------------------------------
Parts == {"header", "content", "400", "403", "404"}
Piece == [client : Conns \cup {None}, nth : Nat, what : Parts]
FromClients == {x \in [client : Conns, nth : Nat, wiped : BOOLEAN] :
                    x.nth \in DOMAIN plan[x.client]}

\* The counters of WebServer count the data, whatever one object's init() does to another:
\* it takes bytes away but not m_read_idx, and a connection is not read through the object
\* of another.
DataInv ==
    /\ plan \in Plans /\ asked \in [Conns -> Nat] /\ given \in [Conns -> Nat]
    /\ \A c \in Conns : asked[c] <= Len(plan[c])
    /\ wire \in [Conns -> Seq(FromClients)] /\ buf \in [Fds -> Seq(FromClients)]
    /\ checked \in [Fds -> Nat]
    /\ file \in [Fds -> [client : Conns \cup {None}, nth : Nat]]
    /\ pieces \in [Fds -> Seq(Piece)] /\ made \in [Workers -> Seq(Piece)]
    /\ told \in [Conns -> Seq(Piece)]
    /\ spoilt \subseteq Conns
    /\ \A c \in Conns : Len(wire[c]) = inbox[c]
    /\ \A fd \in Fds : Len(buf[fd]) = users[fd].got /\ Len(pieces[fd]) = users[fd].out

\* m_read_buf holds segments of one request only, that of the connection at its
\* descriptor, and no other client's.
OneRequestInBuffer ==
    \A fd \in Fds : sock[fd] \notin spoilt \cup {None} =>
        \A i \in DOMAIN buf[fd] : buf[fd][i] = Segment(sock[fd], asked[sock[fd]])

\* Whatever else goes on - other clients, timeouts, hang-ups, a stop - every step is one
\* that the client's conversation allows, unless another connection came in its way: by a
\* request or event of it that a worker, the queue or the batch still had when the descriptor
\* was used again, by its timer that close_conn() had left behind, or by init() of the object
\* before.
KeepsConversations ==
    [][\A c \in Conns : c \notin spoilt' => Talk!Step(c)]_<<plan, asked, told, phase, backlog, sock>>

\* A whole request is answered, or its connection ends, without the help of a timer ...
WholeSent(c) ==
    /\ \E fd \in Fds : sock[fd] = c
    /\ asked[c] > 0 /\ given[c] = plan[c][asked[c]].head + plan[c][asked[c]].body

\* ... unless a part of its body was looked at before the rest came.
BodyCut(c) == \E fd \in Fds : sock[fd] = c /\ checked[fd] > plan[c][asked[c]].head

Dead == \E w \in Workers : worker[w].pc = "parse" /\ Dies(worker[w].fd)

RequestsAnswered ==
    \A c \in Conns : WholeSent(c) ~> \/ Talk!Answered(c) \/ ~Connected(c)
                                     \/ BodyCut(c) \/ c \in spoilt \/ ~Running \/ Dead
=============================================================================
