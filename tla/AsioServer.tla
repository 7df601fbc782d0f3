----------------------------- MODULE AsioServer -----------------------------
(***************************************************************************)
(* The server of Webserver_asio/: http_conn objects whose reads, writes    *)
(* and timer are asynchronous operations of boost::asio, the pool of       *)
(* io_contexts with one thread each (AsioIOServicePool) that runs their    *)
(* completion handlers, and main(), which accepts and stops the pool.      *)
(*                                                                         *)
(* The handlers of a connection run on one thread, so a handler is one     *)
(* step; between them come the completions, the clients and the accepting  *)
(* thread.  The CServer that accepts is not in the repository: it is taken *)
(* to create an http_conn on GetIOService(), to call start() and, perhaps, *)
(* to keep a pointer to the object.                                        *)
(*                                                                         *)
(* Where the behaviour of the C++ program is undefined, an ordinary        *)
(* outcome is one possibility and the end of the model (undefined) the     *)
(* other.                                                                  *)
(***************************************************************************)
EXTENDS Integers, Sequences, FiniteSetsExt

CONSTANTS
    Conns,      \* client connections, each made once
    None,
    Size,       \* io_contexts in the pool
    Loads,      \* bounds: for each client the requests it sends, None if it never connects
    Room,       \* units the kernel buffers towards a client; a header is one unit
    FileSize    \* of the file that is asked for, in units

ASSUME Parameters ==
    /\ Size \in Nat \ {0} /\ Room \in Nat \ {0} /\ FileSize \in Nat \ {0}
    /\ Loads \subseteq [Conns -> Nat \cup {None}]
    /\ None \notin Nat

VARIABLES
    conn,            \* conn[c]: the http_conn for c with its socket, see Fresh
    service,         \* service[c]: the io_context of c
    load,            \* the element of Loads that bounds this behaviour
    sent, hung,      \* client c: requests sent, has closed its end
    kept,            \* CServer keeps a pointer to every http_conn
    _nextIOService,
    _works,          \* the io_context::work objects exist
    ended,           \* services whose thread has returned from run()
    undefined,       \* something undefined has happened: nothing is said of what follows
    main,            \* "run", "stop" inside Stop(), "done"
    joined           \* threads Stop() has joined

pool == <<_nextIOService, _works, ended, main, joined>>
vars == <<conn, service, load, sent, hung, kept, undefined, pool>>

Services == 0..Size - 1

Fresh == [open |-> FALSE,      \* m_sockfd.is_open()
          alive |-> TRUE,      \* the object has not been deleted
          starting |-> FALSE,  \* the accepting thread is between read_once() and start_timer()
          reading |-> FALSE,   \* async_read_until() is pending
          sending |-> 0,       \* units an async_write() has still to send
          timer |-> FALSE,     \* m_timer.async_wait() is pending
          queue |-> <<>>,      \* handlers ready to run
          inbox |-> <<>>,      \* segments that have arrived, see Segments
          buf |-> <<>>,        \* those in m_read_buf
          owes |-> FALSE,      \* the client has yet to send the body of its last request
          req |-> 0,           \* the request that is being answered
          parts |-> <<>>,      \* of the answer, not sent completely
          linger |-> FALSE,    \* m_linger
          mapped |-> "unknown", \* m_file_address: not initialised, a "file", or "no"
          wiped |-> FALSE,     \* m_write_buf was cleared before it was sent
          room |-> Room,       \* free space in the kernel's send buffer
          out |-> <<>>,        \* what the client is sent
          blocked |-> FALSE,   \* history: a header met a full send buffer
          cut |-> FALSE,       \* history: a read took less than a whole request
          misread |-> FALSE,   \* history: the rest of a request was parsed as a request line
          late |-> FALSE,      \* history: the timer closed it when it was not waiting for a request
          spoiled |-> FALSE]   \* history: m_read_buf was cleared under a pending read

Init ==
    /\ conn = [c \in Conns |-> Fresh]
    /\ service = [c \in Conns |-> None]
    /\ load \in Loads
    /\ sent = [c \in Conns |-> 0] /\ hung = [c \in Conns |-> FALSE]
    /\ kept \in BOOLEAN
    /\ _nextIOService = 0 /\ _works = TRUE /\ ended = {}
    /\ main = "run" /\ joined = 0 /\ undefined = FALSE

(* The Mutant operators below are plausible mistakes in the definition that follows
   them: each makes a property of this module fail. *)

-----------------------------------------------------------------------------
(* Operations of asio on the object o; a handler that is ready is queued. *)

If(test, handler) == IF test THEN <<handler>> ELSE <<>>

(* close_conn(): the operations that were pending are aborted, the kernel's buffers go. *)
CloseConn(o) ==
    IF ~o.open THEN o
    ELSE [o EXCEPT !.open = FALSE, !.reading = FALSE, !.sending = 0, !.timer = FALSE,
                   !.inbox = <<>>, !.room = Room,
                   !.queue = @ \o If(o.reading, "read error")
                               \o If(o.sending > 0, "write error")
                               \o If(o.timer, "aborted")]

(* init(), called between two requests. *)
Cleared(o) == [o EXCEPT !.buf = <<>>, !.parts = <<>>, !.linger = FALSE]

ReadOnce(o) ==
    IF o.open THEN [o EXCEPT !.reading = TRUE]
    ELSE [o EXCEPT !.queue = Append(@, "read error")]

MutantStartTimer(o) == [o EXCEPT !.timer = FALSE, !.queue = @ \o If(o.timer, "aborted")]
(* start_timer(): expires_from_now() aborts the wait before. *)
StartTimer(o) == [o EXCEPT !.timer = TRUE, !.queue = @ \o If(o.timer, "aborted")]

Start(o) == StartTimer(ReadOnce(o))

Least(a, b) == IF a < b THEN a ELSE b

(* The kernel takes from the pending async_write() what it has room for. *)
Transfer(o) ==
    LET n == Least(o.sending, o.room)
        unit == [req |-> o.req, part |-> Head(o.parts),
                 intact |-> ~(o.wiped /\ Head(o.parts) = "header")]
    IN  [o EXCEPT !.sending = @ - n, !.room = @ - n,
                  !.out = @ \o [i \in 1..n |-> unit],
                  !.queue = @ \o If(o.sending = n, "written")]

Length(part) == IF part = "header" THEN 1 ELSE FileSize

(* async_write_chunk(): asio tries to send at once.  The peer may have reset the
   connection. *)
AsyncWriteChunk(o, peerGone) ==
    IF o.parts = <<>> THEN {Start(Cleared(o))}
    ELSE LET failed == [o EXCEPT !.queue = Append(@, "write error")]
             begun == [o EXCEPT !.sending = Length(Head(o.parts)), !.wiped = FALSE,
                                !.blocked = @ \/ o.room = 0]
         IN  IF ~o.open THEN {failed}
             ELSE {Transfer(begun)} \cup (IF peerGone THEN {failed} ELSE {})

-----------------------------------------------------------------------------
(* The handlers. *)

(* An answer that is being made up: the object and the HTTP_CODE of its request. *)
Coded(o, code) == [object |-> o, code |-> code]

(* do_request(): the file may be missing, unreadable or a directory, or it is mapped; an
   empty one cannot be. *)
DoRequest(o) ==
    {Coded(o, code) : code \in {"NO_RESOURCE", "FORBIDDEN_REQUEST", "BAD_REQUEST", "empty file"}}
    \cup {Coded([o EXCEPT !.mapped = "file"], "FILE_REQUEST")}

\* Where heads end among the segments of s, and where they begin.
Heads(s) == {i \in DOMAIN s : s[i].part # "body"}
Begins(segment) == segment.part \in {"head", "post"}

(* process_read(): the end of a head is in the buffer and the body is not waited for, so it
   never returns NO_REQUEST.  What is left of a request that a read cut is a bad request line
   (no header line holds a request line, and the bodies of the forms have no blanks).  A
   body that is missing is BodyMissing below. *)
ProcessRead(o) ==
    LET p == [o EXCEPT !.req = o.buf[Min(Heads(o.buf))].req]
    IN  IF ~Begins(Head(o.buf)) THEN {Coded([p EXCEPT !.misread = TRUE], "BAD_REQUEST")}
        ELSE UNION {{Coded(r, "BAD_REQUEST")} \cup DoRequest(r) :
                       r \in {[p EXCEPT !.linger = l] : l \in BOOLEAN}}

(* process_write(): a file follows its header, an error page is in the header's buffer;
   a missing or empty file has no answer. *)
ProcessWrite(a) ==
    [a.object EXCEPT !.parts = CASE a.code = "FILE_REQUEST" -> <<"header", "file">>
                                 [] a.code \in {"BAD_REQUEST", "FORBIDDEN_REQUEST"} -> <<"header">>
                                 [] OTHER -> <<>>]

(* After async_write_chunk() has returned, m_read_buf and m_write_buf are cleared. *)
ClearBuffers(o) ==
    [o EXCEPT !.buf = <<>>,
              !.spoiled = @ \/ o.reading,
              !.wiped = o.sending > 0 /\ Head(o.parts) = "header"]

MutantWipe(o, peerGone) ==
    LET Answer(a) == IF a.parts = <<>> THEN CloseConn(a) ELSE a
        Wiped(w) == [w EXCEPT !.buf = <<>>,
                              !.out = [i \in DOMAIN @ |-> [@[i] EXCEPT !.intact = i <= Len(o.out)]]]
    IN  UNION {{Wiped(w) : w \in AsyncWriteChunk(Answer(ProcessWrite(a)), peerGone)} :
                  a \in ProcessRead(o)}

(* process() *)
Process(o, peerGone) ==
    LET Answer(a) == IF a.parts = <<>> THEN CloseConn(a) ELSE a
    IN  UNION {{ClearBuffers(w) : w \in AsyncWriteChunk(Answer(ProcessWrite(a)), peerGone)} :
                  a \in ProcessRead(o)}

MutantRestart(o, peerGone) ==
    LET rest == [o EXCEPT !.parts = Tail(@)]
        done == [rest EXCEPT !.mapped = "no"]
    IN  IF rest.parts # <<>>
        THEN {IF o.linger THEN ReadOnce(w) ELSE w : w \in AsyncWriteChunk(rest, peerGone)}
        ELSE {IF o.linger THEN Start(Cleared(done)) ELSE CloseConn(done)}

(* The handler of async_write() without an error: the next part, or the end. *)
WriteDone(o, peerGone) ==
    LET rest == [o EXCEPT !.parts = Tail(@)]
        done == [rest EXCEPT !.mapped = "no"]
    IN  IF rest.parts # <<>> THEN AsyncWriteChunk(rest, peerGone)
        ELSE {IF o.linger THEN Start(Cleared(done)) ELSE CloseConn(done)}

(* The handler of the timer. *)
Timeout(o) == [CloseConn(o) EXCEPT !.late = @ \/ (o.open /\ ~o.reading)]

MutantHeld(o) == \/ kept \/ o.starting \/ o.timer
                 \/ \E i \in DOMAIN o.queue : o.queue[i] \in {"timeout", "aborted"}
(* Handlers of reads and of the timer hold the object (self), those of writes do not. *)
Held(o) == \/ kept \/ o.starting \/ o.reading \/ o.timer
           \/ \E i \in DOMAIN o.queue : o.queue[i] \notin {"written", "write error"}

(* The destructor closes the socket; what is ready to run stays ready. *)
Released(o) ==
    IF Held(o) THEN o
    ELSE [Fresh EXCEPT !.alive = FALSE, !.queue = CloseConn(o).queue, !.out = o.out,
                       !.blocked = o.blocked, !.late = o.late, !.spoiled = o.spoiled,
                       !.cut = o.cut, !.misread = o.misread]

(* The thread of service[c] runs the next handler; one for a deleted object is not
   followed further. *)
Handle(c) ==
    LET o == conn[c]
        rest == [o EXCEPT !.queue = Tail(@)]
    IN  /\ o.queue # <<>> /\ service[c] \notin ended
        /\ \E r \in CASE ~o.alive -> {rest}
                      [] o.alive /\ Head(o.queue) = "read" -> Process(rest, hung[c])
                      [] o.alive /\ Head(o.queue) = "written" -> WriteDone(rest, hung[c])
                      [] o.alive /\ Head(o.queue) = "aborted" -> {rest}
                      [] o.alive /\ Head(o.queue) = "timeout" -> {Timeout(rest)}
                      [] OTHER -> {CloseConn(rest)} :
              conn' = [conn EXCEPT ![c] = IF o.alive THEN Released(r) ELSE r]
        /\ UNCHANGED <<service, load, sent, hung, kept, undefined, pool>>

(* parse_content() writes a 0 where the body should end and do_request() looks for '&' in
   it, both behind the string if the body is not there. *)
BodyMissing(o) == Len(o.buf) = 1 /\ Head(o.buf).part = "post"

(* unmap() is called with an address that nothing has set. *)
UnmapsGarbage(o) == Len(o.parts) = 1 /\ o.mapped = "unknown"

Undefined(c) ==
    LET o == conn[c] IN
    /\ o.queue # <<>> /\ service[c] \notin ended /\ o.alive
    /\ \/ Head(o.queue) = "read" /\ BodyMissing(o)
       \/ Head(o.queue) = "written" /\ UnmapsGarbage(o)
    /\ undefined' = TRUE
    /\ UNCHANGED <<conn, service, load, sent, hung, kept, pool>>

-----------------------------------------------------------------------------
(* Completions: what the reactor of asio reports. *)

(* What may stay in the socket of the segments s that were left: all of them, or only the
   end of the first one's head, with or without the blank line. *)
Remains(s) ==
    {s} \cup {[s EXCEPT ![1].part = p] : p \in {q \in {"tail", "body"} : s # <<>> /\ Begins(s[1])}}

(* async_read_until() has met the end of a head.  It reads chunks of bounded size (512 bytes
   or more, as the string has capacity), so they may end anywhere behind that.  A body
   that is cut counts as one that is not there. *)
Arrive(c) ==
    LET o == conn[c] IN
    /\ o.reading /\ Heads(o.inbox) # {}
    /\ \E n \in Min(Heads(o.inbox))..Len(o.inbox) :
          LET left == SubSeq(o.inbox, n + 1, Len(o.inbox))
          IN  \E rest \in Remains(left) :
                 conn' = [conn EXCEPT ![c] =
                            [o EXCEPT !.reading = FALSE, !.inbox = rest,
                                      !.buf = @ \o SubSeq(o.inbox, 1, n),
                                      !.queue = Append(@, "read"),
                                      !.cut = @ \/ rest # left \/ o.inbox[n].part = "post"]]
    /\ UNCHANGED <<service, load, sent, hung, kept, undefined, pool>>

EndOfStream(c) ==
    /\ conn[c].reading /\ Heads(conn[c].inbox) = {} /\ hung[c]
    /\ conn' = [conn EXCEPT ![c].reading = FALSE, ![c].queue = Append(@, "read error")]
    /\ UNCHANGED <<service, load, sent, hung, kept, undefined, pool>>

(* The client takes what was buffered for it; the pending write goes on. *)
Drain(c) ==
    /\ conn[c].room < Room /\ ~hung[c] /\ conn[c].open
    /\ LET o == [conn[c] EXCEPT !.room = Room]
       IN  conn' = [conn EXCEPT ![c] = IF o.sending > 0 THEN Transfer(o) ELSE o]
    /\ UNCHANGED <<service, load, sent, hung, kept, undefined, pool>>

Reset(c) ==
    /\ conn[c].sending > 0 /\ hung[c]
    /\ conn' = [conn EXCEPT ![c].sending = 0, ![c].queue = Append(@, "write error")]
    /\ UNCHANGED <<service, load, sent, hung, kept, undefined, pool>>

Expire(c) ==
    /\ conn[c].timer
    /\ conn' = [conn EXCEPT ![c].timer = FALSE, ![c].queue = Append(@, "timeout")]
    /\ UNCHANGED <<service, load, sent, hung, kept, undefined, pool>>

-----------------------------------------------------------------------------
(* Clients. *)

Segment(k, part) == [req |-> k, part |-> part]

(* The head of a request, a "post" if it announces a body (forms are sent with a
   Content-Length).  Bound: the last request is none. *)
Send(c) ==
    /\ conn[c].open /\ ~hung[c] /\ sent[c] < load[c] /\ ~conn[c].owes
    /\ sent' = [sent EXCEPT ![c] = @ + 1]
    /\ \E owes \in {FALSE, sent'[c] < load[c]} :
          LET x == Segment(sent'[c], IF owes THEN "post" ELSE "head")
          IN  conn' = [conn EXCEPT ![c].inbox = Append(@, x), ![c].owes = owes]
    /\ UNCHANGED <<service, load, hung, kept, undefined, pool>>

SendBody(c) ==
    /\ conn[c].open /\ ~hung[c] /\ conn[c].owes
    /\ conn' = [conn EXCEPT ![c].inbox = Append(@, Segment(sent[c], "body")), ![c].owes = FALSE]
    /\ UNCHANGED <<service, load, sent, hung, kept, undefined, pool>>

HangUp(c) ==
    /\ conn[c].open /\ ~hung[c]
    /\ hung' = [hung EXCEPT ![c] = TRUE]
    /\ UNCHANGED <<conn, service, load, sent, kept, undefined, pool>>

-----------------------------------------------------------------------------
(* The main thread: CServer accepts, main()'s signal handler stops the pool. *)

GetIOService == IF _nextIOService + 1 = Size THEN 0 ELSE _nextIOService + 1

Starting == \E c \in Conns : conn[c].starting

Accept(c) ==
    /\ main = "run" /\ ~Starting /\ service[c] = None /\ load[c] # None
    /\ service' = [service EXCEPT ![c] = _nextIOService]
    /\ _nextIOService' = GetIOService
    /\ conn' = [conn EXCEPT ![c] = ReadOnce([Fresh EXCEPT !.open = TRUE, !.starting = TRUE])]
    /\ UNCHANGED <<load, sent, hung, kept, undefined, _works, ended, main, joined>>

(* The rest of start() and, unless kept, of the accepting thread's pointer. *)
FinishStart(c) ==
    /\ conn[c].starting
    /\ conn' = [conn EXCEPT ![c] = StartTimer([@ EXCEPT !.starting = FALSE])]
    /\ UNCHANGED <<service, load, sent, hung, kept, undefined, pool>>

MutantStop ==
    /\ main = "run" /\ ~Starting
    /\ main' = "stop"
    /\ UNCHANGED <<conn, service, load, sent, hung, kept, undefined,
                   _nextIOService, _works, ended, joined>>
(* Stop(): resets the work objects, then joins the threads in their order. *)
Stop ==
    /\ main = "run" /\ ~Starting
    /\ main' = "stop" /\ _works' = FALSE
    /\ UNCHANGED <<conn, service, load, sent, hung, kept, undefined, _nextIOService, ended, joined>>

Join ==
    /\ main = "stop" /\ joined \in ended
    /\ joined' = joined + 1
    /\ main' = IF joined + 1 = Size THEN "done" ELSE "stop"
    /\ UNCHANGED <<conn, service, load, sent, hung, kept, undefined, _nextIOService, _works, ended>>

(* run() returns when nothing is pending or ready at its io_context. *)
Idle(o) == ~o.reading /\ o.sending = 0 /\ ~o.timer /\ o.queue = <<>>

RunReturns(s) ==
    /\ s \notin ended
    /\ ~_works /\ \A c \in Conns : service[c] = s => Idle(conn[c])
    /\ ended' = ended \cup {s}
    /\ UNCHANGED <<conn, service, load, sent, hung, kept, undefined,
                   _nextIOService, _works, main, joined>>

Next == /\ ~undefined
        /\ \/ \E c \in Conns : \/ Handle(c)
                               \/ Undefined(c)
                               \/ Arrive(c)
                               \/ EndOfStream(c)
                               \/ Drain(c)
                               \/ Reset(c)
                               \/ Expire(c)
                               \/ Send(c)
                               \/ SendBody(c)
                               \/ HangUp(c)
                               \/ Accept(c)
                               \/ FinishStart(c)
           \/ Stop
           \/ Join
           \/ \E s \in Services : RunReturns(s)

Spec == Init /\ [][Next]_vars

\* The client can or will send nothing more.
Quiet(c) == ~conn[c].open \/ hung[c] \/ sent[c] = load[c]

(* Threads run their handlers and main() goes on.  Nothing is asked of clients, and the timer
   of one that is not quiet need never expire: it stands for a client that goes on sending, and
   each of its requests puts the timer off. *)
FairSpec ==
    /\ Spec
    /\ \A c \in Conns : /\ WF_vars(~undefined /\ Handle(c))
                        /\ WF_vars(~undefined /\ Quiet(c) /\ Expire(c))
                        /\ WF_vars(~undefined /\ FinishStart(c))
    /\ WF_vars(~undefined /\ Join)
    /\ \A s \in Services : WF_vars(~undefined /\ RunReturns(s))

-----------------------------------------------------------------------------
Handlers == {"read", "read error", "written", "write error", "timeout", "aborted"}
Parts == {"header", "file"}

(* What clients send and reads take: a head without or with ("post") a body, a body, and the
   "tail" of a head that a read cut ("body" too if its blank line was cut). *)
Segments == [req : Nat, part : {"head", "post", "body", "tail"}]

ConnType(o) ==
    /\ {o.open, o.alive, o.starting, o.reading, o.timer, o.linger, o.wiped,
        o.owes, o.blocked, o.cut, o.misread, o.late, o.spoiled} \subseteq BOOLEAN
    /\ o.mapped \in {"unknown", "file", "no"}
    /\ o.sending \in Nat /\ o.room \in 0..Room /\ o.req \in Nat
    /\ o.queue \in Seq(Handlers) /\ o.inbox \in Seq(Segments) /\ o.buf \in Seq(Segments)
    /\ o.parts \in Seq(Parts)
    /\ o.out \in Seq([req : Nat, part : Parts, intact : BOOLEAN])

TypeOK ==
    /\ DOMAIN conn = Conns /\ \A c \in Conns : ConnType(conn[c])
    /\ service \in [Conns -> Services \cup {None}]
    /\ load \in Loads /\ sent \in [Conns -> Nat] /\ hung \in [Conns -> BOOLEAN]
    /\ kept \in BOOLEAN /\ undefined \in BOOLEAN
    /\ _nextIOService \in Services /\ _works \in BOOLEAN
    /\ ended \subseteq Services /\ main \in {"run", "stop", "done"} /\ joined \in 0..Size

\* A connection has at most one read or write under way, counting the completions whose
\* handlers have not run: reads and writes alternate although nothing but the order of
\* the handlers says so, and asio forbids two composed writes on a socket.
OneOperation ==
    \A c \in Conns :
        LET o == conn[c]
        IN  (IF o.reading THEN 1 ELSE 0) + (IF o.sending > 0 THEN 1 ELSE 0)
            + Cardinality({i \in DOMAIN o.queue : o.queue[i] \notin {"timeout", "aborted"}}) <= 1

\* process() clears m_read_buf after async_write_chunk(), which may have called start():
\* then the read it started is not one that can still fill the buffer.
NeverSpoiled == \A c \in Conns : ~conn[c].spoiled

\* Every open connection is watched by its timer, or will be at the end of start().
TimerCovers ==
    \A c \in Conns :
        conn[c].open => \/ conn[c].timer \/ conn[c].starting
                        \/ \E i \in DOMAIN conn[c].queue : conn[c].queue[i] = "timeout"

\* The client is sent whole answers in the order of its requests, the last one perhaps
\* cut off.  The header is in m_write_buf, which process() clears while it may still be
\* unsent: it is intact if the kernel had room for it at once.  And what is left of one
\* request is never taken for the next one, unless a read cut it off: it took a head
\* before all of its body, or a part of a head behind the request.
Follows(a, b) ==
    IF a.part = "header" /\ b.part = "file" THEN b.req = a.req
    ELSE IF b.part = "file" THEN a.part = "file" /\ b.req = a.req
    ELSE b.req > a.req

AnswersWhole ==
    \A c \in Conns :
        LET out == conn[c].out
            FileUnits(r) == Cardinality({i \in DOMAIN out : out[i] = [req |-> r, part |-> "file",
                                                                       intact |-> TRUE]})
        IN  /\ out # <<>> => out[1].part = "header"
            /\ \A i \in 1..Len(out) - 1 :
                  /\ Follows(out[i], out[i + 1])
                  /\ out[i + 1].part = "header" /\ out[i].part = "file"
                     => FileUnits(out[i].req) = FileSize
            /\ conn[c].blocked \/ \A i \in DOMAIN out : out[i].intact
            /\ conn[c].misread => conn[c].cut

\* No handler runs for an object that was deleted.  The handler of async_write() does not
\* hold the object: when the timer closes the connection during an answer, only a pointer
\* that CServer keeps saves it.
HandlersFindObject ==
    \A c \in Conns : ~conn[c].alive /\ ~conn[c].late => conn[c].queue = <<>>

\* A file is mapped only while its answer is being sent, as long as the connection is
\* open: do_request() never overwrites the address of a mapping.
MappedWhileSending ==
    \A c \in Conns : conn[c].mapped = "file" /\ conn[c].open => conn[c].parts # <<>>

\* Stop() does not return while a connection is open: each thread ends after the
\* connections of its io_context.
StopWaits ==
    \A c \in Conns : service[c] \in ended => ~conn[c].open /\ Idle(conn[c])

\* Reads and writes of a connection alternate, its timer watches it, its file is mapped
\* only for an answer, and Stop() waits for it.
ConnInv == TypeOK /\ OneOperation /\ NeverSpoiled /\ TimerCovers /\ MappedWhileSending /\ StopWaits

\* Every connection is closed once its client sends nothing more, whether that reads its
\* answers, hangs up or does nothing.
ConnectionsEnd ==
    \A c \in Conns : conn[c].open /\ Quiet(c) ~> ~conn[c].open \/ undefined

\* Stop() returns once no client with an open connection goes on sending.
StopReturns == main = "stop" /\ (\A c \in Conns : Quiet(c)) ~> main = "done" \/ undefined
=============================================================================
