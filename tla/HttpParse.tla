----------------------------- MODULE HttpParse -----------------------------
(***************************************************************************)
(* How one http_conn object reads requests: read_once() appends what has   *)
(* arrived to m_read_buf, and process_read() parses it line by line from   *)
(* where the last call stopped, whatever the segments the client's bytes   *)
(* arrive in; init() starts over for the next request of the connection.   *)
(*                                                                         *)
(* The text of a line, CR, LF and a byte of a body are one cell of the     *)
(* buffer each.  One step is one iteration of the loop of process_read().  *)
(***************************************************************************)
EXTENDS Integers, Sequences

CONSTANTS
    Requests,       \* what clients may ask: [line, eol, headers, body]
    LengthHeaders,  \* the headers Content-length: n, each with its n
    BufSize,        \* READ_BUFFER_SIZE
    NoRequest       \* the client waits for an answer or has nothing to ask

VARIABLES
    m_TRIGMode,        \* 1 edge-triggered, 0 level-triggered; chosen when the server starts
    request,           \* what the client is asking
    unsent,            \* cells of it not sent yet
    inbox,             \* received by the kernel, not read
    pc,                \* "armed" for EPOLLIN, "loop" in process_read(), "done", "closed"
    m_read_buf, m_read_idx, m_checked_idx, m_start_line,
    m_check_state, line_status,
    m_method, m_linger, m_content_length, m_string,
    ret,               \* what process_read() returned
    bodyCut            \* history: the body was sent in more than one segment

client == <<request, unsent, inbox, bodyCut>>
indices == <<m_read_buf, m_read_idx, m_checked_idx, m_start_line>>
parsed == <<m_method, m_linger, m_content_length, m_string>>
parseVars == <<m_TRIGMode, client, pc, indices, m_check_state, line_status, parsed, ret>>

CR == "\r"
LF == "\n"
NUL == "NUL"
Cells == {CR, LF, NUL, "get", "post", "put", "keep", "other", "x", "y"} \cup DOMAIN LengthHeaders

-----------------------------------------------------------------------------
(* A request as a client writes it, and what it means. *)

HeaderLines(h) ==
    [k \in 1..3 * Len(h) |-> IF k % 3 = 1 THEN h[(k - 1) \div 3 + 1]
                             ELSE IF k % 3 = 2 THEN CR ELSE LF]

Stream(r) == <<r.line>> \o r.eol \o HeaderLines(r.headers) \o <<CR, LF>> \o r.body

\* The length that the last Content-length among the first k headers gives.
Declared(h, k) ==
    LET given == {j \in 1..k : h[j] \in DOMAIN LengthHeaders}
    IN  IF given = {} THEN 0
        ELSE LengthHeaders[h[CHOOSE j \in given : \A i \in given : i <= j]]

\* The method and the end of the first line may be wrong; the body, which may hold line ends
\* of its own, is as long as the headers say.
ASSUME ParseParameters ==
    /\ BufSize \in Nat \ {0} /\ NoRequest \notin Requests
    /\ LengthHeaders \in [DOMAIN LengthHeaders -> Nat]
    /\ DOMAIN LengthHeaders \cap {CR, LF, NUL, "keep"} = {}
    /\ \A r \in Requests :
        /\ r.line \in {"get", "post", "put"}
        /\ r.eol \in {<<CR, LF>>, <<LF>>, <<CR, "x">>}
        /\ r.headers \in Seq({"keep", "other"} \cup DOMAIN LengthHeaders)
        /\ r.body \in Seq({"x", "y", CR, LF})
        /\ Len(r.body) = Declared(r.headers, Len(r.headers))

Meaning(r) ==
    IF r.line = "put" \/ r.eol # <<CR, LF>>
    THEN [code |-> "BAD_REQUEST", method |-> "GET", linger |-> FALSE, body |-> <<>>]
    ELSE [code |-> "GET_REQUEST",
          method |-> IF r.line = "post" THEN "POST" ELSE "GET",
          linger |-> \E i \in DOMAIN r.headers : r.headers[i] = "keep",
          body |-> r.body]

Outcome == [code |-> ret, method |-> m_method, linger |-> m_linger, body |-> m_string]

-----------------------------------------------------------------------------
MutantReset ==
    /\ m_read_buf' = [i \in 0..BufSize - 1 |-> NUL]
    /\ m_read_idx' = 0 /\ m_checked_idx' = 0 /\ m_start_line' = 0
    /\ m_check_state' = "REQUESTLINE"
    /\ m_method' = "GET" /\ m_content_length' = 0 /\ m_string' = <<>>
    /\ UNCHANGED m_linger

(* init(). *)
Reset ==
    /\ m_read_buf' = [i \in 0..BufSize - 1 |-> NUL]
    /\ m_read_idx' = 0 /\ m_checked_idx' = 0 /\ m_start_line' = 0
    /\ m_check_state' = "REQUESTLINE"
    /\ m_method' = "GET" /\ m_linger' = FALSE /\ m_content_length' = 0 /\ m_string' = <<>>

ParseInit ==
    /\ m_TRIGMode \in {0, 1}
    /\ request = NoRequest /\ unsent = <<>> /\ inbox = <<>> /\ bodyCut = FALSE
    /\ pc = "armed"
    /\ m_read_buf = [i \in 0..BufSize - 1 |-> NUL]
    /\ m_read_idx = 0 /\ m_checked_idx = 0 /\ m_start_line = 0
    /\ m_check_state = "REQUESTLINE" /\ line_status = "LINE_OK"
    /\ m_method = "GET" /\ m_linger = FALSE /\ m_content_length = 0 /\ m_string = <<>>
    /\ ret = "NO_REQUEST"

(* The client. *)
Ask(r) ==
    /\ request = NoRequest /\ pc = "armed"
    /\ request' = r /\ unsent' = Stream(r) /\ bodyCut' = FALSE
    /\ UNCHANGED <<m_TRIGMode, inbox, pc, indices, m_check_state, line_status, parsed, ret>>

Send(n) ==
    /\ pc # "closed"
    /\ n \in DOMAIN unsent
    /\ inbox' = inbox \o SubSeq(unsent, 1, n)
    /\ unsent' = SubSeq(unsent, n + 1, Len(unsent))
    /\ bodyCut' = (bodyCut \/ Len(unsent) - n \in 1..Len(request.body) - 1)
    /\ UNCHANGED <<m_TRIGMode, request, pc, indices, m_check_state, line_status, parsed, ret>>

\* Another connection is accepted at this descriptor.
Accept ==
    /\ pc = "closed"
    /\ pc' = "armed"
    /\ Reset
    /\ ret' = "NO_REQUEST" /\ line_status' = "LINE_OK"
    /\ request' = NoRequest /\ unsent' = <<>> /\ inbox' = <<>> /\ bodyCut' = FALSE
    /\ UNCHANGED m_TRIGMode

-----------------------------------------------------------------------------
\* What recv() takes.
Taken == IF Len(inbox) < BufSize - m_read_idx THEN Len(inbox) ELSE BufSize - m_read_idx

MutantReadSucceeds == m_read_idx + Taken + 1 < BufSize

\* LT reads once.  ET reads on until EAGAIN, and a recv() into no space gives 0.
ReadSucceeds ==
    /\ m_read_idx < BufSize
    /\ m_TRIGMode = 1 => m_read_idx + Taken < BufSize

(* EPOLLIN: read_once(), and process() if it succeeds; else the connection is closed. *)
Read ==
    /\ pc = "armed" /\ inbox # <<>>
    /\ m_read_buf' = [i \in 0..BufSize - 1 |->
                        IF i \in m_read_idx..(m_read_idx + Taken - 1)
                        THEN inbox[i - m_read_idx + 1] ELSE m_read_buf[i]]
    /\ m_read_idx' = m_read_idx + Taken
    /\ inbox' = SubSeq(inbox, Taken + 1, Len(inbox))
    /\ pc' = IF ReadSucceeds THEN "loop" ELSE "closed"
    /\ line_status' = "LINE_OK"
    /\ UNCHANGED <<m_TRIGMode, request, unsent, bodyCut, m_checked_idx, m_start_line, m_check_state, parsed, ret>>

\* What parse_line() makes of a CR or LF at i, and the m_checked_idx it leaves.
EndsLine(i) ==
    IF m_read_buf[i] = CR
    THEN CASE i + 1 = m_read_idx -> [status |-> "LINE_OPEN", at |-> i]
           [] i + 1 # m_read_idx /\ m_read_buf[i + 1] = LF -> [status |-> "LINE_OK", at |-> i + 2]
           [] OTHER -> [status |-> "LINE_BAD", at |-> i]
    ELSE IF i > 1 /\ m_read_buf[i - 1] = CR
         THEN [status |-> "LINE_OK", at |-> i + 1]
         ELSE [status |-> "LINE_BAD", at |-> i]

\* parse_line(): scan to the first CR or LF.
ParseLine ==
    LET ends == {i \in m_checked_idx..(m_read_idx - 1) : m_read_buf[i] \in {CR, LF}}
    IN  IF ends = {}
        THEN [status |-> "LINE_OPEN", at |-> m_read_idx]
        ELSE EndsLine(CHOOSE i \in ends : \A j \in ends : i <= j)

\* The condition of the loop, with parse_line() called only where && and || call it.
Line == IF m_check_state = "CONTENT" /\ line_status = "LINE_OK"
        THEN [status |-> "LINE_OK", at |-> m_checked_idx]
        ELSE ParseLine

\* The buffer with the CR and LF of that line made NUL, and the text of the line in it.
Ended == IF Line.at = m_checked_idx THEN m_read_buf
         ELSE [m_read_buf EXCEPT ![Line.at - 2] = NUL, ![Line.at - 1] = NUL]
Text == Ended[m_start_line]

\* The loop goes on with a complete line, and m_start_line with the next one.
TakeLine ==
    /\ pc = "loop" /\ Line.status = "LINE_OK"
    /\ m_checked_idx' = Line.at
    /\ m_start_line' = Line.at

Return(code) == pc' = "done" /\ ret' = code
Continue == line_status' = "LINE_OK" /\ UNCHANGED <<pc, ret>>

(* LINE_OPEN or LINE_BAD: NO_REQUEST, and process() arms EPOLLIN. *)
NeedMore ==
    /\ pc = "loop" /\ Line.status # "LINE_OK"
    /\ m_checked_idx' = Line.at
    /\ pc' = "armed" /\ ret' = "NO_REQUEST" /\ line_status' = Line.status
    /\ UNCHANGED <<m_TRIGMode, client, m_read_buf, m_read_idx, m_start_line, m_check_state, parsed>>

(* parse_request_line(). *)
RequestLine ==
    /\ m_check_state = "REQUESTLINE"
    /\ TakeLine
    /\ IF Text \in {"get", "post"}
       THEN /\ m_method' = IF Text = "post" THEN "POST" ELSE "GET"
            /\ m_check_state' = "HEADER"
            /\ Continue
       ELSE Return("BAD_REQUEST") /\ UNCHANGED <<m_method, m_check_state, line_status>>
    /\ m_read_buf' = Ended
    /\ UNCHANGED <<m_TRIGMode, client, m_read_idx, m_linger, m_content_length, m_string>>

(* parse_headers(), a header. *)
Header ==
    /\ m_check_state = "HEADER"
    /\ TakeLine
    /\ Text # NUL
    /\ m_linger' = (m_linger \/ Text = "keep")
    /\ m_content_length' = IF Text \in DOMAIN LengthHeaders THEN LengthHeaders[Text]
                           ELSE m_content_length
    /\ Continue
    /\ m_read_buf' = Ended
    /\ UNCHANGED <<m_TRIGMode, client, m_read_idx, m_check_state, m_method, m_string>>

(* parse_headers(), the empty line. *)
EndOfHeaders ==
    /\ m_check_state = "HEADER"
    /\ TakeLine
    /\ Text = NUL
    /\ IF m_content_length # 0
       THEN m_check_state' = "CONTENT" /\ Continue
       ELSE Return("GET_REQUEST") /\ UNCHANGED <<m_check_state, line_status>>
    /\ m_read_buf' = Ended
    /\ UNCHANGED <<m_TRIGMode, client, m_read_idx, parsed>>

MutantBodyComplete == m_read_idx > m_content_length + Line.at
BodyComplete == m_read_idx >= m_content_length + Line.at

(* parse_content(); the byte after the body becomes NUL.  With the buffer full it is the
   byte after m_read_buf, the low byte of m_read_idx, which is 0 as it is. *)
Content ==
    /\ m_check_state = "CONTENT"
    /\ TakeLine
    /\ LET after == m_start_line + m_content_length
       IN  IF BodyComplete
           THEN /\ m_read_buf' = IF after < BufSize THEN [Ended EXCEPT ![after] = NUL] ELSE Ended
                /\ m_string' = [i \in 1..m_content_length |-> Ended[m_start_line + i - 1]]
                /\ Return("GET_REQUEST")
                /\ UNCHANGED line_status
           ELSE /\ m_read_buf' = Ended
                /\ line_status' = "LINE_OPEN"
                /\ UNCHANGED <<m_string, pc, ret>>
    /\ UNCHANGED <<m_TRIGMode, client, m_read_idx, m_check_state, m_method, m_linger, m_content_length>>

ProcessRead == NeedMore \/ RequestLine \/ Header \/ EndOfHeaders \/ Content

(* The answer is sent: write() calls init() and arms EPOLLIN, or the connection is closed. *)
Answered ==
    /\ pc = "done"
    /\ IF m_linger
       THEN /\ pc' = "armed" /\ ret' = "NO_REQUEST"
            /\ Reset
            /\ request' = NoRequest
            /\ UNCHANGED <<unsent, inbox, bodyCut>>
       ELSE pc' = "closed" /\ UNCHANGED <<client, indices, m_check_state, parsed, ret>>
    /\ UNCHANGED <<m_TRIGMode, line_status>>

(* EPOLLRDHUP, or the timer of the connection: it is closed. *)
HangUp ==
    /\ pc = "armed"
    /\ pc' = "closed"
    /\ UNCHANGED <<m_TRIGMode, client, indices, m_check_state, line_status, parsed, ret>>

ParseNext == \/ \E r \in Requests : Ask(r)
             \/ \E n \in DOMAIN unsent : Send(n)
             \/ Accept
             \/ Read
             \/ ProcessRead
             \/ Answered
             \/ HangUp

ParseSpec == ParseInit /\ [][ParseNext]_parseVars

(* The server handles what epoll reports and its loops run. *)
ParseFairSpec == ParseSpec /\ WF_parseVars(Read) /\ WF_parseVars(ProcessRead)

-----------------------------------------------------------------------------
ParseTypeOK ==
    /\ m_TRIGMode \in {0, 1} /\ bodyCut \in BOOLEAN
    /\ request \in Requests \cup {NoRequest}
    /\ unsent \in Seq(Cells) /\ inbox \in Seq(Cells)
    /\ pc \in {"armed", "loop", "done", "closed"}
    /\ m_read_buf \in [0..BufSize - 1 -> Cells]
    /\ m_read_idx \in 0..BufSize
    /\ m_checked_idx \in 0..m_read_idx /\ m_start_line \in 0..m_checked_idx
    /\ m_check_state \in {"REQUESTLINE", "HEADER", "CONTENT"}
    /\ line_status \in {"LINE_OK", "LINE_BAD", "LINE_OPEN"}
    /\ m_method \in {"GET", "POST"} /\ m_linger \in BOOLEAN
    /\ m_content_length \in Nat /\ m_string \in Seq(Cells)
    /\ ret \in {"NO_REQUEST", "GET_REQUEST", "BAD_REQUEST"}

\* However the bytes of a request are cut into segments, process_read() ends with what
\* the whole request means, and nothing of an earlier request of the connection is left
\* in it.
SameAsWhole == pc = "done" => Outcome = Meaning(request)

\* A well-formed request whose body comes in one segment.  Of any other the server may
\* wait for more although it has all of it: after LINE_BAD, and when parse_line() has
\* scanned the first part of a body.
Plain == request # NoRequest /\ request.eol = <<CR, LF>> /\ ~bodyCut

\* NO_REQUEST is returned for an incomplete request only: the server does not wait for
\* more of a plain request that it has read to the end.
WaitsForMoreOnly == pc = "armed" /\ Plain => unsent # <<>> \/ inbox # <<>>

\* Verdicts, waiting and the order of the indices, however the bytes are cut.
ParseInv == ParseTypeOK /\ SameAsWhole /\ WaitsForMoreOnly

\* A read closes the connection only when the request does not fit in m_read_buf, which
\* in ET mode must keep one byte free.
ClosedIfTooLong ==
    [][Read /\ pc' = "closed" => Len(Stream(request)) >= BufSize + 1 - m_TRIGMode]_parseVars

\* A plain request that the client has sent to its end is answered, or its connection closed.
EveryRequestEnds == Plain /\ unsent = <<>> ~> pc \in {"done", "closed"}
=============================================================================
