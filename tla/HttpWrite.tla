----------------------------- MODULE HttpWrite -----------------------------
(***************************************************************************)
(* How one http_conn object sends its answers: do_request() maps a file,   *)
(* process_write() puts the header (or the header and an error page) in    *)
(* m_write_buf and fills m_iv, and write() sends them with writev() as the *)
(* socket buffer has room, over any number of requests and connections.    *)
(*                                                                         *)
(* A byte is known by its place in the answer.  What a wrong iov would     *)
(* read outside the mapped file is the byte Garbage.                       *)
(*                                                                         *)
(* The version of chap.5/ differs in three places: init() clears the rest  *)
(* of the object as well, m_iv advances otherwise, and there is a 404 page.*)
(***************************************************************************)
EXTENDS Integers, Sequences

CONSTANTS
    Versions,    \* of the code: among "Webserver" and "chap.5"
    Files,       \* files that can be asked for
    Size,        \* Size[f]: st_size of f
    HeaderLen,   \* m_write_idx of an answer
    RoomMax,     \* the size of the socket buffer
    KeepAlive,   \* values of m_linger that the requests ask for
    NoFile       \* m_file_address = 0

ASSUME Parameters ==
    /\ Versions \subseteq {"Webserver", "chap.5"}
    /\ Size \in [Files -> Nat \ {0}]
    /\ HeaderLen \in Nat \ {0} /\ RoomMax \in Nat \ {0}
    /\ KeepAlive \subseteq BOOLEAN
    /\ NoFile \notin Files

VARIABLES
    version,          \* the one that runs
    pc,               \* "closed", "reading", "blocked" with EPOLLOUT armed, "writing" in write()
    iv0, iv1,         \* m_iv: the place of the first byte, and the length
    m_iv_count,
    bytes_to_send, bytes_have_send,
    m_file_address,   \* the file mapped there
    st_size,          \* m_file_stat.st_size
    m_linger,
    room,             \* free space in the socket buffer
    sent,             \* history: the bytes of this answer given to the kernel
    cut,              \* history: the mapping was left behind by a connection that ended
    cuts              \* history: the places in the header at which writev() calls ended

iov == <<iv0, iv1, m_iv_count, bytes_to_send, bytes_have_send>>
file == <<m_file_address, st_size>>
history == <<sent, cut, cuts>>
vars == <<version, pc, iov, file, m_linger, room, history>>

Garbage == -1

NoPart == [base |-> 0, len |-> 0]

Init ==
    /\ version \in Versions
    /\ pc = "closed"
    /\ iv0 = NoPart /\ iv1 = NoPart
    /\ m_iv_count = 0 /\ bytes_to_send = 0 /\ bytes_have_send = 0
    /\ m_file_address = NoFile /\ st_size = 0
    /\ m_linger = FALSE /\ room = 0
    /\ sent = <<>> /\ cut = FALSE /\ cuts = <<>>

-----------------------------------------------------------------------------
MutantAccept ==
    /\ pc = "closed"
    /\ pc' = "reading"
    /\ room' = RoomMax
    /\ bytes_to_send' = 0 /\ m_linger' = FALSE
    /\ UNCHANGED <<version, iv0, iv1, m_iv_count, bytes_have_send, file, history>>

(* init() in chap.5: bzero() goes on over the members behind m_write_buf. *)
ClearRest ==
    /\ iv0' = NoPart /\ iv1' = NoPart /\ m_iv_count' = 0
    /\ m_file_address' = NoFile /\ st_size' = 0

(* A new connection at this descriptor: init() clears the counters, not the mapping. *)
Accept ==
    /\ pc = "closed"
    /\ pc' = "reading"
    /\ room' = RoomMax
    /\ bytes_to_send' = 0 /\ bytes_have_send' = 0 /\ m_linger' = FALSE
    /\ IF version = "chap.5" THEN ClearRest ELSE UNCHANGED <<iv0, iv1, m_iv_count, file>>
    /\ UNCHANGED <<version, history>>

\* process_write() and the modfd() after it.
Answer(toSend, count) ==
    /\ iv0' = [base |-> 0, len |-> HeaderLen]
    /\ m_iv_count' = count
    /\ bytes_to_send' = toSend
    /\ sent' = <<>> /\ cuts' = <<>>
    /\ pc' = "blocked"
    /\ \E keep \in KeepAlive : m_linger' = keep
    /\ UNCHANGED <<version, bytes_have_send, room>>

(* FILE_REQUEST: stat() and mmap(). *)
AnswerFile(f) ==
    /\ pc = "reading"
    /\ m_file_address' = f /\ st_size' = Size[f] /\ cut' = FALSE
    /\ iv1' = [base |-> 0, len |-> Size[f]]
    /\ Answer(HeaderLen + Size[f], 2)

MutantForbidden(f) ==
    /\ pc = "reading"
    /\ m_file_address' = f
    /\ Answer(HeaderLen, 1)
    /\ UNCHANGED <<iv1, st_size, cut>>

(* FORBIDDEN_REQUEST, or BAD_REQUEST for a directory: stat() only, and an error page. *)
AnswerForbidden(f) ==
    /\ pc = "reading"
    /\ st_size' = Size[f]
    /\ Answer(HeaderLen, 1)
    /\ UNCHANGED <<iv1, m_file_address, cut>>

(* BAD_REQUEST by the parser, in chap.5 NO_RESOURCE too: an error page. *)
AnswerBad ==
    /\ pc = "reading"
    /\ Answer(HeaderLen, 1)
    /\ UNCHANGED <<iv1, file, cut>>

(* NO_RESOURCE in Webserver, or an empty file: process_write() refuses and process() closes
   the connection. *)
NoAnswer ==
    /\ pc = "reading"
    /\ pc' = "closed"
    /\ UNCHANGED <<version, iov, file, m_linger, room, history>>

Resume ==
    /\ pc = "blocked" /\ room > 0
    /\ pc' = "writing"
    /\ UNCHANGED <<version, iov, file, m_linger, room, history>>

Bytes(v, firstOfFile) ==
    [i \in 1..v.len |->
        LET place == v.base + i - 1
        IN  IF place < 0 THEN Garbage ELSE firstOfFile + place]

\* What m_iv describes.
Offered == Bytes(iv0, 0) \o (IF m_iv_count = 2 THEN Bytes(iv1, HeaderLen) ELSE <<>>)

Unmap == m_file_address' = NoFile

MutantAdvance(have, n) ==
    /\ iv1' = IF have >= iv0.len THEN [base |-> have, len |-> bytes_to_send - n] ELSE iv1
    /\ iv0' = IF have >= iv0.len THEN [iv0 EXCEPT !.len = 0]
              ELSE [base |-> have, len |-> iv0.len - n]

MutantAdvanceLost(have, n) ==
    /\ iv1' = IF have >= iv0.len THEN [base |-> have - HeaderLen, len |-> 0] ELSE iv1
    /\ iv0' = IF have >= iv0.len THEN [iv0 EXCEPT !.len = 0]
              ELSE [base |-> have, len |-> iv0.len - n]

\* The update of m_iv after n more bytes, have in all.
Advance(have, n) ==
    LET taken == IF version = "chap.5" THEN n ELSE have
    IN  IF have >= iv0.len
        THEN /\ iv0' = [iv0 EXCEPT !.len = 0]
             /\ iv1' = [base |-> have - HeaderLen, len |-> bytes_to_send - n]
        ELSE /\ iv0' = [base |-> have, len |-> iv0.len - taken]
             /\ UNCHANGED iv1

Advanced(have, n) ==
    /\ Advance(have, n)
    /\ bytes_have_send' = have /\ bytes_to_send' = bytes_to_send - n
    /\ UNCHANGED m_iv_count

(* All is sent and the connection is kept: unmap() and init(). *)
Kept(have, n) ==
    /\ pc' = "reading" /\ bytes_to_send' = 0 /\ bytes_have_send' = 0 /\ m_linger' = FALSE
    /\ IF version = "chap.5" THEN ClearRest
       ELSE Advance(have, n) /\ Unmap /\ UNCHANGED <<m_iv_count, st_size>>

(* writev() took n bytes: as much as there is room for. *)
Writev ==
    /\ pc = "writing"
    /\ room > 0 \/ Offered = <<>>
    /\ LET n == IF Len(Offered) < room THEN Len(Offered) ELSE room
           have == bytes_have_send + n
       IN  /\ sent' = sent \o SubSeq(Offered, 1, n)
           /\ cuts' = IF n > 0 /\ Len(sent) + n < HeaderLen THEN Append(cuts, have) ELSE cuts
           /\ cut' = (cut /\ bytes_to_send > n)
           /\ room' = room - n
           /\ \/ /\ bytes_to_send > n /\ Advanced(have, n)
                 /\ UNCHANGED <<pc, file, m_linger>>
              \/ bytes_to_send <= n /\ m_linger /\ Kept(have, n)
              \/ /\ bytes_to_send <= n /\ ~m_linger /\ Advanced(have, n) /\ Unmap
                 /\ pc' = "closed"
                 /\ UNCHANGED <<st_size, m_linger>>
    /\ UNCHANGED version

(* EAGAIN: modfd(EPOLLOUT). *)
Again ==
    /\ pc = "writing"
    /\ room = 0 /\ Offered # <<>>
    /\ pc' = "blocked"
    /\ UNCHANGED <<version, iov, file, m_linger, room, history>>

(* Another error: unmap(), and the caller closes the connection. *)
WritevFails ==
    /\ pc = "writing"
    /\ Unmap
    /\ cut' = FALSE
    /\ pc' = "closed"
    /\ UNCHANGED <<version, iov, st_size, m_linger, room, sent, cuts>>

(* EPOLLRDHUP, or tick(): cb_func() closes the descriptor, nothing is unmapped. *)
HangUp ==
    /\ pc \in {"reading", "blocked"}
    /\ pc' = "closed"
    /\ cut' = (m_file_address # NoFile)
    /\ UNCHANGED <<version, iov, file, m_linger, room, sent, cuts>>

(* The client reads some of what the kernel holds for it. *)
Drain ==
    /\ pc # "closed"
    /\ room' \in (room + 1)..RoomMax
    /\ UNCHANGED <<version, pc, iov, file, m_linger, history>>

Next == \/ Accept
        \/ \E f \in Files : AnswerFile(f) \/ AnswerForbidden(f)
        \/ AnswerBad
        \/ NoAnswer
        \/ Resume
        \/ Writev
        \/ Again
        \/ WritevFails
        \/ HangUp
        \/ Drain

Spec == Init /\ [][Next]_vars

(* The thread in write() runs; clients promise nothing. *)
FairSpec == Spec /\ WF_vars(Writev \/ Again)

-----------------------------------------------------------------------------
Sending == pc \in {"blocked", "writing"}

TypeOK ==
    /\ version \in Versions
    /\ pc \in {"closed", "reading", "blocked", "writing"}
    /\ iv0 \in [base : Nat, len : Nat] /\ iv1 \in [base : Int, len : Nat]
    /\ m_iv_count \in {0, 1, 2}
    /\ bytes_to_send \in Nat /\ bytes_have_send \in Nat
    /\ m_file_address \in Files \cup {NoFile} /\ st_size \in Nat
    /\ m_linger \in BOOLEAN /\ room \in 0..RoomMax
    /\ sent \in Seq(Nat \cup {Garbage})
    /\ cut \in BOOLEAN /\ cuts \in Seq(Nat)

\* The update of m_iv is right if the header went out in at most two writev() calls or, in
\* chap.5, if the calls before the last took no more than half of it.
FewCuts == Len(cuts) <= 1 \/ (version = "chap.5" /\ 2 * cuts[Len(cuts)] <= HeaderLen)

\* Then the client gets the bytes of the answer in order and nothing else, however the
\* socket buffer cuts the writev() calls.
RightBytes == FewCuts => \A i \in DOMAIN sent : sent[i] = i - 1

\* The bytes sent and the bytes to send make up the answer, and what m_iv still offers
\* is what bytes_to_send counts: an answer whose bytes_to_send is used up has been
\* sent to its end.
Total == HeaderLen + (IF m_iv_count = 2 THEN st_size ELSE 0)
CountsAnswer ==
    Sending /\ FewCuts =>
        /\ Len(sent) = bytes_have_send
        /\ bytes_have_send + bytes_to_send = Total
        /\ Len(Offered) = bytes_to_send

\* The second part of m_iv lies in a file that is still mapped.
MappedWhileSending ==
    Sending /\ m_iv_count = 2 /\ FewCuts =>
        /\ m_file_address # NoFile
        /\ iv1.base >= 0 /\ iv1.base + iv1.len <= Size[m_file_address]

\* The counters, m_iv and the mapping describe one answer.
AnswerInv == TypeOK /\ CountsAnswer /\ MappedWhileSending

\* Every mapping ends by a munmap() with the length that its mmap() had: none is replaced
\* by the mapping of another file.  (One that an earlier connection left behind is lost,
\* or unmapped with the length of another file.)
MappingsEnd ==
    [][m_file_address # NoFile /\ ~cut =>
          \/ m_file_address' = m_file_address
          \/ m_file_address' = NoFile /\ st_size = Size[m_file_address]]_vars

\* write() returns: its loop ends by EAGAIN, by an error or when all is sent.
WriteReturns == pc = "writing" ~> pc # "writing" \/ ~FewCuts
=============================================================================
