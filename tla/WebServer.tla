----------------------------- MODULE WebServer -----------------------------
(***************************************************************************)
(* The server of Webserver/: the main thread in WebServer::eventLoop(),    *)
(* the worker threads in threadpool::run(), the http_conn objects they     *)
(* share (users[fd]), the timers, and the kernel objects between them      *)
(* and the clients: the listening socket, the connected sockets, the epoll *)
(* table with EPOLLONESHOT, the signal pipe and alarm().                   *)
(*                                                                         *)
(* A request is abstracted to the segments it arrives in and an answer to  *)
(* the pieces it is sent in; what process() makes of a request is a choice *)
(* (Outcomes).  The request queue is the one ThreadPool.tla implements and *)
(* the timer list the one TimerList.tla implements.                        *)
(***************************************************************************)
EXTENDS Integers, Sequences, FiniteSets

CONSTANTS
    Conns,        \* client connections, each made once
    Fds,          \* descriptors accept() can return
    Workers,      \* threads of the pool
    None,         \* no connection, no descriptor; m_sockfd = -1
    MaxFd,        \* MAX_FD, the bound on m_user_count
    MaxRequests,  \* m_max_requests
    Modes,        \* what the command line may ask for: m_actormodel and the trigger modes
    Life,         \* 3*TIMESLOT, in units of TIMESLOT
    Outcomes,     \* of process(): "more" NO_REQUEST, "answer", "fail" process_write() false
    KeepAlive,    \* values of m_linger that the requests ask for
    Prompt,       \* a request is handled before its connection's timer expires
    TermAfter,    \* bound: SIGTERM arrives when so many clients have come
    Segments,     \* bound: segments each client sends
    BufSize,      \* READ_BUFFER_SIZE, in segments
    AnswerSizes,  \* pieces an answer may have; the socket buffer holds one
    Stdin,        \* descriptor 0, which is not a socket
    Overrun       \* Overrun[fd]: descriptors of the objects that init() of users[fd] writes
                  \* over: none, but in chap.5 that of the next object in the array

ASSUME Parameters ==
    /\ MaxFd \in Nat \ {0} /\ MaxRequests \in Nat \ {0} /\ Life \in Nat \ {0}
    /\ Segments \in [Conns -> Nat] /\ BufSize \in Nat \ {0} /\ AnswerSizes \subseteq Nat \ {0}
    /\ Modes \subseteq [actormodel : {0, 1}, LISTENTrigmode : {0, 1}, CONNTrigmode : {0, 1}]
    /\ Prompt \in BOOLEAN /\ TermAfter \subseteq Nat
    /\ Outcomes \subseteq {"more", "answer", "fail"} /\ KeepAlive \subseteq BOOLEAN
    /\ Overrun \in [Fds -> SUBSET Fds]
    /\ None \notin Conns \cup Fds /\ Stdin \notin Fds

VARIABLES
    mode,          \* the configuration the server was started with
    \* clients and kernel
    phase,         \* phase[c]: "new", "open" or "shut" by the client
    budget,        \* budget[c]: segments c may still send
    inbox,         \* inbox[c]: segments received by the kernel, not read
    room,          \* room[c]: free space in the send buffer towards c
    backlog,       \* connections waiting for accept()
    edge,          \* edge-triggered event of the listening socket is pending
    sock,          \* sock[fd]: the connection open at fd
    interest,      \* interest[fd]: "none" not in epoll, "off" oneshot spent, "in", "out"
    alarm,         \* alarm(): "off", "armed", "due"
    pipe,          \* signals written to m_pipefd[1] and not read
    \* objects of the server
    users,         \* users[fd]: the http_conn object
    m_user_count,  \* http_conn::m_user_count
    live, left,    \* utils.m_timer_lst, see TimerSet
    timerFd,       \* timerFd[c]: timer->user_data of the timer made for c
    userTimer,     \* userTimer[fd]: users_timer[fd].timer, named by the connection it was made for
    m_workqueue,   \* requests in the pool: descriptors for users+fd
    \* threads
    worker,        \* worker[w]: where w is, the request, what it read
    mpc,           \* where the main thread is
    batch,         \* events of the last epoll_wait() not yet handled
    spinFd,        \* the request the main thread waits for in the reactor
    timeout, stop_server,
    \* history
    missed,        \* reactor: the main thread once read timer_flag before the worker set it
    answered,      \* pairs <<whose request, who was sent the answer>>
    turnedAway     \* the server was once short of descriptors or busy while a client waited

net == <<phase, budget, inbox, room, backlog, edge>>
epoll == <<sock, interest>>
timers == <<live, left, timerFd, userTimer>>
signals == <<alarm, pipe, timeout, stop_server>>
loop == <<mpc, batch, spinFd>>
vars == <<mode, net, epoll, timers, signals, loop, users, m_user_count, m_workqueue, worker,
          answered, missed, turnedAway>>

TS == INSTANCE TimerSet WITH Timers <- Conns

Reactor == mode.actormodel = 1
ListenET == mode.LISTENTrigmode = 1
ConnET == mode.CONNTrigmode = 1

ListenEvent == [kind |-> "listen", fd |-> None]
SignalEvent == [kind |-> "signal", fd |-> None]
Event(kind, fd) == [kind |-> kind, fd |-> fd]

(* The Mutant operators below are plausible mistakes in the definition that follows
   them: each makes a property of this module fail. *)

Least(a, b) == IF a < b THEN a ELSE b

(* http_conn::init(): everything but m_sockfd is cleared. *)
Cleared(u) == [u EXCEPT !.got = 0, !.src = None, !.out = 0, !.osrc = None,
                        !.linger = FALSE, !.state = 0, !.timer_flag = 0, !.improv = 0]

NewUser == [sockfd |-> None,  \* m_sockfd
            got |-> 0,        \* m_read_idx, in segments
            src |-> None,     \* whose bytes m_read_buf holds
            out |-> 0,        \* bytes_to_send, in pieces
            osrc |-> None,    \* whose request the answer in m_write_buf is for
            linger |-> FALSE, state |-> 0, timer_flag |-> 0, improv |-> 0]

Idle == [pc |-> "idle", fd |-> None, src |-> None, load |-> 0]

Init ==
    /\ mode \in Modes
    /\ phase = [c \in Conns |-> "new"]
    /\ budget = Segments
    /\ inbox = [c \in Conns |-> 0]
    /\ room = [c \in Conns |-> 1]
    /\ backlog = {} /\ edge = FALSE
    /\ sock = [fd \in Fds |-> None]
    /\ interest = [fd \in Fds |-> "none"]
    /\ alarm = "armed" /\ pipe = {}
    /\ users = [fd \in Fds |-> NewUser]
    /\ m_user_count = 0
    /\ TS!Init
    /\ timerFd = [c \in Conns |-> None]
    /\ userTimer = [fd \in Fds |-> None]
    /\ m_workqueue = <<>>
    /\ worker = [w \in Workers |-> Idle]
    /\ mpc = "wait" /\ batch = {} /\ spinFd = None
    /\ timeout = FALSE /\ stop_server = FALSE
    /\ answered = {} /\ missed = FALSE /\ turnedAway = FALSE

-----------------------------------------------------------------------------
(* Clients and the kernel's side of their sockets. *)

\* What clients do after main() has returned is left out.
Running == mpc # "stopped"

Connect(c) ==
    /\ Running
    /\ phase[c] = "new"
    /\ phase' = [phase EXCEPT ![c] = "open"]
    /\ backlog' = backlog \cup {c}
    /\ edge' = TRUE
    /\ UNCHANGED <<mode, missed, turnedAway, budget, inbox, room, epoll, timers, signals, loop,
                   users, m_user_count, m_workqueue, worker, answered>>

Connected(c) == c \in backlog \/ \E fd \in Fds : sock[fd] = c

Send(c) ==
    /\ Running /\ phase[c] = "open" /\ Connected(c) /\ budget[c] > 0
    /\ budget' = [budget EXCEPT ![c] = @ - 1]
    /\ inbox' = [inbox EXCEPT ![c] = @ + 1]
    /\ UNCHANGED <<mode, missed, turnedAway, phase, room, backlog, edge, epoll, timers,
                   signals, loop, users, m_user_count, m_workqueue, worker, answered>>

Shut(c) ==
    /\ Running /\ phase[c] = "open" /\ Connected(c)
    /\ phase' = [phase EXCEPT ![c] = "shut"]
    /\ UNCHANGED <<mode, missed, turnedAway, budget, inbox, room, backlog, edge, epoll, timers,
                   signals, loop, users, m_user_count, m_workqueue, worker, answered>>

Drain(c) ==
    /\ Running /\ phase[c] = "open" /\ Connected(c) /\ room[c] = 0
    /\ room' = [room EXCEPT ![c] = 1]
    /\ UNCHANGED <<mode, missed, turnedAway, phase, budget, inbox, backlog, edge, epoll,
                   timers, signals, loop, users, m_user_count, m_workqueue, worker, answered>>

(* modfd(m_epollfd, m_sockfd, ev): fails when m_sockfd is -1, 0 or not registered. *)
Modfd(inter, s, ev) ==
    IF s \notin Fds \/ inter[s] = "none" THEN inter ELSE [inter EXCEPT ![s] = ev]

(* The descriptors of a set are removed from epoll and closed. *)
CloseAll(S) ==
    /\ sock' = [fd \in Fds |-> IF fd \in S THEN None ELSE sock[fd]]
    /\ interest' = [fd \in Fds |-> IF fd \in S THEN "none" ELSE interest[fd]]

-----------------------------------------------------------------------------
(* Time and signals. *)

Busy(fd) == \/ \E w \in Workers : worker[w].fd = fd
            \/ \E i \in DOMAIN m_workqueue : m_workqueue[i] = fd
            \/ \E e \in batch : e.fd = fd
            \/ spinFd = fd

(* One TIMESLOT passes.  With Prompt, handlers are quicker than the timers. *)
Clock ==
    /\ Running
    /\ Prompt => \A fd \in Fds : Busy(fd) /\ sock[fd] # None => left[userTimer[fd]] > 1
    /\ TS!Pass
    /\ alarm' = IF alarm = "armed" THEN "due" ELSE alarm
    /\ UNCHANGED <<mode, missed, turnedAway, net, epoll, timerFd, userTimer, pipe, timeout,
                   stop_server, loop, users, m_user_count, m_workqueue, worker, answered>>

(* sig_handler(): the signal number is sent through the pipe. *)
SigAlrm ==
    /\ Running
    /\ alarm = "due"
    /\ alarm' = "off"
    /\ pipe' = pipe \cup {"ALRM"}
    /\ UNCHANGED <<mode, missed, turnedAway, net, epoll, timers, timeout, stop_server, loop,
                   users, m_user_count, m_workqueue, worker, answered>>

SigTerm ==
    /\ Running
    /\ Cardinality({c \in Conns : phase[c] # "new"}) \in TermAfter
    /\ pipe' = pipe \cup {"TERM"}
    /\ UNCHANGED <<mode, missed, turnedAway, net, epoll, timers, alarm, timeout, stop_server,
                   loop, users, m_user_count, m_workqueue, worker, answered>>
-----------------------------------------------------------------------------
(* http_conn::read_once() and write(), run by the main thread in the proactor and
   by a worker in the reactor. *)

\* The connection at the descriptor the object believes it owns.
Peer(fd) == IF users[fd].sockfd \notin Fds THEN None ELSE sock[users[fd].sockfd]

\* The objects when users[fd] has become u, with or without a call of init().
Put(fd, u, init) ==
    [g \in Fds |-> IF g = fd THEN u
                   ELSE IF init /\ g \in Overrun[fd] THEN [users[g] EXCEPT !.sockfd = Stdin]
                   ELSE users[g]]

\* What recv() gives: the bytes present, as far as the buffer has room.
Readable(fd) == IF Peer(fd) = None THEN 0 ELSE Least(inbox[Peer(fd)], BufSize - users[fd].got)

\* LT reads once and fails on an empty socket.  ET reads up to EAGAIN and fails on
\* the end of the stream, or when recv() is left with a buffer of length 0.
ReadSucceeds(fd) ==
    /\ users[fd].got < BufSize
    /\ Peer(fd) # None
    /\ IF ConnET THEN phase[Peer(fd)] # "shut" /\ users[fd].got + Readable(fd) < BufSize
                 ELSE Readable(fd) > 0

AfterRead(fd) == [users[fd] EXCEPT !.got = @ + Readable(fd),
                                   !.src = IF Readable(fd) > 0 THEN Peer(fd) ELSE @]

ReadInbox(fd) ==
    inbox' = IF Peer(fd) = None THEN inbox ELSE [inbox EXCEPT ![Peer(fd)] = @ - Readable(fd)]

\* write(): the outcomes, with the object afterwards, whether init() was called, the event
\* modfd() asks for ("keep": no call) and the pieces sent.  Descriptor 0 may be a terminal,
\* a file or a pipe: writev() fails there, or any part of the answer goes to it.
Writes(fd) ==
    LET u == users[fd]
        failed == [ok |-> FALSE, user |-> u, init |-> FALSE, ev |-> "keep", sent |-> 0]
        wrote(n, sent) ==
            IF n < u.out
            THEN [ok |-> TRUE, user |-> [u EXCEPT !.out = @ - n], init |-> FALSE,
                  ev |-> "out", sent |-> sent]
            ELSE [ok |-> u.linger, user |-> IF u.linger THEN Cleared(u) ELSE [u EXCEPT !.out = 0],
                  init |-> u.linger, ev |-> "in", sent |-> sent]
        taken == Least(u.out, room[Peer(fd)])
    IN  IF u.out = 0
        THEN {[ok |-> TRUE, user |-> Cleared(u), init |-> TRUE, ev |-> "in", sent |-> 0]}
        ELSE IF Peer(fd) = None
        THEN {failed} \cup {wrote(n, 0) : n \in {m \in 0..u.out : u.sockfd = Stdin}}
        ELSE (IF phase[Peer(fd)] = "shut" THEN {failed} ELSE {}) \cup {wrote(taken, taken)}

Sent(fd, n) ==
    /\ room' = IF n = 0 THEN room ELSE [room EXCEPT ![Peer(fd)] = @ - n]
    /\ answered' = IF n = 0 THEN answered
                   ELSE answered \cup {<<users[fd].osrc, Peer(fd)>>}

AfterWrite(fd, ev) == IF ev = "keep" THEN interest ELSE Modfd(interest, users[fd].sockfd, ev)

-----------------------------------------------------------------------------
(* The main thread: eventLoop() and the functions it calls. *)

\* A oneshot registration reports an event once; EPOLLRDHUP goes with every interest.
Occurred(fd) ==
    \/ interest[fd] \in {"in", "out"} /\ phase[sock[fd]] = "shut"
    \/ interest[fd] = "in" /\ inbox[sock[fd]] > 0
    \/ interest[fd] = "out" /\ room[sock[fd]] > 0

Ready ==
    {Event(IF phase[sock[fd]] = "shut" THEN "hup" ELSE interest[fd], fd) :
        fd \in {f \in Fds : Occurred(f)}}
    \cup (IF (IF ListenET THEN edge ELSE backlog # {}) THEN {ListenEvent} ELSE {})
    \cup (IF pipe # {} THEN {SignalEvent} ELSE {})

MutantOneshot == interest
Oneshot == [fd \in Fds |-> IF Occurred(fd) THEN "off" ELSE interest[fd]]

EpollWait ==
    /\ mpc = "wait"
    /\ Ready # {}
    /\ batch' = Ready
    /\ interest' = Oneshot
    /\ edge' = FALSE
    /\ mpc' = "batch"
    /\ UNCHANGED <<mode, missed, turnedAway, phase, budget, inbox, room, backlog, sock, timers,
                   signals, spinFd, users, m_user_count, m_workqueue, worker, answered>>

MutantNoDecrement(fd) ==
    /\ CloseAll({fd})
    /\ TS!Del(userTimer[fd])
    /\ UNCHANGED <<timerFd, userTimer, m_user_count>>

MutantTimerKept(fd) ==
    /\ CloseAll({fd})
    /\ m_user_count' = m_user_count - 1
    /\ UNCHANGED timers

(* deal_timer(): cb_func() closes the descriptor, then the timer is deleted. *)
DealTimer(fd) ==
    /\ CloseAll({fd})
    /\ m_user_count' = m_user_count - 1
    /\ TS!Del(userTimer[fd])
    /\ UNCHANGED <<timerFd, userTimer>>

(* adjust_timer(): three more TIMESLOTs. *)
AdjustTimer(fd) == TS!Adjust(userTimer[fd]) /\ UNCHANGED <<timerFd, userTimer>>

(* dealclientdata(): accept() and timer(), which is users[connfd].init() and a timer.
   Edge-triggered, the main thread stays in the loop until accept() fails or the
   server is busy. *)
Accepting == \/ mpc = "batch" /\ ListenEvent \in batch
             \/ mpc = "accept"

FreeFds == {fd \in Fds : sock[fd] = None}

AcceptFails ==
    /\ Accepting
    /\ backlog = {} \/ FreeFds = {}
    /\ turnedAway' = (turnedAway \/ backlog # {})
    /\ mpc' = "batch"
    /\ batch' = batch \ {ListenEvent}
    /\ UNCHANGED <<mode, missed, net, epoll, timers, signals, spinFd, users, m_user_count,
                   m_workqueue, worker, answered>>

ServerBusy ==
    /\ Accepting
    /\ FreeFds # {} /\ m_user_count >= MaxFd
    /\ \E c \in backlog : backlog' = backlog \ {c}
    /\ turnedAway' = TRUE
    /\ mpc' = "batch"
    /\ batch' = batch \ {ListenEvent}
    /\ UNCHANGED <<mode, missed, phase, budget, inbox, room, edge, epoll, timers, signals,
                   spinFd, users, m_user_count, m_workqueue, worker, answered>>

MutantStay == "batch"
Stay == IF ListenET THEN "accept" ELSE "batch"

Accept(c, fd) ==
    /\ Accepting
    /\ c \in backlog /\ fd \in FreeFds /\ m_user_count < MaxFd
    /\ backlog' = backlog \ {c}
    /\ sock' = [sock EXCEPT ![fd] = c]
    /\ interest' = [interest EXCEPT ![fd] = "in"]
    /\ users' = Put(fd, [NewUser EXCEPT !.sockfd = fd], TRUE)
    /\ m_user_count' = m_user_count + 1
    /\ TS!Add(c)
    /\ timerFd' = [timerFd EXCEPT ![c] = fd]
    /\ userTimer' = [userTimer EXCEPT ![fd] = c]
    /\ mpc' = Stay
    /\ batch' = batch \ {ListenEvent}
    /\ UNCHANGED <<mode, missed, turnedAway, phase, budget, inbox, room, edge, signals, spinFd,
                   m_workqueue, worker, answered>>

(* EPOLLRDHUP, EPOLLHUP or EPOLLERR: deal_timer(). *)
HangUp(fd) ==
    /\ mpc = "batch" /\ Event("hup", fd) \in batch
    /\ DealTimer(fd)
    /\ batch' = batch \ {Event("hup", fd)}
    /\ UNCHANGED <<mode, missed, turnedAway, net, signals, mpc, spinFd, users, m_workqueue,
                   worker, answered>>

(* dealwithsignal(): everything in the pipe is read. *)
DealWithSignal ==
    /\ mpc = "batch" /\ SignalEvent \in batch
    /\ timeout' = (timeout \/ "ALRM" \in pipe)
    /\ stop_server' = (stop_server \/ "TERM" \in pipe)
    /\ pipe' = {}
    /\ batch' = batch \ {SignalEvent}
    /\ UNCHANGED <<mode, missed, turnedAway, net, epoll, timers, alarm, mpc, spinFd, users,
                   m_user_count, m_workqueue, worker, answered>>

QueueFull == Len(m_workqueue) >= MaxRequests

(* append_p() or append(): its result is ignored by the callers. *)
Enqueue(fd) == m_workqueue' = IF QueueFull THEN m_workqueue ELSE Append(m_workqueue, fd)

(* dealwithread() and dealwithwrite(), proactor: the main thread does the I/O. *)
ReadProactor(fd) ==
    /\ ~Reactor
    /\ mpc = "batch" /\ Event("in", fd) \in batch
    /\ ReadInbox(fd)
    /\ users' = [users EXCEPT ![fd] = AfterRead(fd)]
    /\ IF ReadSucceeds(fd)
       THEN /\ Enqueue(fd)
            /\ AdjustTimer(fd)
            /\ UNCHANGED <<epoll, m_user_count>>
       ELSE DealTimer(fd) /\ UNCHANGED m_workqueue
    /\ batch' = batch \ {Event("in", fd)}
    /\ UNCHANGED <<mode, missed, turnedAway, phase, budget, room, backlog, edge, signals, mpc,
                   spinFd, worker, answered>>

WriteProactor(fd) ==
    /\ ~Reactor
    /\ mpc = "batch" /\ Event("out", fd) \in batch
    /\ \E r \in Writes(fd) :
        /\ users' = Put(fd, r.user, r.init)
        /\ Sent(fd, r.sent)
        /\ IF r.ok
           THEN /\ interest' = AfterWrite(fd, r.ev)
                /\ AdjustTimer(fd)
                /\ UNCHANGED <<sock, m_user_count>>
           ELSE DealTimer(fd)
    /\ batch' = batch \ {Event("out", fd)}
    /\ UNCHANGED <<mode, missed, turnedAway, phase, budget, inbox, backlog, edge, signals, mpc,
                   spinFd, m_workqueue, worker>>

(* The same, reactor: the timer is adjusted, append(users+sockfd, state) called and
   the main thread spins on improv. *)
HandOver(fd, kind, state) ==
    /\ Reactor
    /\ mpc = "batch" /\ Event(kind, fd) \in batch
    /\ AdjustTimer(fd)
    /\ Enqueue(fd)
    /\ users' = IF QueueFull THEN users ELSE [users EXCEPT ![fd].state = state]
    /\ batch' = batch \ {Event(kind, fd)}
    /\ mpc' = "spin" /\ spinFd' = fd
    /\ UNCHANGED <<mode, missed, turnedAway, net, epoll, signals, m_user_count, worker,
                   answered>>

SpinEnds ==
    /\ mpc = "spin" /\ users[spinFd].improv = 1
    /\ IF users[spinFd].timer_flag = 1
       THEN DealTimer(spinFd)
       ELSE UNCHANGED <<epoll, timers, m_user_count>>
    /\ users' = [users EXCEPT ![spinFd].timer_flag = 0, ![spinFd].improv = 0]
    /\ missed' = (missed \/ \E w \in Workers : worker[w].fd = spinFd /\ worker[w].pc = "verdict")
    /\ mpc' = "batch" /\ spinFd' = None
    /\ UNCHANGED <<mode, turnedAway, net, signals, batch, m_workqueue, worker, answered>>

MutantSocketsLeftOpen ==
    /\ TS!Tick
    /\ m_user_count' = m_user_count - Cardinality(TS!Expired)
    /\ alarm' = "armed"
    /\ UNCHANGED epoll

MutantAlarmOnce ==
    /\ TS!Tick
    /\ CloseAll({timerFd[c] : c \in TS!Expired})
    /\ m_user_count' = m_user_count - Cardinality(TS!Expired)
    /\ UNCHANGED alarm

(* timer_handler(): tick(), which calls cb_func() for every expired timer, and alarm(). *)
TimerHandler ==
    /\ TS!Tick
    /\ CloseAll({timerFd[c] : c \in TS!Expired})
    /\ m_user_count' = m_user_count - Cardinality(TS!Expired)
    /\ alarm' = "armed"

(* After the last event: timer_handler() if SIGALRM was read, then the loop's test of
   stop_server. *)
EndBatch ==
    /\ mpc = "batch" /\ batch = {}
    /\ IF timeout THEN TimerHandler ELSE UNCHANGED <<live, left, epoll, m_user_count, alarm>>
    /\ timeout' = FALSE
    /\ mpc' = IF stop_server THEN "stopped" ELSE "wait"
    /\ UNCHANGED <<mode, missed, turnedAway, net, timerFd, userTimer, pipe, stop_server, batch,
                   spinFd, users, m_workqueue, worker, answered>>
-----------------------------------------------------------------------------
(* The workers: run(), http_conn::process() and close_conn(). *)

Goto(w, pc) == worker' = [worker EXCEPT ![w].pc = pc]

(* The request leaves the queue; the reactor looks at request->m_state.  The workers are
   detached: they go on when main() has returned. *)
Take(w) ==
    /\ worker[w].pc = "idle" /\ m_workqueue # <<>>
    /\ LET fd == Head(m_workqueue)
       IN  worker' = [worker EXCEPT ![w] =
               [Idle EXCEPT !.fd = fd,
                            !.pc = IF ~Reactor THEN "parse"
                                   ELSE IF users[fd].state = 0 THEN "recv" ELSE "send"]]
    /\ m_workqueue' = Tail(m_workqueue)
    /\ UNCHANGED <<mode, missed, turnedAway, net, epoll, timers, signals, loop, users,
                   m_user_count, answered>>

(* Reactor, m_state 0: read_once(). *)
Recv(w) ==
    LET fd == worker[w].fd IN
    /\ worker[w].pc = "recv"
    /\ ReadInbox(fd)
    /\ users' = [users EXCEPT ![fd] = AfterRead(fd)]
    /\ Goto(w, IF ReadSucceeds(fd) THEN "received" ELSE "failed")
    /\ UNCHANGED <<mode, missed, turnedAway, phase, budget, room, backlog, edge, epoll, timers,
                   signals, loop, m_user_count, m_workqueue, answered>>

(* Reactor, m_state 1: write(). *)
Transmit(w) ==
    LET fd == worker[w].fd IN
    /\ worker[w].pc = "send"
    /\ \E r \in Writes(fd) :
        /\ users' = Put(fd, r.user, r.init)
        /\ Sent(fd, r.sent)
        /\ interest' = AfterWrite(fd, r.ev)
        /\ Goto(w, IF r.ok THEN "sent" ELSE "failed")
    /\ UNCHANGED <<mode, missed, turnedAway, phase, budget, inbox, backlog, edge, sock, timers,
                   signals, loop, m_user_count, m_workqueue>>

MutantImprov(w) ==
    /\ worker[w].pc \in {"received", "sent", "failed"}
    /\ users' = IF worker[w].pc = "failed" THEN users
                ELSE [users EXCEPT ![worker[w].fd].improv = 1]
    /\ worker' = [worker EXCEPT ![w] =
            CASE @.pc = "received" -> [@ EXCEPT !.pc = "parse"]
              [] @.pc = "failed" -> [@ EXCEPT !.pc = "verdict"]
              [] OTHER -> Idle]
    /\ UNCHANGED <<mode, missed, turnedAway, net, epoll, timers, signals, loop, m_user_count,
                   m_workqueue, answered>>

(* request->improv=1, which lets the main thread go on ... *)
Improv(w) ==
    /\ worker[w].pc \in {"received", "sent", "failed"}
    /\ users' = [users EXCEPT ![worker[w].fd].improv = 1]
    /\ worker' = [worker EXCEPT ![w] =
            CASE @.pc = "received" -> [@ EXCEPT !.pc = "parse"]
              [] @.pc = "failed" -> [@ EXCEPT !.pc = "verdict"]
              [] OTHER -> Idle]
    /\ UNCHANGED <<mode, missed, turnedAway, net, epoll, timers, signals, loop, m_user_count,
                   m_workqueue, answered>>

(* ... and after it request->timer_flag=1, which asks it to close. *)
Verdict(w) ==
    /\ worker[w].pc = "verdict"
    /\ users' = [users EXCEPT ![worker[w].fd].timer_flag = 1]
    /\ worker' = [worker EXCEPT ![w] = Idle]
    /\ UNCHANGED <<mode, missed, turnedAway, net, epoll, timers, signals, loop, m_user_count,
                   m_workqueue, answered>>

(* process_read(): the request in m_read_buf is incomplete or something comes of it. *)
Parse(w) ==
    LET fd == worker[w].fd
        u == users[fd]
    IN  /\ worker[w].pc = "parse"
        /\ \/ /\ u.got = 0 \/ "more" \in Outcomes
              /\ Goto(w, "rearmIn")
              /\ UNCHANGED users
           \/ /\ u.got > 0 /\ "answer" \in Outcomes
              /\ worker' = [worker EXCEPT ![w].pc = "fill", ![w].src = u.src]
              /\ \E keep \in KeepAlive : users' = [users EXCEPT ![fd].linger = keep]
           \/ /\ u.got > 0 /\ "fail" \in Outcomes
              /\ Goto(w, "close")
              /\ UNCHANGED users
        /\ UNCHANGED <<mode, missed, turnedAway, net, epoll, timers, signals, loop,
                       m_user_count, m_workqueue, answered>>

MutantFill(w) ==
    /\ worker[w].pc = "fill"
    /\ \/ interest' = Modfd(interest, users[worker[w].fd].sockfd, "out") /\ UNCHANGED <<users,
                                                                                        worker>>
       \/ /\ \E n \in AnswerSizes :
                users' = [users EXCEPT ![worker[w].fd].out = n,
                                       ![worker[w].fd].osrc = worker[w].src]
          /\ Goto(w, "rearmOut")
          /\ UNCHANGED interest
    /\ UNCHANGED <<mode, missed, turnedAway, net, sock, timers, signals, loop, m_user_count,
                   m_workqueue, answered>>

(* process_write(): the answer is put in the buffers of the object. *)
Fill(w) ==
    /\ worker[w].pc = "fill"
    /\ \E n \in AnswerSizes :
          users' = [users EXCEPT ![worker[w].fd].out = n, ![worker[w].fd].osrc = worker[w].src]
    /\ Goto(w, "rearmOut")
    /\ UNCHANGED <<mode, missed, turnedAway, net, epoll, timers, signals, loop, m_user_count,
                   m_workqueue, answered>>

(* close_conn(): removefd(m_sockfd); m_sockfd=-1; m_user_count--, a load and a store. *)
CloseConn(w) ==
    LET s == users[worker[w].fd].sockfd IN
    /\ worker[w].pc = "close"
    /\ IF s = None
       THEN Goto(w, "rearmOut") /\ UNCHANGED epoll
       ELSE Goto(w, "forget") /\ CloseAll({s})
    /\ UNCHANGED <<mode, missed, turnedAway, net, timers, signals, loop, users, m_user_count,
                   m_workqueue, answered>>

Forget(w) ==
    /\ worker[w].pc = "forget"
    /\ users' = [users EXCEPT ![worker[w].fd].sockfd = None]
    /\ Goto(w, "load")
    /\ UNCHANGED <<mode, missed, turnedAway, net, epoll, timers, signals, loop, m_user_count,
                   m_workqueue, answered>>

LoadCount(w) ==
    /\ worker[w].pc = "load"
    /\ worker' = [worker EXCEPT ![w].pc = "store", ![w].load = m_user_count]
    /\ UNCHANGED <<mode, missed, turnedAway, net, epoll, timers, signals, loop, users,
                   m_user_count, m_workqueue, answered>>

(* When another thread has changed the counter since the load, either update may be
   the one that is lost. *)
StoreCount(w) ==
    /\ worker[w].pc = "store"
    /\ m_user_count' \in IF m_user_count = worker[w].load
                         THEN {m_user_count - 1}
                         ELSE {m_user_count - 1, worker[w].load - 1, m_user_count}
    /\ Goto(w, "rearmOut")
    /\ UNCHANGED <<mode, missed, turnedAway, net, epoll, timers, signals, loop, users,
                   m_workqueue, answered>>

(* modfd(m_epollfd, m_sockfd, ...), the end of process(). *)
Rearm(w) ==
    LET s == users[worker[w].fd].sockfd IN
    /\ worker[w].pc \in {"rearmIn", "rearmOut"}
    /\ interest' = Modfd(interest, s, IF worker[w].pc = "rearmIn" THEN "in" ELSE "out")
    /\ worker' = [worker EXCEPT ![w] = Idle]
    /\ UNCHANGED <<mode, missed, turnedAway, net, sock, timers, signals, loop, users,
                   m_user_count, m_workqueue, answered>>

-----------------------------------------------------------------------------
Client == \E c \in Conns : Connect(c) \/ Send(c) \/ Shut(c) \/ Drain(c)

Main == \/ EpollWait
        \/ AcceptFails
        \/ ServerBusy
        \/ \E c \in Conns, fd \in Fds : Accept(c, fd)
        \/ DealWithSignal
        \/ \E fd \in Fds : \/ HangUp(fd)
                           \/ ReadProactor(fd)
                           \/ WriteProactor(fd)
                           \/ HandOver(fd, "in", 0)
                           \/ HandOver(fd, "out", 1)
        \/ SpinEnds
        \/ EndBatch

Work(w) == \/ Take(w)
           \/ Recv(w)
           \/ Transmit(w)
           \/ Improv(w)
           \/ Verdict(w)
           \/ Parse(w)
           \/ Fill(w)
           \/ CloseConn(w)
           \/ Forget(w)
           \/ LoadCount(w)
           \/ StoreCount(w)
           \/ Rearm(w)

Next == Client \/ Main \/ Clock \/ SigAlrm \/ SigTerm \/ \E w \in Workers : Work(w)

Spec == Init /\ [][Next]_vars

(* The scheduler runs every thread, time passes and the kernel delivers the signal.
   Clients promise nothing. *)
FairSpec == /\ Spec
            /\ WF_vars(Main)
            /\ WF_vars(Clock)
            /\ WF_vars(SigAlrm)
            /\ \A w \in Workers : WF_vars(Work(w))

-----------------------------------------------------------------------------
UserType == [sockfd : Fds \cup {None, Stdin}, got : 0..BufSize, src : Conns \cup {None},
             out : Nat, osrc : Conns \cup {None}, linger : BOOLEAN,
             state : {0, 1}, timer_flag : {0, 1}, improv : {0, 1}]

WorkerPCs == {"idle", "recv", "send", "received", "sent", "failed", "verdict", "parse",
              "fill", "close", "forget", "load", "store", "rearmIn", "rearmOut"}

EventType == [kind : {"listen", "signal"}, fd : {None}] \cup [kind : {"hup", "in", "out"}, fd : Fds]

TypeOK ==
    /\ mode \in Modes
    /\ phase \in [Conns -> {"new", "open", "shut"}]
    /\ budget \in [Conns -> Nat]
    /\ inbox \in [Conns -> Nat]
    /\ room \in [Conns -> {0, 1}]
    /\ backlog \subseteq Conns /\ edge \in BOOLEAN
    /\ sock \in [Fds -> Conns \cup {None}]
    /\ interest \in [Fds -> {"none", "off", "in", "out"}]
    /\ alarm \in {"off", "armed", "due"} /\ pipe \subseteq {"ALRM", "TERM"}
    /\ users \in [Fds -> UserType]
    /\ m_user_count \in Int
    /\ live \subseteq Conns /\ left \in [Conns -> 0..Life]
    /\ timerFd \in [Conns -> Fds \cup {None}]
    /\ userTimer \in [Fds -> Conns \cup {None}]
    /\ m_workqueue \in Seq(Fds)
    /\ worker \in [Workers -> [pc : WorkerPCs, fd : Fds \cup {None},
                               src : Conns \cup {None}, load : Int]]
    /\ mpc \in {"wait", "batch", "accept", "spin", "stopped"}
    /\ batch \subseteq EventType /\ spinFd \in Fds \cup {None}
    /\ timeout \in BOOLEAN /\ stop_server \in BOOLEAN
    /\ missed \in BOOLEAN /\ turnedAway \in BOOLEAN
    /\ answered \subseteq (Conns \cup {None}) \X Conns

\* The timer users_timer[fd].timer points to is never a deleted one when the main
\* thread uses it: for an open socket, for an event that was reported, and for the
\* request the main thread waits for.  deal_timer() and tick() delete timers and
\* leave the pointer behind.
TimerAlive ==
    \A fd \in Fds :
        (\/ sock[fd] # None
         \/ \E e \in batch : e.fd = fd
         \/ spinFd = fd)
        => /\ userTimer[fd] \in live
           /\ timerFd[userTimer[fd]] = fd

\* Only open sockets are registered with epoll.
Registered == \A fd \in Fds : interest[fd] # "none" => sock[fd] # None

\* One event per descriptor.
OneEventEach == \A e, f \in batch : e.fd = f.fd /\ e.fd \in Fds => e = f

\* Outside epoll_wait() only; the reactor's request is no longer in the batch.
MainShape ==
    /\ mpc = "wait" => batch = {}
    /\ spinFd # None <=> mpc = "spin"
    /\ \A e \in batch : e.fd = spinFd => e.fd = None

WorkerHasRequest == \A w \in Workers : worker[w].pc # "idle" => worker[w].fd \in Fds

\* Whatever the workers and the clients do, the main thread never uses a deleted timer
\* (TimerAlive) or a descriptor twice in a batch.
MainInv == /\ TypeOK
        /\ WorkerHasRequest
        /\ Registered
        /\ OneEventEach
        /\ MainShape
        /\ TimerAlive

\* A connection belongs to one thread at a time: it is armed in epoll, or reported to
\* the main thread, or queued, or in the hands of one worker, never two of these.
\* That is what EPOLLONESHOT is for.  It does not survive a verdict the reactor missed:
\* improv is set before timer_flag, and the main thread may go on in between.
Tokens(fd) ==
    (IF interest[fd] \in {"in", "out"} THEN 1 ELSE 0)
    + Cardinality({e \in batch : e.fd = fd})
    + Cardinality({i \in DOMAIN m_workqueue : m_workqueue[i] = fd})
    + Cardinality({w \in Workers : /\ worker[w].fd = fd
                                   /\ worker[w].pc \notin {"sent", "failed", "verdict"}})

ExclusiveHandling == ~missed => \A fd \in Fds : Tokens(fd) <= 1

\* An answer goes to the client whose request it answers.
NoCrossTalk == ~missed => \A a \in answered : a[1] = a[2]

\* m_user_count is the number of open connections; a worker inside close_conn() has
\* closed one that it has not yet subtracted.
UserCountExact ==
    m_user_count = Cardinality({fd \in Fds : sock[fd] # None})
                   + Cardinality({w \in Workers : worker[w].pc \in {"forget", "load", "store"}})

\* tick() closes a connection only when its own timer has run out: the timers of
\* earlier connections at the same descriptor are gone.
OnlyIdleTimedOut ==
    EndBatch => \A fd \in Fds : sock[fd] # None /\ sock'[fd] = None => left[sock[fd]] = 0

\* The main thread never closes a connection that a worker has in hand: it
\* would free the descriptor for the next client while the worker still uses the object.
InHand == {"recv", "send", "received", "parse", "fill", "close", "forget", "load", "store",
           "rearmIn", "rearmOut"}
NeverClosedInHand ==
    ~missed /\ Main =>
        \A fd \in Fds : sock[fd] # None /\ sock'[fd] = None =>
            \A w \in Workers : worker[w].fd = fd => worker[w].pc \notin InHand

\* The main thread closes a connection only for its own timer or its own answer.
ClosedForCause == [][OnlyIdleTimedOut /\ NeverClosedInHand]_vars

\* The alarm chain never breaks and never doubles: alarm() is armed or due, or its
\* signal is in the pipe, or timeout is set and timer_handler() will arm it again.
AlarmNeverLost ==
    LET held == alarm # "off"
        sent == "ALRM" \in pipe
    IN  /\ held \/ sent \/ timeout
        /\ ~(held /\ sent) /\ ~(held /\ timeout) /\ ~(sent /\ timeout)

\* The reactor's main thread waits in its loop only for a request that is queued or
\* that a worker will answer for: append() was not refused and nobody consumed improv.
SpinIsAnswered ==
    mpc = "spin" =>
        \/ users[spinFd].improv = 1
        \/ \E i \in DOMAIN m_workqueue : m_workqueue[i] = spinFd
        \/ \E w \in Workers : /\ worker[w].fd = spinFd
                              /\ worker[w].pc \in {"recv", "send", "received", "sent", "failed"}

\* Every connection ends once its client stops sending, which Loads makes it do: whatever
\* else it does, or does not do, and whatever the workers do with it, its socket is closed,
\* unless the server is stopped.
ConnectionsEnd ==
    \A c \in Conns : (\E fd \in Fds : sock[fd] = c)
                     ~> (mpc = "stopped" \/ \A fd \in Fds : sock[fd] # c)

\* Every connection that waits in the backlog is taken out of it.  With edge-triggered
\* events, which report an arrival once, that needs a server that was never out of
\* descriptors and never busy: it leaves the accept loop then, and is not told again.
AcceptedEventually ==
    \A c \in Conns : c \in backlog
                     ~> mpc = "stopped" \/ c \notin backlog \/ (ListenET /\ turnedAway)
=============================================================================
