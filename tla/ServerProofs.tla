---------------------------- MODULE ServerProofs ----------------------------
(***************************************************************************)
(* Proofs about the server, WebServer, and about its first version, Chap5. *)
(*                                                                         *)
(* Part 1, WebServer, for any connections, descriptors and workers, in     *)
(* both actor models and both trigger modes.  The theorems about timers    *)
(* and about the spin assume nothing of process() and of the workers'      *)
(* speed; those about counting and about ownership name what they assume   *)
(* (FailFree, Undisturbed).                                                *)
(*                                                                         *)
(* Part 2, Chap5, for any clients, requests, descriptors and workers: what *)
(* it does is what WebServer allows, so that the theorems of part 1 hold   *)
(* of it, and the counters of WebServer count the segments and pieces that *)
(* are there.                                                              *)
(***************************************************************************)
EXTENDS Chap5, FiniteSetTheorems, FunctionTheorems, SequenceTheorems, TLAPS

-----------------------------------------------------------------------------
(* Part 1: the server, WebServer.                                            *)

-----------------------------------------------------------------------------
(* Which timer users_timer[fd].timer points to.  TimerAlive alone is not     *)
(* inductive: epoll_wait() must report only open sockets, each once, and the *)
(* request the main thread spins for must not have a second event in the     *)
(* batch, or deleting its timer would leave that event with a dead one.      *)

TimerTypes ==
    /\ live \subseteq Conns
    /\ left \in [Conns -> Nat]
    /\ timerFd \in [Conns -> Fds \cup {None}]
    /\ userTimer \in [Fds -> Conns \cup {None}]
    /\ sock \in [Fds -> Conns \cup {None}]
    /\ interest \in [Fds -> {"none", "off", "in", "out"}]
    /\ batch \subseteq EventType
    /\ spinFd \in Fds \cup {None}

TInv == /\ TimerTypes
        /\ Registered
        /\ OneEventEach
        /\ MainShape
        /\ TimerAlive

tvars == <<live, left, timerFd, userTimer, sock, interest, batch, mpc, spinFd>>

LEMMA InitTInv == Init => TInv
BY Parameters
   DEF Init, TInv, TimerTypes, Registered, OneEventEach, MainShape, TimerAlive, TS!Init

\* modfd() neither adds nor removes a registration.
LEMMA ModfdKeeps ==
    ASSUME TInv, NEW s, NEW ev \in {"off", "in", "out"}
    PROVE  /\ Modfd(interest, s, ev) \in [Fds -> {"none", "off", "in", "out"}]
           /\ \A fd \in Fds : Modfd(interest, s, ev)[fd] = "none" <=> interest[fd] = "none"
BY DEF TInv, TimerTypes, Modfd

\* A step that changes nothing but registrations keeps the invariant.
LEMMA RegistrationStep ==
    ASSUME TInv,
           interest' \in [Fds -> {"none", "off", "in", "out"}],
           \A fd \in Fds : interest'[fd] = "none" <=> interest[fd] = "none",
           UNCHANGED <<live, left, timerFd, userTimer, sock, batch, mpc, spinFd>>
    PROVE  TInv'
BY DEF TInv, TimerTypes, Registered, OneEventEach, MainShape, TimerAlive, EventType

\* Closing descriptors and dropping events keeps the invariant as long as the timers of
\* the sockets that stay open, and of the events that stay in the batch, stay alive.
LEMMA ClosingStep ==
    ASSUME TInv, NEW S, CloseAll(S), batch' \subseteq batch,
           live' \subseteq Conns, left' \in [Conns -> Nat],
           spinFd' = None, mpc' # "spin", mpc' = "wait" => batch' = {},
           UNCHANGED <<timerFd, userTimer>>,
           \A fd \in Fds : (sock[fd] # None /\ fd \notin S) \/ (\E e \in batch' : e.fd = fd)
                              => userTimer[fd] \in live'
    PROVE  TInv'
<1> USE DEF TInv, TimerTypes, CloseAll
<1>1. TimerTypes' OBVIOUS
<1>2. Registered' BY DEF Registered
<1>3. OneEventEach' BY DEF OneEventEach
<1>4. MainShape' BY DEF MainShape
<1>5. TimerAlive'
  <2> SUFFICES ASSUME NEW fd \in Fds,
                      sock'[fd] # None \/ (\E e \in batch' : e.fd = fd) \/ spinFd' = fd
               PROVE  userTimer[fd] \in live' /\ timerFd[userTimer[fd]] = fd
    BY DEF TimerAlive
  <2>1. (sock[fd] # None /\ fd \notin S) \/ (\E e \in batch' : e.fd = fd) BY Parameters
  <2> QED BY <2>1 DEF TimerAlive
<1> QED BY <1>1, <1>2, <1>3, <1>4, <1>5

\* Handling an event without closing anything.
LEMMA HandledStep ==
    ASSUME TInv, batch' \subseteq batch,
           left' \in [Conns -> Nat],
           interest' \in [Fds -> {"none", "off", "in", "out"}],
           \A fd \in Fds : interest'[fd] = "none" <=> interest[fd] = "none",
           mpc' = "wait" => batch' = {},
           spinFd' = spinFd, spinFd # None <=> mpc' = "spin",
           UNCHANGED <<live, timerFd, userTimer, sock>>
    PROVE  TInv'
BY DEF TInv, TimerTypes, Registered, OneEventEach, MainShape, TimerAlive

\* Life is a number, so that every operation of the timer list keeps left a number.
LEMMA TimerOps ==
    ASSUME TInv
    PROVE  /\ \A fd \in Fds : AdjustTimer(fd) => left' \in [Conns -> Nat]
           /\ \A fd \in Fds : DealTimer(fd) => left' \in [Conns -> Nat]
           /\ \A c \in Conns : TS!Add(c) => left' \in [Conns -> Nat]
           /\ TS!Pass => left' \in [Conns -> Nat]
<1> USE Parameters DEF TInv, TimerTypes
<1>1. ASSUME NEW fd \in Fds, AdjustTimer(fd) PROVE left' \in [Conns -> Nat]
  BY <1>1 DEF AdjustTimer, TS!Adjust
<1>2. ASSUME NEW fd \in Fds, DealTimer(fd) PROVE left' \in [Conns -> Nat]
  BY <1>2 DEF DealTimer, TS!Del
<1>3. ASSUME NEW c \in Conns, TS!Add(c) PROVE left' \in [Conns -> Nat]
  BY <1>3 DEF TS!Add
<1>4. ASSUME TS!Pass PROVE left' \in [Conns -> Nat]
  BY <1>4 DEF TS!Pass
<1> QED BY <1>1, <1>2, <1>3, <1>4

\* deal_timer(fd) for the event, or the spin, that the main thread is handling.
LEMMA DealTimerStep ==
    ASSUME TInv, NEW fd \in Fds, DealTimer(fd), batch' \subseteq batch,
           timerFd[userTimer[fd]] = fd,
           \A e \in batch' : e.fd # fd,
           spinFd' = None, mpc' \notin {"wait", "spin"}
    PROVE  TInv'
<1> USE DEF TInv, TimerTypes
<1>1. left' \in [Conns -> Nat] BY TimerOps
<1>2. live' = live \ {userTimer[fd]} /\ live' \subseteq Conns
  BY DEF DealTimer, TS!Del
<1>3. ASSUME NEW g \in Fds,
             (sock[g] # None /\ g # fd) \/ (\E e \in batch' : e.fd = g)
      PROVE  userTimer[g] \in live'
  <2>1. g # fd BY <1>3
  <2>2. userTimer[g] \in live /\ timerFd[userTimer[g]] = g
    BY <1>3 DEF TimerAlive
  <2> QED BY <1>2, <2>1, <2>2
<1> QED BY <1>1, <1>2, <1>3, ClosingStep DEF DealTimer
-----------------------------------------------------------------------------
\* The steps that touch neither the timers, nor the sockets, nor the main thread.
LEMMA QuietSteps ==
    ASSUME TInv, Client \/ SigAlrm \/ SigTerm \/ Clock
                 \/ \E w \in Workers : Work(w)
    PROVE  TInv'
<1>1. UNCHANGED tvars => TInv'
  BY DEF tvars, TInv, TimerTypes, Registered, OneEventEach, MainShape, TimerAlive
<1> USE DEF net, epoll, timers, signals, loop
<1>2. CASE Client BY <1>1, <1>2 DEF Client, Connect, Send, Shut, Drain, tvars
<1>3. CASE SigAlrm \/ SigTerm BY <1>1, <1>3 DEF SigAlrm, SigTerm, tvars
<1>4. CASE Clock
  <2>1. left' \in [Conns -> Nat] BY <1>4, TimerOps DEF Clock
  <2>2. UNCHANGED <<live, timerFd, userTimer, sock, interest, batch, mpc, spinFd>>
    BY <1>4 DEF Clock, TS!Pass
  <2> QED BY <2>1, <2>2
          DEF TInv, TimerTypes, Registered, OneEventEach, MainShape, TimerAlive
<1>5. ASSUME NEW w \in Workers, Work(w) PROVE TInv'
  <2>1. CASE Take(w) \/ Recv(w) \/ Improv(w) \/ Verdict(w) \/ Parse(w) \/ Fill(w)
             \/ Forget(w) \/ LoadCount(w) \/ StoreCount(w)
    BY <1>1, <2>1
       DEF Take, Recv, Improv, Verdict, Parse, Fill, Forget, LoadCount, StoreCount, tvars
  <2>2. CASE Transmit(w)
    <3>1. PICK r \in Writes(worker[w].fd) : interest' = AfterWrite(worker[w].fd, r.ev)
      BY <2>2 DEF Transmit
    <3>2. r.ev \in {"keep", "in", "out"} BY DEF Writes
    <3>3. /\ interest' \in [Fds -> {"none", "off", "in", "out"}]
          /\ \A fd \in Fds : interest'[fd] = "none" <=> interest[fd] = "none"
      BY <3>1, <3>2, ModfdKeeps DEF AfterWrite, TInv, TimerTypes
    <3>4. UNCHANGED <<live, left, timerFd, userTimer, sock, batch, mpc, spinFd>>
      BY <2>2 DEF Transmit
    <3> QED BY <3>3, <3>4, RegistrationStep
  <2>3. CASE Rearm(w)
    <3>1. PICK ev \in {"in", "out"} :
             interest' = Modfd(interest, users[worker[w].fd].sockfd, ev)
      BY <2>3 DEF Rearm
    <3>2. UNCHANGED <<live, left, timerFd, userTimer, sock, batch, mpc, spinFd>>
      BY <2>3 DEF Rearm
    <3> QED BY <3>1, <3>2, ModfdKeeps, RegistrationStep
  <2>4. CASE CloseConn(w)
    <3>1. CASE UNCHANGED epoll BY <1>1, <2>4, <3>1 DEF CloseConn, tvars
    <3>2. CASE CloseAll({users[worker[w].fd].sockfd})
      <4>1. UNCHANGED <<live, left, timerFd, userTimer, batch, mpc, spinFd>>
        BY <2>4 DEF CloseConn
      <4> QED BY <3>2, <4>1, Parameters
              DEF CloseAll, TInv, TimerTypes, Registered, OneEventEach, MainShape, TimerAlive
    <3> QED BY <2>4, <3>1, <3>2 DEF CloseConn
  <2> QED BY <1>5, <2>1, <2>2, <2>3, <2>4, SMTT(30) DEF Work
<1> QED BY <1>2, <1>3, <1>4, <1>5

\* The steps of the main thread.
LEMMA MainSteps == TInv /\ Main => TInv'
<1> SUFFICES ASSUME TInv, Main PROVE TInv' OBVIOUS
<1> USE DEF net, epoll, timers, signals, loop
<1>1. CASE EpollWait
  <2> USE <1>1 DEF EpollWait, TInv, TimerTypes
  <2>1. \A fd \in Fds : Occurred(fd) => interest[fd] \in {"in", "out"} BY DEF Occurred
  <2>2. Ready \subseteq EventType
    BY <2>1 DEF Ready, EventType, Event, ListenEvent, SignalEvent
  <2>3. \A e \in Ready : e.fd \in Fds => Occurred(e.fd)
    BY Parameters DEF Ready, Event, ListenEvent, SignalEvent
  <2>4. ASSUME NEW e \in Ready, NEW f \in Ready, e.fd = f.fd, e.fd \in Fds PROVE e = f
    BY <2>4, Parameters DEF Ready, Event, ListenEvent, SignalEvent
  <2>5. TimerTypes' BY <2>2 DEF Oneshot
  <2>6. Registered' BY <2>1 DEF Registered, Oneshot
  <2>7. OneEventEach' BY <2>4 DEF OneEventEach
  <2>8. spinFd = None BY DEF MainShape
  <2>9. MainShape' BY <2>2, <2>8 DEF MainShape
  <2>10. ASSUME NEW fd \in Fds,
                sock'[fd] # None \/ (\E e \in batch' : e.fd = fd) \/ spinFd' = fd
         PROVE  userTimer[fd] \in live /\ timerFd[userTimer[fd]] = fd
    <3>1. sock[fd] # None
      BY <2>1, <2>3, <2>8, <2>10, Parameters DEF Registered
    <3> QED BY <3>1 DEF TimerAlive
  <2> QED BY <2>5, <2>6, <2>7, <2>9, <2>10 DEF TimerAlive
<1>2. CASE AcceptFails \/ ServerBusy
  <2>1. UNCHANGED <<live, left, timerFd, userTimer, sock, interest, spinFd>>
    BY <1>2 DEF AcceptFails, ServerBusy
  <2>2. batch' \subseteq batch /\ mpc' = "batch" /\ mpc \in {"batch", "accept"}
    BY <1>2 DEF AcceptFails, ServerBusy, Accepting
  <2> QED BY <2>1, <2>2 DEF TInv, TimerTypes, Registered, OneEventEach, MainShape, TimerAlive
<1>3. ASSUME NEW c \in Conns, NEW fd \in Fds, Accept(c, fd) PROVE TInv'
  <2> USE <1>3 DEF Accept, TInv, TimerTypes
  <2>1. mpc \in {"batch", "accept"} /\ mpc' \in {"batch", "accept"}
    BY DEF Accepting, Stay
  <2>2. live' = live \cup {c} /\ c \notin live BY DEF TS!Add
  <2>3. TimerTypes' BY <2>2, TimerOps
  <2>4. Registered' BY Parameters DEF Registered
  <2>5. OneEventEach' BY DEF OneEventEach
  <2>6. spinFd = None BY <2>1 DEF MainShape
  <2>7. MainShape' BY <2>1, <2>6 DEF MainShape
  <2>8. ASSUME NEW g \in Fds,
               sock'[g] # None \/ (\E e \in batch' : e.fd = g) \/ spinFd' = g
        PROVE  userTimer'[g] \in live' /\ timerFd'[userTimer'[g]] = g
    <3>1. CASE g = fd BY <2>2, <3>1
    <3>2. CASE g # fd
      <4>1. sock[g] # None \/ (\E e \in batch : e.fd = g) BY <2>6, <2>8, <3>2, Parameters
      <4>2. userTimer[g] \in live /\ timerFd[userTimer[g]] = g BY <4>1 DEF TimerAlive
      <4> QED BY <2>2, <3>2, <4>2
    <3> QED BY <3>1, <3>2
  <2> QED BY <2>3, <2>4, <2>5, <2>7, <2>8 DEF TimerAlive
<1>4. CASE DealWithSignal
  <2>1. UNCHANGED <<live, left, timerFd, userTimer, sock, interest, mpc, spinFd>>
    BY <1>4 DEF DealWithSignal
  <2>2. batch' \subseteq batch BY <1>4 DEF DealWithSignal
  <2> QED BY <2>1, <2>2 DEF TInv, TimerTypes, Registered, OneEventEach, MainShape, TimerAlive
\* An event at hand: its timer is alive and no other event has its descriptor.
<1>5. ASSUME mpc = "batch", NEW fd \in Fds, NEW kind, Event(kind, fd) \in batch,
             batch' = batch \ {Event(kind, fd)}
      PROVE  /\ timerFd[userTimer[fd]] = fd
             /\ batch' \subseteq batch
             /\ \A e \in batch' : e.fd # fd
             /\ spinFd = None
  <2>1. Event(kind, fd).fd = fd BY DEF Event
  <2>2. timerFd[userTimer[fd]] = fd BY <1>5, <2>1 DEF TInv, TimerAlive
  <2>3. \A e \in batch' : e.fd # fd BY <1>5, <2>1 DEF TInv, OneEventEach
  <2> QED BY <1>5, <2>2, <2>3 DEF TInv, MainShape
<1>6. ASSUME NEW fd \in Fds, HangUp(fd) PROVE TInv'
  <2>1. /\ mpc = "batch" /\ mpc' = mpc /\ Event("hup", fd) \in batch
        /\ batch' = batch \ {Event("hup", fd)} /\ spinFd' = spinFd
    BY <1>6 DEF HangUp
  <2> QED BY <1>5, <1>6, <2>1, DealTimerStep DEF HangUp
<1>7. ASSUME NEW fd \in Fds, ReadProactor(fd) PROVE TInv'
  <2>1. /\ mpc = "batch" /\ mpc' = mpc /\ Event("in", fd) \in batch
        /\ batch' = batch \ {Event("in", fd)} /\ spinFd' = spinFd
    BY <1>7 DEF ReadProactor
  <2>2. CASE AdjustTimer(fd) /\ UNCHANGED epoll
    <3>1. left' \in [Conns -> Nat] BY <2>2, TimerOps
    <3>2. UNCHANGED <<live, timerFd, userTimer, sock, interest>>
      BY <2>2 DEF AdjustTimer, TS!Adjust
    <3> QED BY <1>5, <2>1, <3>1, <3>2, HandledStep DEF TInv, TimerTypes
  <2>3. CASE DealTimer(fd) BY <1>5, <2>1, <2>3, DealTimerStep
  <2> QED BY <1>7, <2>2, <2>3 DEF ReadProactor
<1>8. ASSUME NEW fd \in Fds, WriteProactor(fd) PROVE TInv'
  <2>1. /\ mpc = "batch" /\ mpc' = mpc /\ Event("out", fd) \in batch
        /\ batch' = batch \ {Event("out", fd)} /\ spinFd' = spinFd
    BY <1>8 DEF WriteProactor
  <2>2. PICK r \in Writes(fd) :
           IF r.ok THEN /\ interest' = AfterWrite(fd, r.ev)
                        /\ AdjustTimer(fd)
                        /\ UNCHANGED <<sock, m_user_count>>
                   ELSE DealTimer(fd)
    BY <1>8 DEF WriteProactor
  <2>3. CASE r.ok
    <3>1. left' \in [Conns -> Nat] BY <2>2, <2>3, TimerOps
    <3>2. UNCHANGED <<live, timerFd, userTimer, sock>>
      BY <2>2, <2>3 DEF AdjustTimer, TS!Adjust
    <3>3. r.ev \in {"keep", "in", "out"} BY DEF Writes
    <3>4. /\ interest' \in [Fds -> {"none", "off", "in", "out"}]
          /\ \A g \in Fds : interest'[g] = "none" <=> interest[g] = "none"
      BY <2>2, <2>3, <3>3, ModfdKeeps DEF AfterWrite, TInv, TimerTypes
    <3> QED BY <1>5, <2>1, <3>1, <3>2, <3>4, HandledStep
  <2>4. CASE ~r.ok BY <1>5, <2>1, <2>2, <2>4, DealTimerStep
  <2> QED BY <2>3, <2>4
<1>9. ASSUME NEW fd \in Fds, NEW kind, NEW state, HandOver(fd, kind, state) PROVE TInv'
  <2> USE <1>9 DEF HandOver
  <2>1. /\ timerFd[userTimer[fd]] = fd /\ batch' \subseteq batch
        /\ \A e \in batch' : e.fd # fd
    BY <1>5
  <2>2. left' \in [Conns -> Nat] BY TimerOps
  <2>3. UNCHANGED <<live, timerFd, userTimer, sock, interest>>
    BY DEF AdjustTimer, TS!Adjust
  <2>4. userTimer[fd] \in live BY DEF AdjustTimer, TS!Adjust
  <2>5. fd # None /\ spinFd' = fd /\ mpc' = "spin" BY Parameters
  <2> HIDE DEF HandOver
  <2> QED BY <2>1, <2>2, <2>3, <2>4, <2>5
          DEF TInv, TimerTypes, Registered, OneEventEach, MainShape, TimerAlive
<1>10. CASE SpinEnds
  <2> USE <1>10 DEF SpinEnds
  <2>1. mpc = "spin" /\ mpc' = "batch" /\ spinFd' = None /\ batch' = batch
    OBVIOUS
  <2>2. CASE UNCHANGED <<epoll, timers>>
    BY <2>1, <2>2, Parameters
       DEF TInv, TimerTypes, Registered, OneEventEach, MainShape, TimerAlive
  <2>3. CASE DealTimer(spinFd) /\ spinFd \in Fds
    <3>1. timerFd[userTimer[spinFd]] = spinFd BY <2>3 DEF TInv, TimerAlive
    <3>2. \A e \in batch' : e.fd # spinFd BY <2>1, <2>3, Parameters DEF TInv, MainShape
    <3> QED BY <2>1, <2>3, <3>1, <3>2, DealTimerStep
  <2> QED BY <2>1, <2>2, <2>3 DEF TInv, TimerTypes, MainShape
<1>11. CASE EndBatch
  <2> USE <1>11 DEF EndBatch
  <2>1. batch = {} /\ batch' = {} /\ spinFd' = None /\ mpc' # "spin"
    BY DEF TInv, MainShape
  <2>2. CASE TimerHandler
    <3> USE <2>2 DEF TimerHandler
    <3>1. live' = live \ TS!Expired /\ left' = left BY DEF TS!Tick
    <3>2. CloseAll({timerFd[c] : c \in TS!Expired}) OBVIOUS
    <3>3. ASSUME NEW fd \in Fds, sock[fd] # None,
                 fd \notin {timerFd[c] : c \in TS!Expired}
          PROVE  userTimer[fd] \in live'
      BY <3>1, <3>3 DEF TInv, TimerAlive
    <3> QED BY <2>1, <3>1, <3>2, <3>3, ClosingStep DEF TInv, TimerTypes
  <2>3. CASE UNCHANGED <<live, left, epoll, m_user_count, alarm>>
    BY <2>1, <2>3, Parameters
       DEF TInv, TimerTypes, Registered, OneEventEach, MainShape, TimerAlive
  <2> QED BY <2>2, <2>3
<1> QED BY <1>1, <1>2, <1>3, <1>4, <1>6, <1>7, <1>8, <1>9, <1>10, <1>11 DEF Main

LEMMA TInvariance == Spec => []TInv
<1>1. TInv /\ [Next]_vars => TInv'
  <2> SUFFICES ASSUME TInv, [Next]_vars PROVE TInv' OBVIOUS
  <2>1. CASE UNCHANGED vars
    BY <2>1 DEF vars, epoll, timers, loop,
                TInv, TimerTypes, Registered, OneEventEach, MainShape, TimerAlive
  <2> QED BY <2>1, QuietSteps, MainSteps DEF Next
<1> QED BY InitTInv, <1>1, PTL DEF Spec

\* The main thread never uses a deleted timer through users_timer[fd].timer, although
\* nothing resets that pointer: in either actor model, however slow the workers are,
\* also when close_conn() in a worker left a timer behind.
THEOREM NoDanglingTimer == Spec => []TimerAlive
<1>1. TInv => TimerAlive BY DEF TInv
<1> QED BY TInvariance, <1>1, PTL
-----------------------------------------------------------------------------
\* The chain alarm(), SIGALRM, pipe, timeout, timer_handler(), alarm() has exactly one
\* link at work, so that tick() keeps being called and is never called twice for one
\* signal.
THEOREM AlarmChain == Spec => []AlarmNeverLost
<1>1. Init => AlarmNeverLost BY DEF Init, AlarmNeverLost
<1>2. AlarmNeverLost /\ [Next]_vars => AlarmNeverLost'
  <2> SUFFICES ASSUME AlarmNeverLost, [Next]_vars PROVE AlarmNeverLost' OBVIOUS
  <2>1. UNCHANGED <<alarm, pipe, timeout>> => AlarmNeverLost' BY DEF AlarmNeverLost
  <2> USE DEF signals
  <2>2. CASE Client BY <2>1, <2>2 DEF Client, Connect, Send, Shut, Drain
  <2>3. CASE Clock BY <2>3 DEF Clock, AlarmNeverLost
  <2>4. CASE SigAlrm BY <2>4 DEF SigAlrm, AlarmNeverLost
  <2>5. CASE SigTerm BY <2>5 DEF SigTerm, AlarmNeverLost
  <2>6. CASE DealWithSignal BY <2>6 DEF DealWithSignal, AlarmNeverLost
  <2>7. CASE EndBatch BY <2>7 DEF EndBatch, TimerHandler, AlarmNeverLost
  <2>8. CASE EpollWait \/ AcceptFails \/ ServerBusy \/ SpinEnds
    BY <2>1, <2>8 DEF EpollWait, AcceptFails, ServerBusy, SpinEnds
  <2>9. ASSUME NEW c \in Conns, NEW fd \in Fds, Accept(c, fd) PROVE AlarmNeverLost'
    BY <2>1, <2>9 DEF Accept
  <2>10. ASSUME NEW fd \in Fds,
                \/ HangUp(fd) \/ ReadProactor(fd) \/ WriteProactor(fd)
                \/ HandOver(fd, "in", 0) \/ HandOver(fd, "out", 1)
         PROVE  AlarmNeverLost'
    BY <2>1, <2>10 DEF HangUp, ReadProactor, WriteProactor, HandOver
  <2>11. ASSUME NEW w \in Workers, Work(w) PROVE AlarmNeverLost'
    BY <2>1, <2>11 DEF Work, Take, Recv, Transmit, Improv, Verdict, Parse, Fill, CloseConn,
                       Forget, LoadCount, StoreCount, Rearm
  <2>12. CASE UNCHANGED vars BY <2>1, <2>12 DEF vars
  <2> QED BY <2>2, <2>3, <2>4, <2>5, <2>6, <2>7, <2>8, <2>9, <2>10, <2>11, <2>12
          DEF Next, Main
<1> QED BY <1>1, <1>2, PTL DEF Spec

-----------------------------------------------------------------------------
(* Types.  A worker that is not idle has a request; nothing else is needed. *)

\* TypeOK, without the configuration and the two history flags.
BaseTypes ==
    /\ phase \in [Conns -> {"new", "open", "shut"}]
    /\ budget \in [Conns -> Nat]
    /\ inbox \in [Conns -> Nat]
    /\ room \in [Conns -> {0, 1}]
    /\ backlog \subseteq Conns /\ edge \in BOOLEAN
    /\ sock \in [Fds -> Conns \cup {None}]
    /\ interest \in [Fds -> {"none", "off", "in", "out"}]
    /\ alarm \in {"off", "armed", "due"} /\ pipe \subseteq {"ALRM", "TERM"}
    /\ users \in [Fds -> UserType]
    /\ m_user_count \in Int
    /\ live \subseteq Conns /\ left \in [Conns -> 0..Life]
    /\ timerFd \in [Conns -> Fds \cup {None}]
    /\ userTimer \in [Fds -> Conns \cup {None}]
    /\ m_workqueue \in Seq(Fds)
    /\ worker \in [Workers -> [pc : WorkerPCs, fd : Fds \cup {None},
                               src : Conns \cup {None}, load : Int]]
    /\ mpc \in {"wait", "batch", "accept", "spin", "stopped"}
    /\ batch \subseteq EventType /\ spinFd \in Fds \cup {None}
    /\ timeout \in BOOLEAN /\ stop_server \in BOOLEAN
    /\ answered \subseteq (Conns \cup {None}) \X Conns

OtherTypes == mode \in Modes /\ missed \in BOOLEAN /\ turnedAway \in BOOLEAN

LEMMA InitOther == Init => OtherTypes
BY DEF Init, OtherTypes

LEMMA OtherStep == OtherTypes /\ [Next]_vars => OtherTypes'
<1> SUFFICES ASSUME OtherTypes, [Next]_vars PROVE OtherTypes' OBVIOUS
<1>1. CASE UNCHANGED <<mode, missed, turnedAway>> BY <1>1 DEF OtherTypes
<1>2. CASE AcceptFails \/ ServerBusy BY <1>2 DEF OtherTypes, AcceptFails, ServerBusy
<1>3. CASE SpinEnds BY <1>3 DEF OtherTypes, SpinEnds
<1>4. Client => UNCHANGED <<mode, missed, turnedAway>>
  BY DEF Client, Connect, Send, Shut, Drain
<1>5. Main => \/ UNCHANGED <<mode, missed, turnedAway>>
              \/ AcceptFails \/ ServerBusy \/ SpinEnds
  BY DEF Main, EpollWait, Accept, DealWithSignal, HangUp, ReadProactor, WriteProactor,
         HandOver, EndBatch
<1>6. ASSUME NEW w \in Workers, Work(w) PROVE UNCHANGED <<mode, missed, turnedAway>>
  BY <1>6 DEF Work, Take, Recv, Transmit, Improv, Verdict, Parse, Fill, CloseConn, Forget,
              LoadCount, StoreCount, Rearm
<1>7. Clock \/ SigAlrm \/ SigTerm \/ UNCHANGED vars
      => UNCHANGED <<mode, missed, turnedAway>>
  BY DEF Clock, SigAlrm, SigTerm, vars
<1> QED BY <1>1, <1>2, <1>3, <1>4, <1>5, <1>6, <1>7 DEF Next

LEMMA LeastType ==
    ASSUME NEW a \in Nat, NEW b \in Nat
    PROVE  Least(a, b) \in 0..a /\ Least(a, b) \in 0..b
BY DEF Least

LEMMA UserTypes ==
    /\ NewUser \in UserType
    /\ \A fd \in Fds : [NewUser EXCEPT !.sockfd = fd] \in UserType
    /\ \A u \in UserType : Cleared(u) \in UserType
<1>0. 0 \in 0..BufSize BY Parameters
<1>1. NewUser \in UserType BY <1>0 DEF NewUser, UserType
<1>2. ASSUME NEW fd \in Fds PROVE [NewUser EXCEPT !.sockfd = fd] \in UserType
  BY <1>0, <1>2 DEF NewUser, UserType
<1>3. ASSUME NEW u \in UserType PROVE Cleared(u) \in UserType
  BY <1>0, <1>3 DEF Cleared, UserType
<1> QED BY <1>1, <1>2, <1>3

\* read_once() keeps the object and the socket buffer within their sizes.
LEMMA ReadTypes ==
    ASSUME BaseTypes, NEW fd \in Fds
    PROVE  /\ AfterRead(fd) \in UserType
           /\ ReadInbox(fd) => inbox' \in [Conns -> Nat]
<1> USE Parameters DEF BaseTypes
<1>1. users[fd] \in UserType /\ users[fd].sockfd \in Fds \cup {None, Stdin} /\ users[fd].got \in 0..BufSize
  BY DEF UserType
<1>2. Peer(fd) \in Conns \cup {None} BY <1>1 DEF Peer
<1>3. Readable(fd) \in 0..(BufSize - users[fd].got)
      /\ (Peer(fd) # None => Readable(fd) \in 0..inbox[Peer(fd)])
  <2>1. CASE Peer(fd) = None BY <1>1, <2>1 DEF Readable
  <2>2. CASE Peer(fd) # None
    <3>1. inbox[Peer(fd)] \in Nat /\ BufSize - users[fd].got \in Nat
      BY <1>1, <1>2, <2>2
    <3> QED BY <2>2, <3>1, LeastType DEF Readable
  <2> QED BY <2>1, <2>2
<1>4. users[fd].got + Readable(fd) \in 0..BufSize BY <1>1, <1>3
<1>5. AfterRead(fd) \in UserType
  BY <1>1, <1>2, <1>4 DEF AfterRead, UserType
<1>6. ReadInbox(fd) => inbox' \in [Conns -> Nat]
  BY <1>2, <1>3 DEF ReadInbox
<1> QED BY <1>5, <1>6

\* write() as well, and it sends no more than the socket buffer takes.
LEMMA WriteTypes ==
    ASSUME BaseTypes, NEW fd \in Fds, NEW r \in Writes(fd)
    PROVE  /\ r.user \in UserType
           /\ r.ev \in {"keep", "in", "out"}
           /\ r.ok \in BOOLEAN /\ r.init \in BOOLEAN
           /\ Sent(fd, r.sent) => /\ room' \in [Conns -> {0, 1}]
                                  /\ answered' \subseteq (Conns \cup {None}) \X Conns
<1> USE Parameters DEF BaseTypes
<1>1. users[fd] \in UserType /\ users[fd].sockfd \in Fds \cup {None, Stdin}
      /\ users[fd].out \in Nat /\ users[fd].linger \in BOOLEAN
      /\ users[fd].osrc \in Conns \cup {None}
  BY DEF UserType
<1>2. Peer(fd) \in Conns \cup {None} BY <1>1 DEF Peer
<1>3. Cleared(users[fd]) \in UserType BY <1>1, UserTypes
<1>4. CASE users[fd].out = 0
  <2>1. r = [ok |-> TRUE, user |-> Cleared(users[fd]), init |-> TRUE, ev |-> "in", sent |-> 0]
    BY <1>4 DEF Writes
  <2> QED BY <1>3, <2>1 DEF Sent
<1>5. CASE users[fd].out # 0 /\ Peer(fd) = None
  <2> DEFINE u == users[fd]
  <2>1. CASE r = [ok |-> FALSE, user |-> u, init |-> FALSE, ev |-> "keep", sent |-> 0]
    BY <1>1, <2>1 DEF Sent
  <2>2. CASE r # [ok |-> FALSE, user |-> u, init |-> FALSE, ev |-> "keep", sent |-> 0]
    <3>1. PICK n \in 0..u.out :
             r = IF n < u.out
                 THEN [ok |-> TRUE, user |-> [u EXCEPT !.out = @ - n], init |-> FALSE,
                       ev |-> "out", sent |-> 0]
                 ELSE [ok |-> u.linger,
                       user |-> IF u.linger THEN Cleared(u) ELSE [u EXCEPT !.out = 0],
                       init |-> u.linger, ev |-> "in", sent |-> 0]
      BY <1>5, <2>2 DEF Writes
    <3>2. u \in UserType /\ Cleared(u) \in UserType /\ u.linger \in BOOLEAN BY <1>1, <1>3
    <3>3. u.out - n \in Nat BY <1>1, <3>1
    <3> HIDE DEF u
    <3>4. [u EXCEPT !.out = @ - n] \in UserType /\ [u EXCEPT !.out = 0] \in UserType
      BY <3>2, <3>3 DEF UserType
    <3>5. r.user \in UserType /\ r.ev \in {"in", "out"} /\ r.ok \in BOOLEAN
          /\ r.init \in BOOLEAN /\ r.sent = 0
      BY <3>1, <3>2, <3>4
    <3> QED BY <3>5 DEF Sent
  <2> QED BY <2>1, <2>2
<1>6. CASE users[fd].out # 0 /\ Peer(fd) # None
  <2> DEFINE u == users[fd]
             n == Least(u.out, room[Peer(fd)])
  <2>1. n \in 0..room[Peer(fd)] /\ n \in 0..u.out /\ room[Peer(fd)] \in {0, 1}
    <3>1. room[Peer(fd)] \in {0, 1} BY <1>2, <1>6
    <3>2. room[Peer(fd)] \in Nat /\ u.out \in Nat BY <1>1, <3>1
    <3> QED BY <3>1, <3>2, LeastType
  <2>2. [u EXCEPT !.out = @ - n] \in UserType /\ [u EXCEPT !.out = 0] \in UserType
    <3>1. u.out - n \in Nat BY <1>1, <2>1
    <3> HIDE DEF n
    <3>2. u \in UserType BY <1>1
    <3> HIDE DEF u
    <3> QED BY <3>1, <3>2 DEF UserType
  <2>3. r \in {[ok |-> FALSE, user |-> u, init |-> FALSE, ev |-> "keep", sent |-> 0],
               [ok |-> TRUE, user |-> [u EXCEPT !.out = @ - n], init |-> FALSE, ev |-> "out",
                sent |-> n],
               [ok |-> u.linger,
                user |-> IF u.linger THEN Cleared(u) ELSE [u EXCEPT !.out = 0],
                init |-> u.linger, ev |-> "in", sent |-> n]}
    BY <1>6 DEF Writes
  <2>4. r.sent \in {0, n} /\ r.user \in UserType /\ r.ev \in {"keep", "in", "out"}
        /\ r.ok \in BOOLEAN /\ r.init \in BOOLEAN
    <3>1. u \in UserType /\ Cleared(u) \in UserType /\ u.linger \in BOOLEAN BY <1>1, <1>3
    <3> HIDE DEF u, n
    <3>2. CASE r = [ok |-> FALSE, user |-> u, init |-> FALSE, ev |-> "keep", sent |-> 0] BY <3>1, <3>2
    <3>3. CASE r = [ok |-> TRUE, user |-> [u EXCEPT !.out = @ - n], init |-> FALSE, ev |-> "out",
                    sent |-> n]
      BY <2>2, <3>3
    <3>4. CASE r = [ok |-> u.linger,
                    user |-> IF u.linger THEN Cleared(u) ELSE [u EXCEPT !.out = 0],
                    init |-> u.linger, ev |-> "in", sent |-> n]
      BY <2>2, <3>1, <3>4
    <3> QED BY <2>3, <3>2, <3>3, <3>4
  <2>5. ASSUME Sent(fd, r.sent)
        PROVE  room' \in [Conns -> {0, 1}] /\ answered' \subseteq (Conns \cup {None}) \X Conns
    <3> HIDE DEF n
    <3> QED BY <1>1, <1>2, <1>6, <2>1, <2>4, <2>5 DEF Sent
  <2> QED BY <2>4, <2>5
<1> QED BY <1>4, <1>5, <1>6

ClientTypes == /\ phase \in [Conns -> {"new", "open", "shut"}]
               /\ budget \in [Conns -> Nat]
               /\ inbox \in [Conns -> Nat]
               /\ room \in [Conns -> {0, 1}]
               /\ backlog \subseteq Conns /\ edge \in BOOLEAN
               /\ answered \subseteq (Conns \cup {None}) \X Conns
SocketTypes == /\ sock \in [Fds -> Conns \cup {None}]
               /\ interest \in [Fds -> {"none", "off", "in", "out"}]
SignalTypes == /\ alarm \in {"off", "armed", "due"} /\ pipe \subseteq {"ALRM", "TERM"}
               /\ timeout \in BOOLEAN /\ stop_server \in BOOLEAN
ObjectTypes == /\ users \in [Fds -> UserType]
               /\ m_user_count \in Int
               /\ m_workqueue \in Seq(Fds)
ListTypes == /\ live \subseteq Conns /\ left \in [Conns -> 0..Life]
             /\ timerFd \in [Conns -> Fds \cup {None}]
             /\ userTimer \in [Fds -> Conns \cup {None}]
WorkerTypes == worker \in [Workers -> [pc : WorkerPCs, fd : Fds \cup {None},
                                       src : Conns \cup {None}, load : Int]]
LoopTypes == /\ mpc \in {"wait", "batch", "accept", "spin", "stopped"}
             /\ batch \subseteq EventType /\ spinFd \in Fds \cup {None}

LEMMA TypeParts ==
    /\ BaseTypes <=> /\ ClientTypes /\ SocketTypes /\ SignalTypes /\ ObjectTypes
                  /\ ListTypes /\ WorkerTypes /\ LoopTypes
    /\ BaseTypes' <=> /\ ClientTypes' /\ SocketTypes' /\ SignalTypes' /\ ObjectTypes'
                   /\ ListTypes' /\ WorkerTypes' /\ LoopTypes'
BY DEF BaseTypes, ClientTypes, SocketTypes, SignalTypes, ObjectTypes, ListTypes, WorkerTypes,
       LoopTypes

LEMMA InitTypes == Init => BaseTypes /\ WorkerHasRequest
<1> SUFFICES ASSUME Init PROVE BaseTypes /\ WorkerHasRequest OBVIOUS
<1> USE DEF Init
<1>1. ClientTypes
  BY Parameters DEF ClientTypes
<1>2. SocketTypes /\ SignalTypes /\ LoopTypes
  BY DEF SocketTypes, SignalTypes, LoopTypes
<1>3. ObjectTypes BY UserTypes DEF ObjectTypes
<1>4. ListTypes BY Parameters DEF ListTypes, TS!Init
<1>5. WorkerTypes /\ WorkerHasRequest
  BY DEF WorkerTypes, WorkerHasRequest, Idle, WorkerPCs
<1> QED BY <1>1, <1>2, <1>3, <1>4, <1>5, TypeParts

\* Each part keeps its type where its variables do not change.
LEMMA UnchangedTypes ==
    ASSUME BaseTypes
    PROVE  /\ UNCHANGED <<net, answered>> => ClientTypes'
           /\ UNCHANGED epoll => SocketTypes'
           /\ UNCHANGED signals => SignalTypes'
           /\ UNCHANGED <<users, m_user_count, m_workqueue>> => ObjectTypes'
           /\ UNCHANGED timers => ListTypes'
           /\ UNCHANGED worker => WorkerTypes' /\ (WorkerHasRequest => WorkerHasRequest')
           /\ UNCHANGED loop => LoopTypes'
BY DEF BaseTypes, ClientTypes, SocketTypes, SignalTypes, ObjectTypes, ListTypes, WorkerTypes,
       LoopTypes, WorkerHasRequest, net, epoll, signals, timers, loop

LEMMA CloseTypes ==
    ASSUME BaseTypes, NEW S, CloseAll(S)
    PROVE  SocketTypes'
BY DEF BaseTypes, SocketTypes, CloseAll

LEMMA ModfdTypes ==
    ASSUME BaseTypes, NEW s, NEW ev \in {"in", "out"}
    PROVE  Modfd(interest, s, ev) \in [Fds -> {"none", "off", "in", "out"}]
BY DEF BaseTypes, Modfd

LEMMA TimerTypeSteps ==
    ASSUME BaseTypes
    PROVE  /\ \A fd \in Fds : AdjustTimer(fd) => ListTypes'
           /\ \A fd : DealTimer(fd) => ListTypes' /\ SocketTypes' /\ m_user_count' \in Int
           /\ TS!Pass /\ UNCHANGED <<timerFd, userTimer>> => ListTypes'
           /\ TS!Tick /\ UNCHANGED <<timerFd, userTimer>> => ListTypes'
<1> USE Parameters DEF BaseTypes, ListTypes
<1>1. ASSUME NEW fd \in Fds, AdjustTimer(fd) PROVE ListTypes'
  BY <1>1 DEF AdjustTimer, TS!Adjust
<1>2. ASSUME NEW fd, DealTimer(fd) PROVE ListTypes' /\ SocketTypes' /\ m_user_count' \in Int
  <2>1. SocketTypes' BY <1>2, CloseTypes DEF DealTimer
  <2>2. m_user_count' \in Int BY <1>2 DEF DealTimer
  <2>3. ListTypes'
    <3>1. 0 \in 0..Life OBVIOUS
    <3> QED BY <1>2, <3>1 DEF DealTimer, TS!Del
  <2> QED BY <2>1, <2>2, <2>3
<1>3. ASSUME TS!Pass, UNCHANGED <<timerFd, userTimer>> PROVE ListTypes'
  BY <1>3 DEF TS!Pass
<1>4. ASSUME TS!Tick, UNCHANGED <<timerFd, userTimer>> PROVE ListTypes'
  BY <1>4 DEF TS!Tick
<1> QED BY <1>1, <1>2, <1>3, <1>4

LEMMA ClientTypeStep ==
    ASSUME BaseTypes, WorkerHasRequest, Client \/ SigAlrm \/ SigTerm \/ Clock
    PROVE  BaseTypes' /\ WorkerHasRequest'
<1>1. CASE Client
  <2>1. ClientTypes'
    <3> USE DEF BaseTypes, ClientTypes
    <3>1. PICK c \in Conns : Connect(c) \/ Send(c) \/ Shut(c) \/ Drain(c)
      BY <1>1 DEF Client
    <3>2. CASE Connect(c) BY <3>2 DEF Connect, epoll
    <3>3. CASE Send(c)
      <4>1. budget[c] - 1 \in Nat BY <3>3, Parameters DEF Send
      <4>2. budget' = [budget EXCEPT ![c] = @ - 1] /\ inbox' = [inbox EXCEPT ![c] = @ + 1]
            /\ UNCHANGED <<phase, room, backlog, edge, answered>>
        BY <3>3 DEF Send
      <4>3. budget' \in [Conns -> Nat] BY <4>1, <4>2
      <4>4. inbox' \in [Conns -> Nat] BY <4>2
      <4> QED BY <4>2, <4>3, <4>4
    <3>4. CASE Shut(c) BY <3>4 DEF Shut
    <3>5. CASE Drain(c) BY <3>5 DEF Drain
    <3> QED BY <3>1, <3>2, <3>3, <3>4, <3>5
  <2>2. UNCHANGED <<epoll, signals, users, m_user_count, m_workqueue, timers, worker, loop>>
    BY <1>1 DEF Client, Connect, Send, Shut, Drain
  <2> QED BY <2>1, <2>2, UnchangedTypes, TypeParts
<1>2. CASE SigAlrm \/ SigTerm
  <2>1. SignalTypes' BY <1>2 DEF BaseTypes, SignalTypes, SigAlrm, SigTerm
  <2>2. UNCHANGED <<net, answered, epoll, users, m_user_count, m_workqueue, timers, worker, loop>>
    BY <1>2 DEF SigAlrm, SigTerm
  <2> QED BY <2>1, <2>2, UnchangedTypes, TypeParts
<1>3. CASE Clock
  <2>1. SignalTypes' BY <1>3 DEF BaseTypes, SignalTypes, Clock
  <2>2. ListTypes' BY <1>3, TimerTypeSteps DEF Clock
  <2>3. UNCHANGED <<net, answered, epoll, users, m_user_count, m_workqueue, worker, loop>>
    BY <1>3 DEF Clock
  <2> QED BY <2>1, <2>2, <2>3, UnchangedTypes, TypeParts
<1> QED BY <1>1, <1>2, <1>3

\* Assignments to the fields of an object, and to those of a worker's record.
LEMMA UserFields ==
    ASSUME NEW u \in UserType
    PROVE  /\ [u EXCEPT !.improv = 1] \in UserType
           /\ [u EXCEPT !.timer_flag = 1] \in UserType
           /\ [u EXCEPT !.timer_flag = 0, !.improv = 0] \in UserType
           /\ [u EXCEPT !.sockfd = None] \in UserType
           /\ \A st \in {0, 1} : [u EXCEPT !.state = st] \in UserType
           /\ \A keep \in BOOLEAN : [u EXCEPT !.linger = keep] \in UserType
           /\ \A n \in Nat, c \in Conns \cup {None} :
                 [u EXCEPT !.out = n, !.osrc = c] \in UserType
<1>2. [u EXCEPT !.improv = 1] \in UserType BY DEF UserType
<1>3. [u EXCEPT !.timer_flag = 1] \in UserType BY DEF UserType
<1>4. [u EXCEPT !.timer_flag = 0, !.improv = 0] \in UserType BY DEF UserType
<1>5. [u EXCEPT !.sockfd = None] \in UserType BY DEF UserType
<1>6. \A st \in {0, 1} : [u EXCEPT !.state = st] \in UserType BY DEF UserType
<1>7. \A keep \in BOOLEAN : [u EXCEPT !.linger = keep] \in UserType BY DEF UserType
<1>8. \A n \in Nat, c \in Conns \cup {None} : [u EXCEPT !.out = n, !.osrc = c] \in UserType
  BY DEF UserType
<1> QED BY <1>2, <1>3, <1>4, <1>5, <1>6, <1>7, <1>8

WorkerType == [pc : WorkerPCs, fd : Fds \cup {None}, src : Conns \cup {None}, load : Int]

LEMMA WorkerFields ==
    ASSUME NEW r \in WorkerType, NEW pc \in WorkerPCs
    PROVE  /\ [r EXCEPT !.pc = pc] \in WorkerType
           /\ [r EXCEPT !.pc = pc].fd = r.fd /\ [r EXCEPT !.pc = pc].pc = pc
BY DEF WorkerType

\* The record of a worker in the form that says what every field is.
LEMMA WorkerReadsSource ==
    ASSUME NEW q \in WorkerType, NEW pc \in WorkerPCs, NEW c \in Conns \cup {None},
           NEW r, r = [q EXCEPT !.pc = pc, !.src = c]
    PROVE  r = [pc |-> pc, fd |-> q.fd, src |-> c, load |-> q.load]
<1>1. r \in WorkerType BY DEF WorkerType
<1> QED BY <1>1 DEF WorkerType

LEMMA WorkerReadsCount ==
    ASSUME NEW q \in WorkerType, NEW pc \in WorkerPCs, NEW n \in Int,
           NEW r, r = [q EXCEPT !.pc = pc, !.load = n]
    PROVE  r = [pc |-> pc, fd |-> q.fd, src |-> q.src, load |-> n]
<1>1. r \in WorkerType BY DEF WorkerType
<1> QED BY <1>1 DEF WorkerType

\* One object is assigned: the others keep their type.
LEMMA UserAssigned ==
    ASSUME BaseTypes, NEW fd \in Fds, NEW u \in UserType
    PROVE  [users EXCEPT ![fd] = u] \in [Fds -> UserType]
BY DEF BaseTypes

\* So they do where init() of the object reaches into others.
LEMMA PutTypes ==
    ASSUME BaseTypes, NEW fd \in Fds, NEW u \in UserType, NEW init \in BOOLEAN
    PROVE  Put(fd, u, init) \in [Fds -> UserType]
<1>1. ASSUME NEW v \in UserType PROVE [v EXCEPT !.sockfd = Stdin] \in UserType
  BY <1>1 DEF UserType
<1>2. users \in [Fds -> UserType] BY DEF BaseTypes
<1> QED BY <1>1, <1>2 DEF Put

\* One worker moves, with its request or without one.
LEMMA WorkerAssigned ==
    ASSUME BaseTypes, WorkerHasRequest, NEW w \in Workers, NEW r \in WorkerType,
           worker' = [worker EXCEPT ![w] = r], r.pc # "idle" => r.fd \in Fds
    PROVE  WorkerTypes' /\ WorkerHasRequest'
BY DEF BaseTypes, WorkerTypes, WorkerHasRequest, WorkerType

LEMMA InHands == BaseTypes => \A w \in Workers : worker[w] \in WorkerType
BY DEF BaseTypes, WorkerType

LEMMA GotoTypes ==
    ASSUME BaseTypes, WorkerHasRequest, NEW w \in Workers,
           \/ /\ worker[w].pc # "idle"
              /\ \E pc \in WorkerPCs : worker' = [worker EXCEPT ![w].pc = pc]
           \/ worker' = [worker EXCEPT ![w] = Idle]
    PROVE  WorkerTypes' /\ WorkerHasRequest'
<1>1. worker[w] \in WorkerType BY DEF BaseTypes, WorkerType
<1>2. CASE worker' = [worker EXCEPT ![w] = Idle]
  <2>1. Idle \in WorkerType /\ Idle.pc = "idle" BY DEF Idle, WorkerPCs, WorkerType
  <2> QED BY <1>2, <2>1, WorkerAssigned
<1>3. ASSUME worker[w].pc # "idle", NEW pc \in WorkerPCs, worker' = [worker EXCEPT ![w].pc = pc]
      PROVE  WorkerTypes' /\ WorkerHasRequest'
  <2>1. worker[w].fd \in Fds BY <1>3 DEF WorkerHasRequest
  <2>2. PICK r \in WorkerType : r = [worker[w] EXCEPT !.pc = pc] /\ r.fd \in Fds
    BY <1>1, <2>1, WorkerFields
  <2>3. worker' = [worker EXCEPT ![w] = r] BY <1>3, <2>2
  <2> QED BY <2>2, <2>3, WorkerAssigned
<1> QED BY <1>2, <1>3

LEMMA WorkerTypeStep ==
    ASSUME BaseTypes, WorkerHasRequest, NEW w \in Workers, Work(w)
    PROVE  BaseTypes' /\ WorkerHasRequest'
<1> DEFINE fd == worker[w].fd
<1>1. worker[w].pc # "idle" => fd \in Fds BY DEF WorkerHasRequest
<1>2. WorkerPCs = {"idle", "recv", "send", "received", "sent", "failed", "verdict", "parse",
                   "fill", "close", "forget", "load", "store", "rearmIn", "rearmOut"}
  BY DEF WorkerPCs
<1>3. CASE Take(w)
  <2> USE <1>3 DEF Take
  <2>1. Head(m_workqueue) \in Fds /\ m_workqueue' \in Seq(Fds) BY DEF BaseTypes
  <2>2. PICK pc \in {"parse", "recv", "send"} :
           worker' = [worker EXCEPT ![w] = [Idle EXCEPT !.fd = Head(m_workqueue), !.pc = pc]]
    <3>1. CASE ~Reactor BY <3>1
    <3>2. CASE Reactor /\ users[Head(m_workqueue)].state = 0 BY <3>2
    <3>3. CASE Reactor /\ users[Head(m_workqueue)].state # 0 BY <3>3
    <3> QED BY <3>1, <3>2, <3>3
  <2>3. WorkerTypes' /\ WorkerHasRequest'
    <3>1. PICK r : r = [Idle EXCEPT !.fd = Head(m_workqueue), !.pc = pc] OBVIOUS
    <3>2. r \in WorkerType /\ r.fd = Head(m_workqueue)
      <4>1. r = [pc |-> pc, fd |-> Head(m_workqueue), src |-> None, load |-> 0]
        BY <3>1 DEF Idle
      <4>2. pc \in WorkerPCs BY <1>2
      <4> QED BY <2>1, <4>1, <4>2 DEF WorkerType
    <3>3. worker' = [worker EXCEPT ![w] = r] BY <2>2, <3>1
    <3> QED BY <2>1, <3>2, <3>3, WorkerAssigned
  <2>4. ObjectTypes' BY <2>1 DEF BaseTypes, ObjectTypes
  <2>5. UNCHANGED <<net, answered, epoll, signals, timers, loop>> OBVIOUS
  <2> QED BY <2>3, <2>4, <2>5, UnchangedTypes, TypeParts
<1>4. CASE Recv(w)
  <2> USE <1>4 DEF Recv
  <2>1. fd \in Fds BY <1>1
  <2>2. ClientTypes'
    <3>1. inbox' \in [Conns -> Nat] BY <2>1, ReadTypes
    <3> QED BY <3>1 DEF BaseTypes, ClientTypes
  <2>3. ObjectTypes' BY <2>1, ReadTypes DEF BaseTypes, ObjectTypes
  <2>4. WorkerTypes' /\ WorkerHasRequest' BY <1>2, GotoTypes DEF Goto
  <2>5. UNCHANGED <<epoll, signals, timers, loop>> OBVIOUS
  <2> QED BY <2>2, <2>3, <2>4, <2>5, UnchangedTypes, TypeParts
<1>5. CASE Transmit(w)
  <2>1. fd \in Fds BY <1>1, <1>5 DEF Transmit
  <2>2. PICK r \in Writes(fd) : /\ users' = Put(fd, r.user, r.init)
                                /\ Sent(fd, r.sent)
                                /\ interest' = AfterWrite(fd, r.ev)
                                /\ Goto(w, IF r.ok THEN "sent" ELSE "failed")
    BY <1>5 DEF Transmit
  <2>3. UNCHANGED <<phase, budget, inbox, backlog, edge, sock, timers, signals, loop,
                    m_user_count, m_workqueue>>
    BY <1>5 DEF Transmit
  <2>4. ClientTypes' BY <2>1, <2>2, <2>3, WriteTypes DEF BaseTypes, ClientTypes
  <2>5. ObjectTypes' BY <2>1, <2>2, <2>3, WriteTypes, PutTypes DEF BaseTypes, ObjectTypes
  <2>6. SocketTypes'
    <3>1. r.ev \in {"keep", "in", "out"} BY <2>1, WriteTypes
    <3>2. interest' \in [Fds -> {"none", "off", "in", "out"}]
      BY <2>2, <3>1, ModfdTypes DEF AfterWrite, BaseTypes
    <3> QED BY <2>3, <3>2 DEF BaseTypes, SocketTypes
  <2>7. WorkerTypes' /\ WorkerHasRequest'
    BY <1>2, <1>5, <2>2, GotoTypes DEF Goto, Transmit
  <2> QED BY <2>3, <2>4, <2>5, <2>6, <2>7, UnchangedTypes, TypeParts
<1>6. CASE Improv(w)
  <2> USE <1>6 DEF Improv
  <2>1. fd \in Fds BY <1>1
  <2>2. [users[fd] EXCEPT !.improv = 1] \in UserType BY <2>1, UserFields DEF BaseTypes
  <2>3. ObjectTypes' BY <2>1, <2>2, UserAssigned DEF BaseTypes, ObjectTypes
  <2>4. WorkerTypes' /\ WorkerHasRequest'
    <3>1. CASE worker[w].pc = "received"
      <4>1. worker' = [worker EXCEPT ![w].pc = "parse"] BY <3>1
      <4> QED BY <3>1, <4>1, <1>2, GotoTypes
    <3>2. CASE worker[w].pc = "failed"
      <4>1. worker' = [worker EXCEPT ![w].pc = "verdict"] BY <3>2
      <4> QED BY <3>2, <4>1, <1>2, GotoTypes
    <3>3. CASE worker[w].pc = "sent"
      <4>1. worker' = [worker EXCEPT ![w] = Idle] BY <3>3
      <4> QED BY <4>1, GotoTypes
    <3> QED BY <3>1, <3>2, <3>3
  <2>5. UNCHANGED <<net, answered, epoll, signals, timers, loop>> OBVIOUS
  <2> QED BY <2>3, <2>4, <2>5, UnchangedTypes, TypeParts
<1>7. CASE Verdict(w)
  <2> USE <1>7 DEF Verdict
  <2>1. fd \in Fds BY <1>1
  <2>2. [users[fd] EXCEPT !.timer_flag = 1] \in UserType BY <2>1, UserFields DEF BaseTypes
  <2>3. ObjectTypes' BY <2>1, <2>2, UserAssigned DEF BaseTypes, ObjectTypes
  <2>4. WorkerTypes' /\ WorkerHasRequest' BY GotoTypes
  <2>5. UNCHANGED <<net, answered, epoll, signals, timers, loop>> OBVIOUS
  <2> QED BY <2>3, <2>4, <2>5, UnchangedTypes, TypeParts
<1>8. CASE Parse(w)
  <2> USE <1>8 DEF Parse
  <2>1. fd \in Fds BY <1>1
  <2>2. CASE \/ Goto(w, "rearmIn") /\ UNCHANGED users
             \/ Goto(w, "close") /\ UNCHANGED users
    <3>1. WorkerTypes' /\ WorkerHasRequest' BY <2>2, <1>2, GotoTypes DEF Goto
    <3>2. UNCHANGED <<net, answered, epoll, signals, timers, loop, users, m_user_count, m_workqueue>>
      BY <2>2
    <3> QED BY <3>1, <3>2, UnchangedTypes, TypeParts
  <2>3. CASE /\ worker' = [worker EXCEPT ![w].pc = "fill", ![w].src = users[fd].src]
             /\ \E keep \in KeepAlive : users' = [users EXCEPT ![fd].linger = keep]
    <3>1. users[fd].src \in Conns \cup {None} BY <2>1 DEF BaseTypes, UserType
    <3>2. WorkerTypes' /\ WorkerHasRequest'
      <4>1. PICK r : r = [worker[w] EXCEPT !.pc = "fill", !.src = users[fd].src] OBVIOUS
      <4>2. r \in WorkerType /\ r.fd = fd
        <5>1. PICK c \in Conns \cup {None} : c = users[fd].src BY <3>1
        <5>2. PICK q \in WorkerType : q = worker[w] BY InHands
        <5>3. r = [q EXCEPT !.pc = "fill", !.src = c] BY <4>1, <5>1, <5>2
        <5>4. "fill" \in WorkerPCs BY <1>2
        <5>5. r \in WorkerType /\ r.fd = q.fd
          <6>1. r = [pc |-> "fill", fd |-> q.fd, src |-> c, load |-> q.load]
            BY <5>3, <5>4, WorkerReadsSource
          <6> QED BY <5>4, <6>1 DEF WorkerType
        <5> QED BY <5>2, <5>5
      <4>3. worker' = [worker EXCEPT ![w] = r] BY <2>3, <4>1
      <4> QED BY <2>1, <4>2, <4>3, WorkerAssigned
    <3>3. PICK keep \in BOOLEAN : users' = [users EXCEPT ![fd].linger = keep]
      BY <2>3, Parameters
    <3>4. [users[fd] EXCEPT !.linger = keep] \in UserType BY <2>1, UserFields DEF BaseTypes
    <3>5. ObjectTypes' BY <2>1, <3>3, <3>4, UserAssigned DEF BaseTypes, ObjectTypes
    <3>6. UNCHANGED <<net, answered, epoll, signals, timers, loop>> OBVIOUS
    <3> QED BY <3>2, <3>5, <3>6, UnchangedTypes, TypeParts
  <2> QED BY <2>2, <2>3
<1>9. CASE Fill(w)
  <2> USE <1>9 DEF Fill
  <2>1. fd \in Fds BY <1>1
  <2>2. PICK n \in AnswerSizes :
             users' = [users EXCEPT ![fd].out = n, ![fd].osrc = worker[w].src]
    OBVIOUS
  <2>3. [users[fd] EXCEPT !.out = n, !.osrc = worker[w].src] \in UserType
    <3>1. n \in Nat /\ worker[w].src \in Conns \cup {None} BY Parameters DEF BaseTypes
    <3> QED BY <2>1, <3>1, UserFields DEF BaseTypes
  <2>4. ObjectTypes' BY <2>1, <2>2, <2>3, UserAssigned DEF BaseTypes, ObjectTypes
  <2>5. WorkerTypes' /\ WorkerHasRequest' BY <1>2, GotoTypes DEF Goto
  <2>6. UNCHANGED <<net, answered, epoll, signals, timers, loop>> OBVIOUS
  <2> QED BY <2>4, <2>5, <2>6, UnchangedTypes, TypeParts
<1>10. CASE CloseConn(w)
  <2> USE <1>10 DEF CloseConn
  <2>1. SocketTypes' BY CloseTypes, UnchangedTypes
  <2>2. WorkerTypes' /\ WorkerHasRequest' BY <1>2, GotoTypes DEF Goto
  <2>3. UNCHANGED <<net, answered, signals, timers, loop, users, m_user_count, m_workqueue>>
    OBVIOUS
  <2> QED BY <2>1, <2>2, <2>3, UnchangedTypes, TypeParts
<1>11. CASE Forget(w)
  <2> USE <1>11 DEF Forget
  <2>1. fd \in Fds BY <1>1
  <2>2. [users[fd] EXCEPT !.sockfd = None] \in UserType BY <2>1, UserFields DEF BaseTypes
  <2>3. ObjectTypes' BY <2>1, <2>2, UserAssigned DEF BaseTypes, ObjectTypes
  <2>4. WorkerTypes' /\ WorkerHasRequest' BY <1>2, GotoTypes DEF Goto
  <2>5. UNCHANGED <<net, answered, epoll, signals, timers, loop>> OBVIOUS
  <2> QED BY <2>3, <2>4, <2>5, UnchangedTypes, TypeParts
<1>12. CASE LoadCount(w)
  <2> USE <1>12 DEF LoadCount
  <2>1. WorkerTypes' /\ WorkerHasRequest'
    <3>1. PICK r : r = [worker[w] EXCEPT !.pc = "store", !.load = m_user_count] OBVIOUS
    <3>2. r \in WorkerType /\ r.fd = fd
      <4>1. PICK n \in Int : n = m_user_count BY DEF BaseTypes
      <4>2. PICK q \in WorkerType : q = worker[w] BY InHands
      <4>3. r = [q EXCEPT !.pc = "store", !.load = n] BY <3>1, <4>1, <4>2
      <4>4. r \in WorkerType /\ r.fd = q.fd
        <5>1. "store" \in WorkerPCs BY <1>2
        <5>2. r = [pc |-> "store", fd |-> q.fd, src |-> q.src, load |-> n]
          BY <4>3, <5>1, WorkerReadsCount
        <5> QED BY <5>1, <5>2 DEF WorkerType
      <4> QED BY <4>2, <4>4
    <3>3. worker' = [worker EXCEPT ![w] = r] BY <3>1
    <3>4. fd \in Fds BY <1>1
    <3> QED BY <3>2, <3>3, <3>4, WorkerAssigned
  <2>2. UNCHANGED <<net, answered, epoll, signals, timers, loop, users, m_user_count, m_workqueue>>
    OBVIOUS
  <2> QED BY <2>1, <2>2, UnchangedTypes, TypeParts
<1>13. CASE StoreCount(w)
  <2> USE <1>13 DEF StoreCount
  <2>1. worker[w].load \in Int /\ m_user_count \in Int BY DEF BaseTypes
  <2>2. ObjectTypes' BY <2>1 DEF BaseTypes, ObjectTypes
  <2>3. WorkerTypes' /\ WorkerHasRequest' BY <1>2, GotoTypes DEF Goto
  <2>4. UNCHANGED <<net, answered, epoll, signals, timers, loop>> OBVIOUS
  <2> QED BY <2>2, <2>3, <2>4, UnchangedTypes, TypeParts
<1>14. CASE Rearm(w)
  <2> USE <1>14 DEF Rearm
  <2>1. PICK ev \in {"in", "out"} : interest' = Modfd(interest, users[fd].sockfd, ev)
    OBVIOUS
  <2>2. SocketTypes' BY <2>1, ModfdTypes DEF BaseTypes, SocketTypes
  <2>3. WorkerTypes' /\ WorkerHasRequest' BY GotoTypes
  <2>4. UNCHANGED <<net, answered, signals, timers, loop, users, m_user_count, m_workqueue>>
    OBVIOUS
  <2> QED BY <2>2, <2>3, <2>4, UnchangedTypes, TypeParts
<1> QED BY <1>3, <1>4, <1>5, <1>6, <1>7, <1>8, <1>9, <1>10, <1>11, <1>12, <1>13, <1>14
        DEF Work

\* Timers are added one at a time, so those that have expired can be counted.
LiveFinite == IsFiniteSet(live)

LEMMA LiveFiniteStep == LiveFinite /\ [Next]_vars => LiveFinite'
<1> SUFFICES ASSUME LiveFinite, [Next]_vars PROVE LiveFinite' OBVIOUS
<1> USE DEF LiveFinite
<1>1. live' \subseteq live => LiveFinite' BY FS_Subset
<1>2. \A fd : DealTimer(fd) => live' \subseteq live BY DEF DealTimer, TS!Del
<1>3. \A fd : AdjustTimer(fd) => live' \subseteq live BY DEF AdjustTimer, TS!Adjust
<1>4. CASE Client \/ SigAlrm \/ SigTerm \/ Clock \/ UNCHANGED vars
  BY <1>1, <1>4 DEF Client, Connect, Send, Shut, Drain, SigAlrm, SigTerm, Clock, TS!Pass,
                    vars, timers
<1>5. CASE Main
  <2>1. CASE \E c \in Conns, fd \in Fds : Accept(c, fd)
    <3>1. PICK c \in Conns : live' = live \cup {c} BY <2>1 DEF Accept, TS!Add
    <3> QED BY <3>1, FS_AddElement
  <2>2. CASE EpollWait \/ AcceptFails \/ ServerBusy \/ DealWithSignal \/ SpinEnds \/ EndBatch
    BY <1>1, <1>2, <2>2 DEF EpollWait, AcceptFails, ServerBusy, DealWithSignal, SpinEnds,
                            EndBatch, TimerHandler, TS!Tick, timers
  <2>3. ASSUME NEW fd \in Fds,
               \/ HangUp(fd) \/ ReadProactor(fd) \/ WriteProactor(fd)
               \/ HandOver(fd, "in", 0) \/ HandOver(fd, "out", 1)
        PROVE  LiveFinite'
    BY <1>1, <1>2, <1>3, <2>3, SMTT(30) DEF HangUp, ReadProactor, WriteProactor, HandOver
  <2> QED BY <1>5, <2>1, <2>2, <2>3 DEF Main
<1>6. ASSUME NEW w \in Workers, Work(w) PROVE LiveFinite'
  BY <1>1, <1>6 DEF Work, Take, Recv, Transmit, Improv, Verdict, Parse, Fill, CloseConn,
                    Forget, LoadCount, StoreCount, Rearm, timers
<1> QED BY <1>4, <1>5, <1>6 DEF Next

LEMMA MainTypeStep ==
    ASSUME BaseTypes, WorkerHasRequest, TInv, LiveFinite, Main
    PROVE  BaseTypes' /\ WorkerHasRequest'
<1>1. CASE EpollWait
  <2> USE <1>1 DEF EpollWait
  <2>1. Ready \subseteq EventType
    <3>1. ASSUME NEW fd \in Fds, Occurred(fd)
          PROVE  Event(IF phase[sock[fd]] = "shut" THEN "hup" ELSE interest[fd], fd) \in EventType
      <4>1. interest[fd] \in {"in", "out"} BY <3>1 DEF Occurred
      <4> QED BY <4>1 DEF Event, EventType
    <3>2. ListenEvent \in EventType /\ SignalEvent \in EventType
      BY DEF ListenEvent, SignalEvent, EventType
    <3> HIDE DEF EpollWait
    <3> QED BY <3>1, <3>2 DEF Ready
  <2>2. LoopTypes' BY <2>1 DEF BaseTypes, LoopTypes
  <2>3. SocketTypes' BY DEF BaseTypes, SocketTypes, Oneshot
  <2>4. ClientTypes' BY DEF BaseTypes, ClientTypes
  <2>5. UNCHANGED <<signals, timers, users, m_user_count, m_workqueue, worker>> OBVIOUS
  <2> QED BY <2>2, <2>3, <2>4, <2>5, UnchangedTypes, TypeParts
<1>2. CASE AcceptFails \/ ServerBusy
  <2>1. ClientTypes' BY <1>2 DEF BaseTypes, ClientTypes, AcceptFails, ServerBusy, net
  <2>2. LoopTypes' BY <1>2 DEF BaseTypes, LoopTypes, AcceptFails, ServerBusy
  <2>3. UNCHANGED <<epoll, signals, timers, users, m_user_count, m_workqueue, worker>>
    BY <1>2 DEF AcceptFails, ServerBusy
  <2> QED BY <2>1, <2>2, <2>3, UnchangedTypes, TypeParts
<1>3. ASSUME NEW c \in Conns, NEW fd \in Fds, Accept(c, fd)
      PROVE  BaseTypes' /\ WorkerHasRequest'
  <2> USE <1>3 DEF Accept
  <2>1. ClientTypes' BY DEF BaseTypes, ClientTypes
  <2>2. SocketTypes' BY DEF BaseTypes, SocketTypes
  <2>3. ObjectTypes'
    <3>1. [NewUser EXCEPT !.sockfd = fd] \in UserType BY UserTypes
    <3>2. m_user_count' \in Int BY DEF BaseTypes
    <3> QED BY <3>1, <3>2, PutTypes DEF BaseTypes, ObjectTypes
  <2>4. ListTypes' BY Parameters DEF BaseTypes, ListTypes, TS!Add
  <2>5. LoopTypes' BY DEF BaseTypes, LoopTypes, Stay
  <2>6. UNCHANGED <<signals, worker>> OBVIOUS
  <2> QED BY <2>1, <2>2, <2>3, <2>4, <2>5, <2>6, UnchangedTypes, TypeParts
<1>4. CASE DealWithSignal
  <2>1. SignalTypes' BY <1>4, Zenon DEF BaseTypes, SignalTypes, DealWithSignal
  <2>2. LoopTypes' BY <1>4 DEF BaseTypes, LoopTypes, DealWithSignal
  <2>3. UNCHANGED <<net, answered, epoll, timers, users, m_user_count, m_workqueue, worker>>
    BY <1>4 DEF DealWithSignal
  <2> QED BY <2>1, <2>2, <2>3, UnchangedTypes, TypeParts
<1>5. ASSUME NEW fd \in Fds, HangUp(fd) PROVE BaseTypes' /\ WorkerHasRequest'
  <2> USE <1>5 DEF HangUp
  <2>1. ListTypes' /\ SocketTypes' /\ m_user_count' \in Int BY TimerTypeSteps
  <2>2. ObjectTypes' BY <2>1 DEF BaseTypes, ObjectTypes
  <2>3. LoopTypes' BY DEF BaseTypes, LoopTypes
  <2>4. UNCHANGED <<net, answered, signals, worker>> OBVIOUS
  <2> QED BY <2>1, <2>2, <2>3, <2>4, UnchangedTypes, TypeParts
<1>6. ASSUME NEW fd \in Fds PROVE Enqueue(fd) => m_workqueue' \in Seq(Fds)
  BY DEF Enqueue, BaseTypes
<1>7. ASSUME NEW fd \in Fds, ReadProactor(fd) PROVE BaseTypes' /\ WorkerHasRequest'
  <2> USE <1>7 DEF ReadProactor
  <2>1. ClientTypes'
    <3>1. inbox' \in [Conns -> Nat] BY ReadTypes
    <3> QED BY <3>1 DEF BaseTypes, ClientTypes
  <2>2. users' \in [Fds -> UserType]
    <3>1. PICK u \in UserType : u = AfterRead(fd) BY ReadTypes
    <3>2. users' = [users EXCEPT ![fd] = u] BY <3>1
    <3> QED BY <3>2, UserAssigned
  <2>3. LoopTypes' BY DEF BaseTypes, LoopTypes
  <2>4. UNCHANGED <<signals, worker>> OBVIOUS
  <2>5. ListTypes' /\ SocketTypes' /\ m_user_count' \in Int /\ m_workqueue' \in Seq(Fds)
    <3>1. CASE ReadSucceeds(fd)
      <4>1. Enqueue(fd) /\ AdjustTimer(fd) /\ UNCHANGED <<epoll, m_user_count>> BY <3>1
      <4>2. m_user_count' \in Int BY <4>1 DEF BaseTypes
      <4> QED BY <4>1, <4>2, <1>6, TimerTypeSteps, UnchangedTypes
    <3>2. CASE ~ReadSucceeds(fd)
      <4>1. DealTimer(fd) /\ UNCHANGED m_workqueue BY <3>2
      <4>2. m_workqueue' \in Seq(Fds) BY <4>1 DEF BaseTypes
      <4> QED BY <4>1, <4>2, TimerTypeSteps
    <3> QED BY <3>1, <3>2
  <2>6. ObjectTypes' BY <2>2, <2>5 DEF ObjectTypes
  <2> QED BY <2>1, <2>3, <2>4, <2>5, <2>6, UnchangedTypes, TypeParts
<1>8. ASSUME NEW fd \in Fds, WriteProactor(fd) PROVE BaseTypes' /\ WorkerHasRequest'
  <2>1. PICK r \in Writes(fd) :
           /\ users' = Put(fd, r.user, r.init)
           /\ Sent(fd, r.sent)
           /\ IF r.ok
              THEN /\ interest' = AfterWrite(fd, r.ev)
                   /\ AdjustTimer(fd)
                   /\ UNCHANGED <<sock, m_user_count>>
              ELSE DealTimer(fd)
    BY <1>8 DEF WriteProactor
  <2>2. UNCHANGED <<phase, budget, inbox, backlog, edge, signals, mpc, spinFd, m_workqueue, worker>>
        /\ batch' = batch \ {Event("out", fd)}
    BY <1>8 DEF WriteProactor
  <2>3. ClientTypes' BY <2>1, <2>2, WriteTypes DEF BaseTypes, ClientTypes
  <2>4. users' \in [Fds -> UserType]
    <3>1. r.user \in UserType /\ r.init \in BOOLEAN BY <2>1, WriteTypes
    <3> QED BY <2>1, <3>1, PutTypes
  <2>5. ListTypes' /\ SocketTypes' /\ m_user_count' \in Int
    <3>1. CASE r.ok
      <4>1. interest' = AfterWrite(fd, r.ev) /\ AdjustTimer(fd) /\ UNCHANGED <<sock, m_user_count>>
        BY <2>1, <3>1
      <4>2. r.ev \in {"keep", "in", "out"} BY WriteTypes
      <4>3. interest' \in [Fds -> {"none", "off", "in", "out"}]
        BY <4>1, <4>2, ModfdTypes DEF AfterWrite, BaseTypes
      <4>4. SocketTypes' /\ m_user_count' \in Int BY <4>1, <4>3 DEF BaseTypes, SocketTypes
      <4> QED BY <4>1, <4>4, TimerTypeSteps
    <3>2. CASE ~r.ok
      <4>1. DealTimer(fd) BY <2>1, <3>2
      <4> QED BY <4>1, TimerTypeSteps
    <3> QED BY <3>1, <3>2
  <2>6. ObjectTypes' BY <2>2, <2>4, <2>5 DEF BaseTypes, ObjectTypes
  <2>7. LoopTypes' BY <2>2 DEF BaseTypes, LoopTypes
  <2> QED BY <2>2, <2>3, <2>5, <2>6, <2>7, UnchangedTypes, TypeParts
<1>9. ASSUME NEW fd \in Fds, NEW kind, NEW st \in {0, 1}, HandOver(fd, kind, st)
      PROVE  BaseTypes' /\ WorkerHasRequest'
  <2> USE <1>9 DEF HandOver
  <2>1. users' \in [Fds -> UserType]
    <3>1. users[fd] \in UserType BY DEF BaseTypes
    <3>2. [users[fd] EXCEPT !.state = st] \in UserType BY <3>1, UserFields
    <3> QED BY <3>2, UserAssigned DEF BaseTypes
  <2>2. ObjectTypes' BY <2>1, <1>6 DEF BaseTypes, ObjectTypes
  <2>3. ListTypes' BY TimerTypeSteps
  <2>4. LoopTypes' BY DEF BaseTypes, LoopTypes
  <2>5. UNCHANGED <<net, answered, epoll, signals, worker>> OBVIOUS
  <2> QED BY <2>2, <2>3, <2>4, <2>5, UnchangedTypes, TypeParts
<1>10. CASE SpinEnds
  <2> USE <1>10 DEF SpinEnds
  <2>1. spinFd \in Fds BY DEF BaseTypes, TInv, MainShape
  <2>2. users' \in [Fds -> UserType]
    <3>1. users[spinFd] \in UserType BY <2>1 DEF BaseTypes
    <3>2. PICK u \in UserType : u = [users[spinFd] EXCEPT !.timer_flag = 0, !.improv = 0]
      BY <3>1, UserFields
    <3>3. users' = [users EXCEPT ![spinFd] = u] BY <3>2
    <3>4. PICK fd \in Fds : fd = spinFd BY <2>1
    <3>5. [users EXCEPT ![fd] = u] \in [Fds -> UserType] BY UserAssigned
    <3> QED BY <3>3, <3>4, <3>5
  <2>3. ListTypes' /\ SocketTypes' /\ m_user_count' \in Int
    <3>1. CASE users[spinFd].timer_flag = 1
      <4>1. DealTimer(spinFd) BY <3>1
      <4> QED BY <4>1, TimerTypeSteps
    <3>2. CASE users[spinFd].timer_flag # 1
      <4>1. UNCHANGED <<epoll, timers, m_user_count>> BY <3>2
      <4> QED BY <4>1, UnchangedTypes DEF BaseTypes
    <3> QED BY <3>1, <3>2
  <2>4. ObjectTypes' BY <2>2, <2>3 DEF BaseTypes, ObjectTypes
  <2>5. LoopTypes' BY DEF BaseTypes, LoopTypes
  <2>6. UNCHANGED <<net, answered, signals, worker>> OBVIOUS
  <2> QED BY <2>3, <2>4, <2>5, <2>6, UnchangedTypes, TypeParts
<1>11. CASE EndBatch
  <2> USE <1>11 DEF EndBatch
  <2>1. LoopTypes' BY DEF BaseTypes, LoopTypes
  <2>2. ListTypes' /\ SocketTypes' /\ m_user_count' \in Int /\ alarm' \in {"off", "armed", "due"}
    <3>1. CASE timeout
      <4>1. TimerHandler BY <3>1
      <4>2. ListTypes' BY <4>1, TimerTypeSteps DEF TimerHandler
      <4>3. SocketTypes' BY <4>1, CloseTypes DEF TimerHandler
      <4>4. m_user_count' \in Int
        <5>1. Cardinality(TS!Expired) \in Nat BY FS_Subset, FS_CardinalityType DEF LiveFinite, TS!Expired
        <5> QED BY <4>1, <5>1 DEF TimerHandler, BaseTypes
      <4> QED BY <4>1, <4>2, <4>3, <4>4 DEF TimerHandler
    <3>2. CASE ~timeout
      <4>1. UNCHANGED <<live, left, epoll, m_user_count, alarm>> BY <3>2
      <4> QED BY <4>1 DEF BaseTypes, ListTypes, SocketTypes, epoll
    <3> QED BY <3>1, <3>2
  <2>3. SignalTypes' BY <2>2 DEF BaseTypes, SignalTypes
  <2>4. ObjectTypes' BY <2>2 DEF BaseTypes, ObjectTypes
  <2>5. UNCHANGED <<net, answered, worker>> OBVIOUS
  <2> QED BY <2>1, <2>2, <2>3, <2>4, <2>5, UnchangedTypes, TypeParts
<1> QED BY <1>1, <1>2, <1>3, <1>4, <1>5, <1>7, <1>8, <1>9, <1>10, <1>11 DEF Main

LEMMA TypesAndRequests == Spec => [](TypeOK /\ WorkerHasRequest)
<1> DEFINE I == BaseTypes /\ WorkerHasRequest /\ LiveFinite
<1>1. Init => I
  <2>1. Init => LiveFinite BY FS_EmptySet DEF Init, TS!Init, LiveFinite
  <2> QED BY <2>1, InitTypes
<1>2. I /\ TInv /\ [Next]_vars => I'
  <2> SUFFICES ASSUME I, TInv, [Next]_vars PROVE BaseTypes' /\ WorkerHasRequest'
    BY LiveFiniteStep
  <2>1. CASE Client \/ SigAlrm \/ SigTerm \/ Clock BY <2>1, ClientTypeStep
  <2>2. CASE Main BY <2>2, MainTypeStep
  <2>3. CASE \E w \in Workers : Work(w) BY <2>3, WorkerTypeStep
  <2>4. CASE UNCHANGED vars BY <2>4, UnchangedTypes, TypeParts DEF vars
  <2> QED BY <2>1, <2>2, <2>3, <2>4 DEF Next
<1>3. I /\ OtherTypes => TypeOK /\ WorkerHasRequest BY DEF TypeOK, BaseTypes, OtherTypes
<1> HIDE DEF I
<1> QED BY <1>1, <1>2, <1>3, InitOther, OtherStep, TInvariance, PTL DEF Spec

\* Every variable keeps its type: descriptors, indices and lengths stay in range, and
\* only descriptors that accept() returned are queued.
THEOREM TypeCorrect == Spec => []TypeOK
BY TypesAndRequests, PTL

\* The invariants of the main thread and its timers hold together.
THEOREM Invariance == Spec => []MainInv
<1>1. TInv /\ TypeOK /\ WorkerHasRequest => MainInv BY DEF MainInv, TInv
<1> QED BY <1>1, TInvariance, TypesAndRequests, PTL
-----------------------------------------------------------------------------
(* The hand-over of the reactor.  While the main thread spins, the request it spins for is  *)
(* the only one that is queued or not yet answered for: the queue is empty when append() is *)
(* called, so that append() is never refused.                                               *)

Asked(w) == worker[w].pc \in {"recv", "send", "received", "sent", "failed"}

SpinInv ==
    /\ mpc = "spin" => Reactor
    /\ \A fd \in Fds : users[fd].improv = 1 => mpc = "spin" /\ spinFd = fd
    /\ mpc # "spin" \/ users[spinFd].improv = 1 =>
           /\ Reactor => m_workqueue = <<>>
           /\ \A w \in Workers : ~Asked(w)
    /\ mpc = "spin" /\ users[spinFd].improv = 0 =>
           \/ m_workqueue = <<spinFd>> /\ \A w \in Workers : ~Asked(w)
           \/ /\ m_workqueue = <<>>
              /\ \E w \in Workers : /\ Asked(w) /\ worker[w].fd = spinFd
                                    /\ \A o \in Workers \ {w} : ~Asked(o)

\* What the main thread relies on: improv is 0 or 1 and spinFd is a descriptor.
LEMMA SpinTypes ==
    ASSUME BaseTypes, MainShape
    PROVE  /\ \A fd \in Fds : users[fd] \in UserType /\ users[fd].improv \in {0, 1}
           /\ mpc = "spin" => spinFd \in Fds /\ users[spinFd].improv \in {0, 1}
<1>1. \A fd \in Fds : users[fd] \in UserType BY DEF BaseTypes
<1>2. \A fd \in Fds : users[fd].improv \in {0, 1} BY <1>1 DEF UserType
<1>3. mpc = "spin" => spinFd \in Fds BY DEF BaseTypes, MainShape
<1> QED BY <1>1, <1>2, <1>3

LEMMA InitSpin == Init => SpinInv
BY DEF Init, SpinInv, Asked, Idle, NewUser

\* read_once() changes what was read, write() what is to be sent, or it calls init(); the
\* object keeps its descriptor.
LEMMA ReadKeeps ==
    ASSUME BaseTypes, NEW fd \in Fds
    PROVE  /\ AfterRead(fd).sockfd = users[fd].sockfd
           /\ AfterRead(fd).improv = users[fd].improv
           /\ AfterRead(fd).timer_flag = users[fd].timer_flag
           /\ AfterRead(fd).got = users[fd].got + Readable(fd)
           /\ AfterRead(fd).src = IF Readable(fd) > 0 THEN Peer(fd) ELSE users[fd].src
           /\ AfterRead(fd).out = users[fd].out /\ AfterRead(fd).osrc = users[fd].osrc
<1>1. users[fd] \in UserType BY DEF BaseTypes
<1> QED BY <1>1 DEF AfterRead, UserType

LEMMA WriteKeeps ==
    ASSUME BaseTypes, NEW fd \in Fds, NEW r \in Writes(fd)
    PROVE  /\ r.user.sockfd = users[fd].sockfd
           /\ r.user.improv \in {0, users[fd].improv}
           /\ r.user.timer_flag \in {0, users[fd].timer_flag}
           /\ r.user.got # 0 => r.user.got = users[fd].got /\ r.user.src = users[fd].src
           /\ r.user.out # 0 => users[fd].out # 0 /\ r.user.osrc = users[fd].osrc
           /\ r.sent # 0 => users[fd].out # 0
<1> DEFINE u == users[fd]
<1>1. u \in UserType BY DEF BaseTypes
<1>2. CASE u.out = 0
  <2>1. r.user = Cleared(u) /\ r.sent = 0 BY <1>2 DEF Writes
  <2> HIDE DEF u
  <2> QED BY <1>1, <1>2, <2>1 DEF Cleared, UserType, u
<1>3. CASE u.out # 0
  <2>1. PICK n : r.user \in {u, Cleared(u), [u EXCEPT !.out = @ - n], [u EXCEPT !.out = 0]}
    BY <1>3 DEF Writes
  <2> HIDE DEF u
  <2>2. CASE r.user = u BY <2>2, <1>3 DEF u
  <2>3. CASE r.user = Cleared(u) BY <1>1, <2>3, <1>3 DEF Cleared, UserType, u
  <2>4. CASE r.user = [u EXCEPT !.out = @ - n] BY <1>1, <2>4, <1>3 DEF UserType, u
  <2>5. CASE r.user = [u EXCEPT !.out = 0] BY <1>1, <2>5, <1>3 DEF UserType, u
  <2> QED BY <2>1, <2>2, <2>3, <2>4, <2>5
<1> QED BY <1>2, <1>3

LEMMA PutKeeps ==
    ASSUME BaseTypes, NEW fd \in Fds, NEW u, NEW init, NEW g \in Fds
    PROVE  /\ Put(fd, u, init)[fd] = u
           /\ g # fd => /\ Put(fd, u, init)[g].improv = users[g].improv
                        /\ Put(fd, u, init)[g].timer_flag = users[g].timer_flag
<1>1. users[g] \in UserType BY DEF BaseTypes
<1>2. /\ [users[g] EXCEPT !.sockfd = Stdin].improv = users[g].improv
      /\ [users[g] EXCEPT !.sockfd = Stdin].timer_flag = users[g].timer_flag
  BY <1>1 DEF UserType
<1> QED BY <1>2 DEF Put

\* The main thread outside its loop: nobody is asked.
LEMMA OutsideSpin ==
    ASSUME SpinInv, mpc # "spin", mpc' # "spin", UNCHANGED <<mode, worker>>,
           Reactor => m_workqueue' = m_workqueue,
           \A fd \in Fds : users'[fd].improv = 1 => users[fd].improv = 1
    PROVE  SpinInv'
BY DEF SpinInv, Asked, Reactor

\* A worker that nobody waits for.
LEMMA NotAsked ==
    ASSUME SpinInv, BaseTypes, MainShape, NEW w \in Workers,
           \A o \in Workers : worker'[o] = worker[o] \/ (o = w /\ ~Asked(w) /\ ~Asked(w)'),
           UNCHANGED <<mode, mpc, spinFd, m_workqueue>>,
           \A fd \in Fds : users'[fd].improv = users[fd].improv
    PROVE  SpinInv'
<1>1. \A o \in Workers : Asked(o)' <=> Asked(o) BY DEF Asked
<1>2. \A o \in Workers : Asked(o) => worker'[o] = worker[o] BY DEF Asked
<1>3. mpc = "spin" => users'[spinFd].improv = users[spinFd].improv BY SpinTypes
<1> QED BY <1>1, <1>2, <1>3 DEF SpinInv, Reactor
LEMMA SpinMainStep ==
    ASSUME SpinInv, BaseTypes, MainShape, Main
    PROVE  SpinInv'
<1>1. ASSUME EpollWait \/ AcceptFails \/ ServerBusy \/ DealWithSignal \/ EndBatch
             \/ \E fd \in Fds : HangUp(fd)
      PROVE  SpinInv'
  <2>1. mpc # "spin" /\ mpc' # "spin" /\ UNCHANGED <<mode, worker, m_workqueue, users>>
    BY <1>1 DEF EpollWait, AcceptFails, ServerBusy, DealWithSignal, EndBatch, HangUp, Accepting
  <2> QED BY <2>1, OutsideSpin
<1>2. ASSUME NEW c \in Conns, NEW fd \in Fds, Accept(c, fd) PROVE SpinInv'
  <2>1. mpc # "spin" /\ mpc' # "spin" /\ UNCHANGED <<mode, worker, m_workqueue>>
    BY <1>2 DEF Accept, Accepting, Stay
  <2>2. users' = Put(fd, [NewUser EXCEPT !.sockfd = fd], TRUE) BY <1>2 DEF Accept
  <2>3. [NewUser EXCEPT !.sockfd = fd].improv = 0 BY DEF NewUser
  <2>4. \A g \in Fds : users'[g].improv = 1 => users[g].improv = 1
    <3>1. users'[fd] = [NewUser EXCEPT !.sockfd = fd] BY <2>2 DEF Put
    <3>2. \A g \in Fds : g # fd => users'[g].improv = users[g].improv
      <4>1. \A u \in UserType : [u EXCEPT !.sockfd = Stdin].improv = u.improv BY DEF UserType
      <4>2. users \in [Fds -> UserType] BY DEF BaseTypes
      <4> QED BY <2>2, <4>1, <4>2 DEF Put
    <3>3. users'[fd].improv = 0 BY <2>3, <3>1
    <3> QED BY <3>2, <3>3
  <2> QED BY <2>1, <2>4, OutsideSpin
<1>3. ASSUME NEW fd \in Fds, ReadProactor(fd) PROVE SpinInv'
  <2>1. ~Reactor /\ mpc # "spin" /\ mpc' # "spin" /\ UNCHANGED <<mode, worker>>
    BY <1>3 DEF ReadProactor
  <2>2. users' = [users EXCEPT ![fd] = AfterRead(fd)] BY <1>3 DEF ReadProactor
  <2>3. \A g \in Fds : users'[g].improv = 1 => users[g].improv = 1
    BY <2>2, ReadKeeps DEF BaseTypes
  <2> QED BY <2>1, <2>3, OutsideSpin
<1>4. ASSUME NEW fd \in Fds, WriteProactor(fd) PROVE SpinInv'
  <2>1. ~Reactor /\ mpc # "spin" /\ mpc' # "spin" /\ UNCHANGED <<mode, worker>>
    BY <1>4 DEF WriteProactor
  <2>2. PICK r \in Writes(fd) : users' = Put(fd, r.user, r.init) BY <1>4 DEF WriteProactor
  <2>3. \A g \in Fds : users'[g].improv = 1 => users[g].improv = 1
    BY <2>2, WriteKeeps, PutKeeps
  <2> QED BY <2>1, <2>3, OutsideSpin
<1>5. ASSUME NEW fd \in Fds, NEW kind, NEW state, HandOver(fd, kind, state) PROVE SpinInv'
  <2>1. Reactor /\ mpc = "batch" /\ mpc' = "spin" /\ spinFd' = fd /\ UNCHANGED <<mode, worker>>
    BY <1>5 DEF HandOver
  <2>2. m_workqueue = <<>> /\ \A w \in Workers : ~Asked(w) BY <2>1 DEF SpinInv
  <2>3. m_workqueue' = <<fd>> BY <1>5, <2>2, Parameters DEF HandOver, Enqueue, QueueFull
  <2>4. \A g \in Fds : users'[g].improv = users[g].improv
    <3>1. users' \in {users, [users EXCEPT ![fd].state = state]} BY <1>5 DEF HandOver
    <3>2. \A u \in UserType : [u EXCEPT !.state = state].improv = u.improv BY DEF UserType
    <3>3. users \in [Fds -> UserType] BY DEF BaseTypes
    <3> QED BY <3>1, <3>2, <3>3
  <2>5. \A g \in Fds : users'[g].improv # 1 BY <2>1, <2>4 DEF SpinInv
  <2>6. Reactor' BY <2>1 DEF Reactor
  <2>7. \A w \in Workers : ~Asked(w)' BY <2>1, <2>2 DEF Asked
  <2> QED BY <2>1, <2>3, <2>5, <2>6, <2>7 DEF SpinInv
<1>6. ASSUME SpinEnds PROVE SpinInv'
  <2>1. /\ mpc = "spin" /\ users[spinFd].improv = 1 /\ mpc' = "batch"
        /\ UNCHANGED <<mode, worker, m_workqueue>>
        /\ users' = [users EXCEPT ![spinFd].timer_flag = 0, ![spinFd].improv = 0]
    BY <1>6 DEF SpinEnds
  <2>2. \A g \in Fds : users'[g].improv = 1 => g # spinFd /\ users[g].improv = 1
    BY <2>1, SpinTypes DEF BaseTypes, UserType
  <2>3. \A g \in Fds : users'[g].improv # 1 BY <2>2 DEF SpinInv
  <2>4. (Reactor => m_workqueue = <<>>) /\ \A w \in Workers : ~Asked(w) BY <2>1 DEF SpinInv
  <2>5. (Reactor' => m_workqueue' = <<>>) /\ \A w \in Workers : ~Asked(w)'
    BY <2>1, <2>4 DEF Asked, Reactor
  <2> QED BY <2>1, <2>3, <2>5 DEF SpinInv
<1> QED BY <1>1, <1>2, <1>3, <1>4, <1>5, <1>6 DEF Main

LEMMA SpinWorkerStep ==
    ASSUME SpinInv, BaseTypes, MainShape, WorkerHasRequest, NEW w \in Workers, Work(w)
    PROVE  SpinInv'
<1> DEFINE fd == worker[w].fd
<1>0. worker \in [Workers -> WorkerType] BY DEF BaseTypes, WorkerType
<1>1. \A o \in Workers \ {w} : worker'[o] = worker[o]
  BY <1>0, SMTT(30) DEF Work, Take, Recv, Transmit, Improv, Verdict, Parse, Fill, CloseConn, Forget,
              LoadCount, StoreCount, Rearm, Goto
<1>2. UNCHANGED <<mode, mpc, spinFd>>
  BY DEF Work, Take, Recv, Transmit, Improv, Verdict, Parse, Fill, CloseConn, Forget,
         LoadCount, StoreCount, Rearm, loop
<1>3. ASSUME Verdict(w) \/ Parse(w) \/ Fill(w) \/ CloseConn(w) \/ Forget(w) \/ LoadCount(w)
             \/ StoreCount(w) \/ Rearm(w)
      PROVE  SpinInv'
  <2>1. ~Asked(w) /\ m_workqueue' = m_workqueue
    BY <1>3 DEF Asked, Verdict, Parse, Fill, CloseConn, Forget, LoadCount, StoreCount, Rearm
  <2>2. ~Asked(w)'
    BY <1>0, <1>3, SMTT(30) DEF Asked, Verdict, Parse, Fill, CloseConn, Forget, LoadCount, StoreCount, Rearm,
                      Goto, Idle, WorkerType
  <2>3. fd \in Fds
    BY <1>3 DEF Verdict, Parse, Fill, CloseConn, Forget, LoadCount, StoreCount, Rearm, WorkerHasRequest
  <2>4. \A g \in Fds : users'[g].improv = users[g].improv
    <3>1. \/ users' = users
          \/ \E v : \/ users' = [users EXCEPT ![fd].timer_flag = v]
                    \/ users' = [users EXCEPT ![fd].linger = v]
                    \/ users' = [users EXCEPT ![fd].sockfd = v]
          \/ \E n, c : users' = [users EXCEPT ![fd].out = n, ![fd].osrc = c]
      BY <1>3 DEF Verdict, Parse, Fill, CloseConn, Forget, LoadCount, StoreCount, Rearm
    <3>2. users \in [Fds -> UserType] BY DEF BaseTypes
    <3>3. \A u \in UserType : \A v : /\ [u EXCEPT !.timer_flag = v].improv = u.improv
                                   /\ [u EXCEPT !.linger = v].improv = u.improv
                                   /\ [u EXCEPT !.sockfd = v].improv = u.improv
      BY DEF UserType
    <3>4. \A u \in UserType : \A n, c : [u EXCEPT !.out = n, !.osrc = c].improv = u.improv
      BY DEF UserType
    <3>5. ASSUME NEW n, NEW c, users' = [users EXCEPT ![fd].out = n, ![fd].osrc = c]
          PROVE  \A g \in Fds : users'[g].improv = users[g].improv
      <4>1. users' = [users EXCEPT ![fd] = [users[fd] EXCEPT !.out = n, !.osrc = c]]
        BY <2>3, <3>2, <3>5
      <4> QED BY <2>3, <3>2, <3>4, <4>1
    <3>6. ASSUME NEW v, \/ users' = [users EXCEPT ![fd].timer_flag = v]
                        \/ users' = [users EXCEPT ![fd].linger = v]
                        \/ users' = [users EXCEPT ![fd].sockfd = v]
          PROVE  \A g \in Fds : users'[g].improv = users[g].improv
      <4>1. \/ users' = [users EXCEPT ![fd] = [users[fd] EXCEPT !.timer_flag = v]]
            \/ users' = [users EXCEPT ![fd] = [users[fd] EXCEPT !.linger = v]]
            \/ users' = [users EXCEPT ![fd] = [users[fd] EXCEPT !.sockfd = v]]
        BY <2>3, <3>2, <3>6
      <4>2. users[fd] \in UserType BY <2>3, <3>2
      <4>3. /\ [users[fd] EXCEPT !.timer_flag = v].improv = users[fd].improv
            /\ [users[fd] EXCEPT !.linger = v].improv = users[fd].improv
            /\ [users[fd] EXCEPT !.sockfd = v].improv = users[fd].improv
        BY <4>2, <3>3
      <4>4. users'[fd].improv = users[fd].improv /\ \A g \in Fds \ {fd} : users'[g] = users[g]
        BY <2>3, <3>2, <4>1, <4>3
      <4> QED BY <4>4
    <3> QED BY <3>1, <3>5, <3>6
  <2> QED BY <1>1, <1>2, <2>1, <2>2, <2>4, NotAsked, SMTT(30)
<1>4. ASSUME Take(w) PROVE SpinInv'
  <2>1. m_workqueue # <<>> /\ m_workqueue' = Tail(m_workqueue) /\ users' = users /\ ~Asked(w)
    BY <1>4 DEF Take, Asked
  <2>2. /\ worker'[w].fd = Head(m_workqueue)
        /\ Asked(w)' <=> Reactor
    BY <1>0, <1>4 DEF Take, Asked, Idle
  <2>3. CASE ~Reactor BY <2>1, <2>2, <2>3, <1>1, <1>2 DEF SpinInv, Asked, Reactor
  <2>4. CASE Reactor
    <3>1. mpc = "spin" /\ users[spinFd].improv = 0
      BY <2>1, <2>4, SpinTypes DEF SpinInv
    <3>2. m_workqueue = <<spinFd>> /\ \A o \in Workers : ~Asked(o) BY <3>1, <2>1 DEF SpinInv
    <3>3. m_workqueue' = <<>> /\ worker'[w].fd = spinFd BY <3>2, <2>1, <2>2
    <3>4. \A o \in Workers \ {w} : ~Asked(o)' BY <3>2, <1>1 DEF Asked
    <3>5. Reactor' /\ Asked(w)' BY <2>2, <2>4, <1>2 DEF Reactor
    <3> QED BY <3>1, <3>3, <3>4, <3>5, <2>1, <1>2 DEF SpinInv
  <2> QED BY <2>3, <2>4
\* A worker that was asked: the main thread waits for it and for nothing else.
<1>5. ASSUME Asked(w)
      PROVE  /\ mpc = "spin" /\ spinFd = fd /\ fd \in Fds /\ users[fd].improv = 0
             /\ m_workqueue = <<>> /\ \A o \in Workers \ {w} : ~Asked(o)
  <2>1. mpc = "spin" /\ users[spinFd].improv = 0 BY <1>5, SpinTypes DEF SpinInv
  <2> QED BY <2>1, <1>5, SpinTypes DEF SpinInv
<1>6. ASSUME Recv(w) \/ Transmit(w) PROVE SpinInv'
  <2>1. Asked(w) /\ m_workqueue' = m_workqueue BY <1>6 DEF Recv, Transmit, Asked
  <2>2. Asked(w)' /\ worker'[w].fd = fd
    BY <1>0, <1>6 DEF Recv, Transmit, Goto, Asked, WorkerType
  <2>3. \A g \in Fds : users'[g].improv \in {0, users[g].improv}
    <3>1. CASE Recv(w)
      <4>1. users' = [users EXCEPT ![fd] = AfterRead(fd)] BY <3>1 DEF Recv
      <4> QED BY <4>1, <1>5, <2>1, ReadKeeps DEF BaseTypes
    <3>2. CASE Transmit(w)
      <4>1. PICK r \in Writes(fd) : users' = Put(fd, r.user, r.init) BY <3>2 DEF Transmit
      <4> QED BY <4>1, <1>5, <2>1, WriteKeeps, PutKeeps
    <3> QED BY <1>6, <3>1, <3>2
  <2>4. \A g \in Fds : users'[g].improv # 1
    BY <1>5, <2>1, <2>3 DEF SpinInv
  <2>5. users'[fd].improv = 0 BY <1>5, <2>1, <2>3
  <2>6. \A o \in Workers \ {w} : ~Asked(o)' BY <1>1, <1>5, <2>1 DEF Asked
  <2> QED BY <1>2, <1>5, <2>1, <2>2, <2>4, <2>5, <2>6 DEF SpinInv, Reactor
<1>7. ASSUME Improv(w) PROVE SpinInv'
  <2>1. Asked(w) /\ m_workqueue' = m_workqueue /\ users' = [users EXCEPT ![fd].improv = 1]
    BY <1>7 DEF Improv, Asked
  <2>2. ~Asked(w)' BY <1>0, <1>7 DEF Improv, Asked, Idle, WorkerType
  <2>3. \A o \in Workers : ~Asked(o)' BY <1>1, <1>5, <2>1, <2>2 DEF Asked
  <2>4. users'[fd].improv = 1 /\ \A g \in Fds \ {fd} : users'[g].improv = users[g].improv
    BY <1>5, <2>1 DEF BaseTypes, UserType
  <2> QED BY <1>2, <1>5, <2>1, <2>3, <2>4 DEF SpinInv, Reactor
<1> QED BY <1>3, <1>4, <1>6, <1>7 DEF Work

LEMMA SpinStep == SpinInv /\ TInv /\ TypeOK /\ WorkerHasRequest /\ [Next]_vars => SpinInv'
<1> SUFFICES ASSUME SpinInv, TInv, TypeOK, WorkerHasRequest, [Next]_vars PROVE SpinInv' OBVIOUS
<1>1. BaseTypes /\ MainShape BY DEF TypeOK, BaseTypes, TInv
<1>2. ASSUME Client \/ Clock \/ SigAlrm \/ SigTerm \/ UNCHANGED vars PROVE SpinInv'
  <2>1. UNCHANGED <<mode, mpc, spinFd, users, m_workqueue, worker>>
    BY <1>2 DEF Client, Connect, Send, Shut, Drain, Clock, SigAlrm, SigTerm, vars, loop
  <2> QED BY <2>1 DEF SpinInv, Asked, Reactor
<1> QED BY <1>1, <1>2, SpinMainStep, SpinWorkerStep DEF Next

LEMMA SpinAlways == Spec => []SpinInv
BY InitSpin, SpinStep, TInvariance, TypesAndRequests, PTL DEF Spec

\* The reactor's main thread is never left in its loop: append() took the request it waits
\* for, and the one worker that takes the request sets improv.
THEOREM SpinWaitsForAnswer == Spec => []SpinIsAnswered
<1>1. SpinInv /\ TypeOK /\ TInv => SpinIsAnswered
  <2> SUFFICES ASSUME SpinInv, TypeOK, TInv, mpc = "spin", users[spinFd].improv # 1
               PROVE  \/ \E i \in DOMAIN m_workqueue : m_workqueue[i] = spinFd
                      \/ \E w \in Workers : Asked(w) /\ worker[w].fd = spinFd
    BY DEF SpinIsAnswered, Asked
  <2>1. users[spinFd].improv = 0 BY SpinTypes DEF TypeOK, BaseTypes, TInv
  <2> QED BY <2>1 DEF SpinInv
<1> QED BY <1>1, SpinAlways, TInvariance, TypesAndRequests, PTL
-----------------------------------------------------------------------------
(* Counting connections.  When no worker calls close_conn(), which is what process_write()   *)
(* failing leads to, timers and open sockets go together: a timer is in the list exactly as  *)
(* long as its socket is open, and m_user_count is the length of the list.                   *)

FailFree == "fail" \notin Outcomes

Closing(w) == worker[w].pc \in {"close", "forget", "load", "store"}

TimerOwns ==
    \A c \in live : /\ timerFd[c] \in Fds
                    /\ userTimer[timerFd[c]] = c /\ sock[timerFd[c]] = c

OwnerInv == /\ LiveFinite
            /\ TimerOwns
            /\ m_user_count = Cardinality(live)
            /\ \A w \in Workers : ~Closing(w)

ovars == <<live, timerFd, userTimer, sock, m_user_count>>

\* The socket of a descriptor that is open, reported or waited for is that of its timer.
LEMMA SocketOfTimer ==
    ASSUME TInv, TimerOwns, NEW fd \in Fds,
           sock[fd] # None \/ (\E e \in batch : e.fd = fd) \/ spinFd = fd
    PROVE  /\ userTimer[fd] \in live /\ timerFd[userTimer[fd]] = fd
           /\ sock[fd] = userTimer[fd] /\ sock[fd] \in Conns /\ sock[fd] # None
<1>1. userTimer[fd] \in live /\ timerFd[userTimer[fd]] = fd BY DEF TInv, TimerAlive
<1>2. sock[fd] = userTimer[fd] BY <1>1 DEF TimerOwns
<1> QED BY <1>1, <1>2, Parameters DEF TInv, TimerTypes

LEMMA OwnerClose ==
    ASSUME OwnerInv, TInv, NEW fd \in Fds, DealTimer(fd), timerFd[userTimer[fd]] = fd,
           UNCHANGED worker
    PROVE  OwnerInv'
<1> DEFINE c == userTimer[fd]
<1>1. c \in live /\ live' = live \ {c} /\ m_user_count' = m_user_count - 1
      /\ UNCHANGED <<timerFd, userTimer>>
  BY DEF DealTimer, TS!Del
<1>2. LiveFinite' /\ m_user_count' = Cardinality(live')
  BY <1>1, FS_RemoveElement DEF OwnerInv, LiveFinite
<1>3. ASSUME NEW d \in live'
      PROVE  timerFd[d] \in Fds /\ userTimer[timerFd[d]] = d /\ sock'[timerFd[d]] = d
  <2>1. timerFd[d] \in Fds /\ userTimer[timerFd[d]] = d /\ sock[timerFd[d]] = d
    BY <1>1 DEF OwnerInv, TimerOwns
  <2>2. timerFd[d] # fd BY <1>1, <2>1
  <2> QED BY <2>1, <2>2 DEF DealTimer, CloseAll
<1> HIDE DEF c
<1> QED BY <1>1, <1>2, <1>3 DEF OwnerInv, TimerOwns, Closing

LEMMA OwnerAccept ==
    ASSUME OwnerInv, TInv, NEW c \in Conns, NEW fd \in Fds, Accept(c, fd)
    PROVE  OwnerInv'
<1>1. c \notin live /\ live' = live \cup {c} /\ m_user_count' = m_user_count + 1
      /\ UNCHANGED worker
  BY DEF Accept, TS!Add
<1>2. LiveFinite' /\ m_user_count' = Cardinality(live')
  BY <1>1, FS_AddElement DEF OwnerInv, LiveFinite
<1>3. /\ sock[fd] = None
      /\ sock' = [sock EXCEPT ![fd] = c] /\ timerFd' = [timerFd EXCEPT ![c] = fd]
      /\ userTimer' = [userTimer EXCEPT ![fd] = c]
  BY DEF Accept, FreeFds
<1>4. ASSUME NEW d \in live'
      PROVE  timerFd'[d] \in Fds /\ userTimer'[timerFd'[d]] = d /\ sock'[timerFd'[d]] = d
  <2>1. CASE d = c BY <1>3, <2>1 DEF TInv, TimerTypes
  <2>2. CASE d # c
    <3>1. d \in live /\ d \in Conns BY <1>1, <2>2 DEF TInv, TimerTypes
    <3>2. timerFd[d] \in Fds /\ userTimer[timerFd[d]] = d /\ sock[timerFd[d]] = d
      BY <3>1 DEF OwnerInv, TimerOwns
    <3>3. timerFd[d] # fd BY <1>3, <3>1, <3>2, Parameters
    <3> QED BY <1>3, <2>2, <3>1, <3>2, <3>3 DEF TInv, TimerTypes
  <2> QED BY <2>1, <2>2
<1> QED BY <1>1, <1>2, <1>4 DEF OwnerInv, TimerOwns, Closing

LEMMA OwnerTick ==
    ASSUME OwnerInv, TInv, TimerHandler, UNCHANGED <<timerFd, userTimer, worker>>
    PROVE  OwnerInv'
<1>1. /\ live' = live \ TS!Expired
      /\ m_user_count' = m_user_count - Cardinality(TS!Expired)
      /\ CloseAll({timerFd[c] : c \in TS!Expired})
  BY DEF TimerHandler, TS!Tick
<1>2. TS!Expired \subseteq live BY DEF TS!Expired
<1>3. LiveFinite' /\ m_user_count' = Cardinality(live')
  <2> DEFINE E == TS!Expired
  <2>1. IsFiniteSet(live) /\ IsFiniteSet(E) /\ IsFiniteSet(live \ E)
    BY <1>2, FS_Subset DEF OwnerInv, LiveFinite
  <2>2. Cardinality((live \ E) \cup E)
        = Cardinality(live \ E) + Cardinality(E) - Cardinality((live \ E) \cap E)
    BY <2>1, FS_Union
  <2>3. (live \ E) \cup E = live /\ (live \ E) \cap E = {} BY <1>2
  <2>4. Cardinality((live \ E) \cap E) = 0 BY <2>3, FS_EmptySet
  <2>5. Cardinality(live \ E) \in Nat /\ Cardinality(E) \in Nat /\ Cardinality(live) \in Nat
    BY <2>1, FS_CardinalityType
  <2>6. live' = live \ E /\ m_user_count' = m_user_count - Cardinality(E) BY <1>1
  <2> HIDE DEF E
  <2>7. Cardinality(live) = Cardinality(live \ E) + Cardinality(E) - 0
    BY <2>2, <2>3, <2>4
  <2>8. Cardinality(live \ E) = Cardinality(live) - Cardinality(E) BY <2>5, <2>7
  <2> QED BY <2>1, <2>6, <2>8 DEF OwnerInv, LiveFinite
<1>4. ASSUME NEW d \in live'
      PROVE  timerFd[d] \in Fds /\ userTimer[timerFd[d]] = d /\ sock'[timerFd[d]] = d
  <2>1. d \in live /\ d \notin TS!Expired BY <1>1, <1>4
  <2>2. timerFd[d] \in Fds /\ userTimer[timerFd[d]] = d /\ sock[timerFd[d]] = d
    BY <2>1 DEF OwnerInv, TimerOwns
  <2>3. \A c \in TS!Expired : timerFd[c] # timerFd[d]
    BY <1>2, <2>1, <2>2 DEF OwnerInv, TimerOwns
  <2> QED BY <1>1, <2>2, <2>3 DEF CloseAll
<1> QED BY <1>3, <1>4 DEF OwnerInv, TimerOwns, Closing

LEMMA OwnerMain ==
    ASSUME OwnerInv, TInv, Main
    PROVE  OwnerInv'
<1>0. UNCHANGED <<ovars, worker>> => OwnerInv'
  BY DEF ovars, OwnerInv, TimerOwns, LiveFinite, Closing
<1> USE DEF timers, epoll
<1>1. CASE EpollWait \/ AcceptFails \/ ServerBusy \/ DealWithSignal
  BY <1>0, <1>1 DEF ovars, EpollWait, AcceptFails, ServerBusy, DealWithSignal
<1>2. CASE \E c \in Conns, fd \in Fds : Accept(c, fd) BY <1>2, OwnerAccept
\* The timer of an event at hand, or of the request waited for, is the descriptor's own.
<1>3. ASSUME NEW fd \in Fds, (\E e \in batch : e.fd = fd) \/ spinFd = fd, DealTimer(fd),
             UNCHANGED worker
      PROVE  OwnerInv'
  BY <1>3, OwnerClose DEF TInv, TimerAlive
<1>4. ASSUME NEW fd \in Fds, AdjustTimer(fd), UNCHANGED <<sock, m_user_count, worker>>
      PROVE  OwnerInv'
  BY <1>0, <1>4 DEF AdjustTimer, TS!Adjust, ovars
<1>5. \A fd, kind : Event(kind, fd) \in batch => \E e \in batch : e.fd = fd BY DEF Event
<1>6. ASSUME NEW fd \in Fds, HangUp(fd) PROVE OwnerInv' BY <1>3, <1>5, <1>6 DEF HangUp
<1>7. ASSUME NEW fd \in Fds, ReadProactor(fd) PROVE OwnerInv'
  BY <1>3, <1>4, <1>5, <1>7 DEF ReadProactor
<1>8. ASSUME NEW fd \in Fds, WriteProactor(fd) PROVE OwnerInv'
  <2>1. (AdjustTimer(fd) /\ UNCHANGED <<sock, m_user_count>>) \/ DealTimer(fd)
    BY <1>8 DEF WriteProactor
  <2>2. Event("out", fd) \in batch /\ UNCHANGED worker BY <1>8 DEF WriteProactor
  <2> QED BY <1>3, <1>4, <1>5, <2>1, <2>2
<1>9. ASSUME NEW fd \in Fds, NEW kind, NEW state, HandOver(fd, kind, state) PROVE OwnerInv'
  BY <1>4, <1>9 DEF HandOver
<1>10. CASE SpinEnds
  <2>1. spinFd \in Fds BY <1>10 DEF SpinEnds, TInv, TimerTypes, MainShape
  <2>2. DealTimer(spinFd) \/ UNCHANGED <<epoll, timers, m_user_count>>
    BY <1>10 DEF SpinEnds
  <2>3. UNCHANGED worker BY <1>10 DEF SpinEnds
  <2>4. CASE DealTimer(spinFd)
    <3>1. PICK fd \in Fds : fd = spinFd BY <2>1
    <3> QED BY <1>3, <2>3, <2>4, <3>1
  <2> QED BY <1>0, <2>2, <2>3, <2>4 DEF ovars
<1>11. CASE EndBatch
  <2>1. TimerHandler \/ UNCHANGED <<live, left, epoll, m_user_count, alarm>>
    BY <1>11 DEF EndBatch
  <2>2. UNCHANGED <<timerFd, userTimer, worker>> BY <1>11 DEF EndBatch
  <2> QED BY <1>0, <2>1, <2>2, OwnerTick DEF ovars
<1> QED BY <1>1, <1>2, <1>6, <1>7, <1>8, <1>9, <1>10, <1>11 DEF Main

LEMMA OwnerWorker ==
    ASSUME OwnerInv, FailFree, BaseTypes, NEW w \in Workers, Work(w)
    PROVE  OwnerInv'
<1>1. ~Closing(w) /\ worker \in [Workers -> WorkerType]
  BY DEF OwnerInv, BaseTypes, WorkerType
<1>2. Take(w) \/ Recv(w) \/ Transmit(w) \/ Improv(w) \/ Verdict(w) \/ Parse(w) \/ Fill(w)
      \/ Rearm(w)
  BY <1>1, SMTT(30) DEF Work, Closing, CloseConn, Forget, LoadCount, StoreCount
<1>3. UNCHANGED ovars
  BY <1>2 DEF Take, Recv, Transmit, Improv, Verdict, Parse, Fill, Rearm, ovars, epoll, timers
<1>4. ~Closing(w)' /\ \A o \in Workers \ {w} : worker'[o] = worker[o]
  <2>1. CASE Take(w) BY <1>1, <2>1 DEF Take, Closing, Idle
  <2>2. CASE Recv(w) BY <1>1, <2>2 DEF Recv, Goto, Closing, WorkerType
  <2>3. CASE Transmit(w) BY <1>1, <2>3 DEF Transmit, Goto, Closing, WorkerType
  <2>4. CASE Improv(w) BY <1>1, <2>4 DEF Improv, Closing, Idle, WorkerType
  <2>5. CASE Verdict(w) \/ Rearm(w) BY <1>1, <2>5 DEF Verdict, Rearm, Closing, Idle
  <2>6. CASE Parse(w) BY <1>1, <2>6 DEF Parse, Goto, Closing, WorkerType, FailFree
  <2>7. CASE Fill(w) BY <1>1, <2>7 DEF Fill, Goto, Closing, WorkerType
  <2> QED BY <1>2, <2>1, <2>2, <2>3, <2>4, <2>5, <2>6, <2>7
<1>5. \A o \in Workers : ~Closing(o)' BY <1>4 DEF OwnerInv, Closing
<1> QED BY <1>3, <1>5 DEF ovars, OwnerInv, TimerOwns, LiveFinite

LEMMA OwnerStep ==
    ASSUME FailFree
    PROVE  OwnerInv /\ TInv /\ TypeOK /\ [Next]_vars => OwnerInv'
<1> SUFFICES ASSUME OwnerInv, TInv, TypeOK, [Next]_vars PROVE OwnerInv' OBVIOUS
<1>1. BaseTypes BY DEF TypeOK, BaseTypes
<1>2. CASE Client \/ Clock \/ SigAlrm \/ SigTerm \/ UNCHANGED vars
  <2>1. UNCHANGED <<ovars, worker>>
    BY <1>2 DEF Client, Connect, Send, Shut, Drain, Clock, TS!Pass, SigAlrm, SigTerm, vars,
                ovars, epoll, timers
  <2> QED BY <2>1 DEF ovars, OwnerInv, TimerOwns, LiveFinite, Closing
<1> QED BY <1>1, <1>2, OwnerMain, OwnerWorker DEF Next

LEMMA OwnerAlways ==
    ASSUME FailFree
    PROVE  Spec => []OwnerInv
<1>1. Init => OwnerInv
  BY FS_EmptySet DEF Init, TS!Init, OwnerInv, LiveFinite, TimerOwns, Closing, Idle
<1>2. OwnerInv /\ TInv /\ TypeOK /\ [Next]_vars => OwnerInv' BY OwnerStep
<1> QED BY <1>1, <1>2, TInvariance, TypeCorrect, PTL DEF Spec

\* m_user_count is the number of open connections at every step of every thread, as long
\* as only the main thread closes them.
THEOREM CountIsExact ==
    ASSUME FailFree
    PROVE  Spec => []UserCountExact
<1>1. OwnerInv /\ TInv => UserCountExact
  <2> SUFFICES ASSUME OwnerInv, TInv PROVE UserCountExact OBVIOUS
  <2> DEFINE Open == {fd \in Fds : sock[fd] # None}
             Owned == [c \in live |-> timerFd[c]]
             InClose == {w \in Workers : worker[w].pc \in {"forget", "load", "store"}}
  <2>1. InClose = {} BY DEF OwnerInv, Closing
  <2>2. \A c \in live : timerFd[c] \in Open
    BY Parameters DEF OwnerInv, TimerOwns, TInv, TimerTypes
  <2>3. \A c, d \in live : timerFd[c] = timerFd[d] => c = d BY DEF OwnerInv, TimerOwns
  <2>4. \A fd \in Open : \E c \in live : timerFd[c] = fd BY DEF TInv, TimerAlive
  <2>5. Owned \in Bijection(live, Open)
    <3> HIDE DEF Open
    <3> QED BY <2>2, <2>3, <2>4 DEF Bijection, Injection, Surjection, IsInjective
  <2>6. Cardinality(Open) = Cardinality(live)
    <3>1. ExistsBijection(live, Open) BY <2>5 DEF ExistsBijection
    <3> HIDE DEF Open
    <3> QED BY <3>1, FS_Bijection DEF OwnerInv, LiveFinite
  <2>7. Cardinality(InClose) = 0 BY <2>1, FS_EmptySet
  <2>8. Cardinality(live) \in Nat BY FS_CardinalityType DEF OwnerInv, LiveFinite
  <2> QED BY <2>6, <2>7, <2>8 DEF UserCountExact, OwnerInv
<1> QED BY <1>1, OwnerAlways, TInvariance, PTL
-----------------------------------------------------------------------------
(* One thread at a time.  A descriptor is in one place: armed in epoll, reported in the      *)
(* batch, queued, or in the hands of one worker.  EPOLLONESHOT alone does not give that: a   *)
(* connection closed while it is queued or held would free its descriptor for the next       *)
(* client.  So the proof also needs that whoever has it, has it while its socket is open and *)
(* its timer has not run out, and that in the reactor a verdict is read before the main      *)
(* thread goes on.                                                                           *)

Undisturbed == /\ FailFree
               /\ Prompt
               /\ \A fd \in Fds : Overrun[fd] = {}

InQueue(fd) == \E i \in DOMAIN m_workqueue : m_workqueue[i] = fd
InBatch(fd) == \E e \in batch : e.fd = fd
Armed(fd) == interest[fd] \in {"in", "out"}

\* The reactor's worker has finished with the request and the main thread is to be told.
Told(w) == worker[w].pc \in {"sent", "failed", "verdict"}
Holds(w, fd) == worker[w].fd = fd /\ ~Told(w)
Held(fd) == \E w \in Workers : Holds(w, fd)

OnePlace(fd) == /\ Armed(fd) => ~InBatch(fd) /\ ~InQueue(fd) /\ ~Held(fd)
                /\ InBatch(fd) => ~InQueue(fd) /\ ~Held(fd)
                /\ InQueue(fd) => ~Held(fd)

QueuedOnce == \A i, j \in DOMAIN m_workqueue : m_workqueue[i] = m_workqueue[j] => i = j

OneWorkerEach ==
    \A v, w \in Workers : worker[v].fd = worker[w].fd /\ worker[v].fd \in Fds => v = w

InTime == \A fd \in Fds : InQueue(fd) \/ Held(fd) => sock[fd] # None /\ left[userTimer[fd]] >= 1

Verdicts ==
    /\ \A w \in Workers : worker[w].pc = "verdict" =>
           mpc = "spin" /\ worker[w].fd = spinFd /\ users[spinFd].improv = 1
    /\ \A fd \in Fds : users[fd].timer_flag = 1 =>
           mpc = "spin" /\ fd = spinFd /\ users[fd].improv = 1 /\ ~Held(fd)

IdleEmpty == \A w \in Workers : worker[w].pc = "idle" => worker[w].fd = None

OwnSocket == \A fd \in Fds : sock[fd] # None => users[fd].sockfd = fd

HandInv == /\ IdleEmpty
           /\ OwnSocket
           /\ ~missed => /\ \A fd \in Fds : OnePlace(fd)
                         /\ QueuedOnce
                         /\ OneWorkerEach
                         /\ InTime
                         /\ Verdicts

\* What the proof uses of the other invariants.
Ground == /\ TInv /\ BaseTypes /\ WorkerHasRequest /\ LiveFinite
          /\ SpinInv /\ OwnerInv /\ missed \in BOOLEAN

hvars == <<mpc, spinFd, interest, sock, left, userTimer, users, m_workqueue, worker, missed>>

\* While a worker has finished and the main thread was not told, it waits for that worker.
LEMMA ToldWaited ==
    ASSUME Ground, Verdicts, NEW w \in Workers, Told(w)
    PROVE  mpc = "spin" /\ worker[w].fd = spinFd /\ m_workqueue = <<>>
<1>1. MainShape /\ SpinInv BY DEF Ground, TInv
<1>2. mpc = "spin" => spinFd \in Fds /\ users[spinFd].improv \in {0, 1}
  BY <1>1, SpinTypes DEF Ground
<1>3. CASE worker[w].pc \in {"sent", "failed"}
  BY <1>1, <1>2, <1>3 DEF SpinInv, Asked
<1>4. CASE worker[w].pc = "verdict"
  BY <1>1, <1>4 DEF Verdicts, SpinInv
<1> QED BY <1>3, <1>4 DEF Told

\* Appending to the queue and taking from it.
LEMMA QueueAppend ==
    ASSUME NEW q \in Seq(Fds), NEW fd \in Fds, NEW r, r = Append(q, fd)
    PROVE  /\ \A g : (\E i \in DOMAIN r : r[i] = g) => g = fd \/ \E i \in DOMAIN q : q[i] = g
           /\ (\A i \in DOMAIN q : q[i] # fd) /\ (\A i, j \in DOMAIN q : q[i] = q[j] => i = j)
              => \A i, j \in DOMAIN r : r[i] = r[j] => i = j
OBVIOUS

LEMMA QueueTake ==
    ASSUME NEW q \in Seq(Fds), q # <<>>
    PROVE  /\ Head(q) \in Fds /\ \E i \in DOMAIN q : q[i] = Head(q)
           /\ \A g : (\E i \in DOMAIN Tail(q) : Tail(q)[i] = g) => \E i \in DOMAIN q : q[i] = g
           /\ (\A i, j \in DOMAIN q : q[i] = q[j] => i = j)
              => /\ \A i, j \in DOMAIN Tail(q) : Tail(q)[i] = Tail(q)[j] => i = j
                 /\ \A i \in DOMAIN Tail(q) : Tail(q)[i] # Head(q)
<1>1. Len(q) \in Nat \ {0} /\ Head(q) = q[1] /\ DOMAIN q = 1..Len(q) OBVIOUS
<1>2. Tail(q) \in Seq(Fds) /\ DOMAIN Tail(q) = 1..(Len(q) - 1) OBVIOUS
<1>3. \A i \in DOMAIN Tail(q) : Tail(q)[i] = q[i + 1] /\ i + 1 \in DOMAIN q /\ i + 1 # 1
  BY <1>1, <1>2
<1>4. \A i, j \in DOMAIN Tail(q) : i + 1 = j + 1 => i = j BY <1>1, <1>2
<1> HIDE <1>2
<1> QED BY <1>1, <1>3, <1>4

\* The clients, the kernel and the signals leave everything in its place.
LEMMA HandsUntouched ==
    ASSUME HandInv, UNCHANGED hvars, \A fd \in Fds : InBatch(fd)' => InBatch(fd)
    PROVE  HandInv'
<1> USE DEF hvars
<1>1. IdleEmpty' /\ OwnSocket' BY DEF HandInv, IdleEmpty, OwnSocket
<1>2. \A fd : /\ InQueue(fd)' <=> InQueue(fd)
              /\ Held(fd)' <=> Held(fd)
              /\ Armed(fd)' <=> Armed(fd)
  BY DEF InQueue, Held, Holds, Told, Armed
<1>3. ASSUME ~missed
      PROVE  (\A fd \in Fds : OnePlace(fd)') /\ QueuedOnce' /\ OneWorkerEach' /\ InTime' /\ Verdicts'
  <2>1. \A fd \in Fds : OnePlace(fd)' BY <1>2, <1>3 DEF HandInv, OnePlace
  <2>2. QueuedOnce' /\ OneWorkerEach' BY <1>3 DEF HandInv, QueuedOnce, OneWorkerEach
  <2>3. InTime' BY <1>2, <1>3 DEF HandInv, InTime
  <2>4. Verdicts' BY <1>2, <1>3 DEF HandInv, Verdicts
  <2> QED BY <2>1, <2>2, <2>3, <2>4
<1> QED BY <1>1, <1>3 DEF HandInv

\* A TIMESLOT passes: with Prompt it is not the last one of a connection in use.
LEMMA HandsClock ==
    ASSUME HandInv, Ground, Prompt, Clock
    PROVE  HandInv'
<1>1. UNCHANGED <<mpc, spinFd, interest, sock, userTimer, users, m_workqueue, worker, missed, batch>>
  BY DEF Clock, epoll, loop
<1>2. IdleEmpty' /\ OwnSocket' BY <1>1 DEF HandInv, IdleEmpty, OwnSocket
<1>3. \A fd : /\ InQueue(fd)' <=> InQueue(fd)
              /\ Held(fd)' <=> Held(fd)
              /\ Armed(fd)' <=> Armed(fd)
              /\ InBatch(fd)' <=> InBatch(fd)
  BY <1>1 DEF InQueue, Held, Holds, Told, Armed, InBatch
<1>4. ASSUME ~missed
      PROVE  (\A fd \in Fds : OnePlace(fd)') /\ QueuedOnce' /\ OneWorkerEach' /\ InTime' /\ Verdicts'
  <2>1. \A fd \in Fds : OnePlace(fd)' BY <1>3, <1>4 DEF HandInv, OnePlace
  <2>2. QueuedOnce' /\ OneWorkerEach' BY <1>1, <1>4 DEF HandInv, QueuedOnce, OneWorkerEach
  <2>3. Verdicts' BY <1>1, <1>3, <1>4 DEF HandInv, Verdicts
  <2>4. ASSUME NEW fd \in Fds, InQueue(fd) \/ Held(fd)
        PROVE  sock[fd] # None /\ left'[userTimer[fd]] >= 1
    <3>1. Busy(fd) BY <2>4 DEF Busy, InQueue, Held, Holds
    <3>2. sock[fd] # None BY <1>4, <2>4 DEF HandInv, InTime
    <3>3. left[userTimer[fd]] > 1 BY <3>1, <3>2 DEF Clock
    <3>4. userTimer[fd] \in Conns /\ left[userTimer[fd]] \in Nat
      BY <3>2 DEF Ground, TInv, TimerAlive, TimerTypes
    <3>5. left'[userTimer[fd]] = left[userTimer[fd]] - 1
      BY <3>3, <3>4 DEF Clock, TS!Pass
    <3> QED BY <3>2, <3>3, <3>4, <3>5
  <2> QED BY <1>1, <1>3, <2>1, <2>2, <2>3, <2>4 DEF InTime
<1> QED BY <1>1, <1>2, <1>4 DEF HandInv
-----------------------------------------------------------------------------
\* The main thread outside its loop in the reactor: nobody has something to tell.
LEMMA NobodyTold ==
    ASSUME Ground, Verdicts, mpc # "spin"
    PROVE  /\ \A w \in Workers : ~Told(w)
           /\ \A fd \in Fds : users[fd].timer_flag # 1
BY ToldWaited DEF Verdicts

\* What is left to show of a step of the main thread.
LEMMA HandsMain ==
    ASSUME HandInv, Ground, mpc # "spin", UNCHANGED <<worker, missed>>, OwnSocket',
           \A fd \in Fds : users'[fd].timer_flag = 1 => users[fd].timer_flag = 1,
           ~missed => (\A fd \in Fds : OnePlace(fd)') /\ QueuedOnce' /\ InTime'
    PROVE  HandInv'
<1>1. IdleEmpty' BY DEF HandInv, IdleEmpty
<1>2. ASSUME ~missed PROVE OneWorkerEach' /\ Verdicts'
  <2>1. OneWorkerEach' BY <1>2 DEF HandInv, OneWorkerEach
  <2>2. /\ \A w \in Workers : worker'[w].pc # "verdict"
        /\ \A fd \in Fds : users'[fd].timer_flag # 1
    BY <1>2, NobodyTold DEF HandInv, Told
  <2> QED BY <2>1, <2>2 DEF Verdicts
<1> QED BY <1>1, <1>2 DEF HandInv

LEMMA SocketsKept ==
    ASSUME OwnSocket, \A g \in Fds : sock'[g] # None => sock[g] # None,
           \A g \in Fds : users'[g].sockfd = users[g].sockfd
    PROVE  OwnSocket'
BY DEF OwnSocket

\* Closing the connection of one descriptor takes no other one's time.
LEMMA InTimeClose ==
    ASSUME Ground, InTime, NEW fd \in Fds, DealTimer(fd), timerFd[userTimer[fd]] = fd,
           \A g \in Fds : InQueue(g)' \/ Held(g)' => g # fd /\ (InQueue(g) \/ Held(g))
    PROVE  InTime'
<1> SUFFICES ASSUME NEW g \in Fds, InQueue(g)' \/ Held(g)'
             PROVE  sock'[g] # None /\ left'[userTimer'[g]] >= 1
  BY DEF InTime
<1>1. g # fd /\ sock[g] # None /\ left[userTimer[g]] >= 1 BY DEF InTime
<1>2. timerFd[userTimer[g]] = g /\ userTimer[g] \in Conns
  BY <1>1 DEF Ground, TInv, TimerAlive, TimerTypes
<1>3. userTimer[g] # userTimer[fd] BY <1>1, <1>2
<1>4. userTimer' = userTimer /\ left' = [left EXCEPT ![userTimer[fd]] = 0] /\ sock'[g] = sock[g]
  BY <1>1 DEF DealTimer, TS!Del, CloseAll
<1> QED BY <1>1, <1>2, <1>3, <1>4 DEF Ground, TInv, TimerTypes

LEMMA InTimeAdjust ==
    ASSUME Ground, InTime, NEW fd \in Fds, AdjustTimer(fd), sock' = sock, sock[fd] # None,
           \A g \in Fds : InQueue(g)' \/ Held(g)' => g = fd \/ InQueue(g) \/ Held(g)
    PROVE  InTime'
<1> SUFFICES ASSUME NEW g \in Fds, InQueue(g)' \/ Held(g)'
             PROVE  sock'[g] # None /\ left'[userTimer'[g]] >= 1
  BY DEF InTime
<1>1. /\ userTimer[fd] \in live /\ userTimer' = userTimer
      /\ left' = [left EXCEPT ![userTimer[fd]] = Life]
  BY DEF AdjustTimer, TS!Adjust
<1>2. Life >= 1 /\ left \in [Conns -> Nat] BY Parameters DEF Ground, TInv, TimerTypes
<1>3. CASE userTimer[g] = userTimer[fd]
  <2>1. userTimer[fd] \in Conns BY <1>1 DEF Ground, TInv, TimerTypes
  <2>2. sock[g] # None BY DEF InTime
  <2> QED BY <1>1, <1>2, <1>3, <2>1, <2>2
<1>4. CASE userTimer[g] # userTimer[fd]
  <2>1. sock[g] # None /\ left[userTimer[g]] >= 1 BY <1>4 DEF InTime
  <2>2. userTimer[g] \in Conns BY <2>1 DEF Ground, TInv, TimerAlive, TimerTypes
  <2> QED BY <1>1, <1>2, <1>4, <2>1, <2>2
<1> QED BY <1>3, <1>4

\* An event at hand: its descriptor is open, and nowhere else.
LEMMA EventAtHand ==
    ASSUME HandInv, Ground, NEW fd \in Fds, NEW kind, Event(kind, fd) \in batch,
           batch' = batch \ {Event(kind, fd)}
    PROVE  /\ sock[fd] # None /\ users[fd].sockfd = fd /\ timerFd[userTimer[fd]] = fd
           /\ ~InBatch(fd)' /\ \A g \in Fds : InBatch(g)' => InBatch(g)
           /\ ~missed => InBatch(fd) /\ ~Armed(fd) /\ ~InQueue(fd) /\ ~Held(fd)
<1>1. Event(kind, fd).fd = fd BY DEF Event
<1>2. InBatch(fd) BY <1>1 DEF InBatch
<1>3. sock[fd] # None /\ timerFd[userTimer[fd]] = fd
  BY <1>2, SocketOfTimer DEF Ground, OwnerInv, InBatch
<1>4. users[fd].sockfd = fd BY <1>3 DEF HandInv, OwnSocket
<1>5. ~InBatch(fd)' BY <1>1 DEF Ground, TInv, OneEventEach, InBatch
<1>6. \A g \in Fds : InBatch(g)' => InBatch(g) BY DEF InBatch
<1>7. ~missed => ~Armed(fd) /\ ~InQueue(fd) /\ ~Held(fd) BY <1>2 DEF HandInv, OnePlace
<1> QED BY <1>2, <1>3, <1>4, <1>5, <1>6, <1>7

LEMMA EventPlaced ==
    ASSUME HandInv, Ground, ~missed, NEW fd \in Fds, NEW kind, Event(kind, fd) \in batch,
           batch' = batch \ {Event(kind, fd)}, UNCHANGED worker,
           \A g \in Fds : Armed(g)' => g = fd \/ Armed(g),
           \A g \in Fds : InQueue(g)' => g = fd \/ InQueue(g),
           ~Armed(fd)' \/ ~InQueue(fd)'
    PROVE  \A g \in Fds : OnePlace(g)'
<1>1. \A g : Held(g)' <=> Held(g) BY DEF Held, Holds, Told
<1>2. OnePlace(fd)' BY <1>1, EventAtHand DEF OnePlace
<1>3. ASSUME NEW g \in Fds, g # fd PROVE OnePlace(g)'
  <2>1. OnePlace(g) BY DEF HandInv
  <2>2. InBatch(g)' => InBatch(g) BY EventAtHand
  <2> QED BY <1>1, <1>3, <2>1, <2>2 DEF OnePlace
<1> QED BY <1>2, <1>3

LEMMA HandsClose ==
    ASSUME HandInv, Ground, NEW fd \in Fds, NEW kind, Event(kind, fd) \in batch,
           batch' = batch \ {Event(kind, fd)}, UNCHANGED <<worker, missed, m_workqueue>>,
           mpc # "spin", DealTimer(fd),
           \A g \in Fds : users'[g].sockfd = users[g].sockfd,
           \A g \in Fds : users'[g].timer_flag = 1 => users[g].timer_flag = 1
    PROVE  HandInv'
<1>1. \A g \in Fds : Armed(g)' => Armed(g) BY DEF DealTimer, CloseAll, Armed
<1>2. \A g : InQueue(g)' <=> InQueue(g) BY DEF InQueue
<1>3. \A g : Held(g)' <=> Held(g) BY DEF Held, Holds, Told
<1>4. \A g \in Fds : sock'[g] # None => sock[g] # None BY DEF DealTimer, CloseAll
<1>5. OwnSocket' BY <1>4, SocketsKept DEF HandInv
<1>6. ASSUME ~missed PROVE (\A g \in Fds : OnePlace(g)') /\ QueuedOnce' /\ InTime'
  <2>1. ~InQueue(fd) /\ ~Held(fd) /\ ~Armed(fd) /\ timerFd[userTimer[fd]] = fd
    BY <1>6, EventAtHand
  <2>2. \A g \in Fds : OnePlace(g)' BY <1>1, <1>2, <1>6, <2>1, EventPlaced
  <2>3. QueuedOnce' BY <1>6 DEF HandInv, QueuedOnce
  <2>4. \A g \in Fds : InQueue(g)' \/ Held(g)' => g # fd /\ (InQueue(g) \/ Held(g))
    BY <1>2, <1>3, <2>1
  <2>5. InTime' BY <1>6, <2>1, <2>4, InTimeClose DEF HandInv
  <2> QED BY <2>2, <2>3, <2>5
<1> QED BY <1>5, <1>6, HandsMain

\* A request is queued, or lost because the queue is full.
LEMMA HandsQueued ==
    ASSUME HandInv, Ground, NEW fd \in Fds, NEW kind, Event(kind, fd) \in batch,
           batch' = batch \ {Event(kind, fd)}, UNCHANGED <<worker, missed, epoll>>,
           mpc # "spin", AdjustTimer(fd), Enqueue(fd),
           \A g \in Fds : users'[g].sockfd = users[g].sockfd,
           \A g \in Fds : users'[g].timer_flag = 1 => users[g].timer_flag = 1
    PROVE  HandInv'
<1>1. UNCHANGED <<sock, interest>> BY DEF epoll
<1>2. OwnSocket' BY <1>1, SocketsKept DEF HandInv
<1>3. \A g : Armed(g)' <=> Armed(g) BY <1>1 DEF Armed
<1>4. \A g : Held(g)' <=> Held(g) BY DEF Held, Holds, Told
<1>5. m_workqueue \in Seq(Fds) BY DEF Ground, BaseTypes
<1>6. m_workqueue' = m_workqueue \/ m_workqueue' = Append(m_workqueue, fd) BY DEF Enqueue
<1>7. \A g \in Fds : InQueue(g)' => g = fd \/ InQueue(g)
  BY <1>5, <1>6, QueueAppend DEF InQueue
<1>8. ASSUME ~missed PROVE (\A g \in Fds : OnePlace(g)') /\ QueuedOnce' /\ InTime'
  <2>1. ~InQueue(fd) /\ ~Armed(fd) /\ sock[fd] # None BY <1>8, EventAtHand
  <2>2. ~Armed(fd)' BY <1>3, <2>1
  <2>3. \A g \in Fds : OnePlace(g)' BY <1>3, <1>7, <1>8, <2>2, EventPlaced
  <2>4. QueuedOnce'
    <3>1. QueuedOnce /\ \A i \in DOMAIN m_workqueue : m_workqueue[i] # fd
      BY <1>8, <2>1 DEF HandInv, InQueue
    <3> QED BY <1>5, <1>6, <3>1, QueueAppend DEF QueuedOnce
  <2>5. InTime' BY <1>1, <1>4, <1>7, <1>8, <2>1, InTimeAdjust DEF HandInv
  <2> QED BY <2>3, <2>4, <2>5
<1> QED BY <1>2, <1>8, HandsMain
-----------------------------------------------------------------------------
\* Without an overrun init() writes to its own object only.
LEMMA PutOwn ==
    ASSUME BaseTypes, Undisturbed, NEW fd \in Fds, NEW u, NEW init
    PROVE  Put(fd, u, init) = [users EXCEPT ![fd] = u]
<1>1. users = [g \in Fds |-> users[g]] BY DEF BaseTypes
<1>2. Put(fd, u, init) = [g \in Fds |-> IF g = fd THEN u ELSE users[g]]
  BY DEF Put, Undisturbed
<1> QED BY <1>1, <1>2

LEMMA HandsWritten ==
    ASSUME HandInv, Ground, NEW fd \in Fds, Event("out", fd) \in batch,
           batch' = batch \ {Event("out", fd)}, UNCHANGED <<worker, missed, m_workqueue, sock>>,
           mpc # "spin", AdjustTimer(fd), NEW ev \in {"keep", "in", "out"},
           interest' = AfterWrite(fd, ev),
           \A g \in Fds : users'[g].sockfd = users[g].sockfd,
           \A g \in Fds : users'[g].timer_flag = 1 => users[g].timer_flag = 1
    PROVE  HandInv'
<1>1. OwnSocket' BY SocketsKept DEF HandInv
<1>2. \A g : InQueue(g)' <=> InQueue(g) BY DEF InQueue
<1>3. \A g : Held(g)' <=> Held(g) BY DEF Held, Holds, Told
<1>4. sock[fd] # None /\ users[fd].sockfd = fd BY EventAtHand
<1>5. \A g \in Fds : Armed(g)' => g = fd \/ Armed(g)
  BY <1>4 DEF AfterWrite, Modfd, Armed, Ground, BaseTypes
<1>6. ASSUME ~missed PROVE (\A g \in Fds : OnePlace(g)') /\ QueuedOnce' /\ InTime'
  <2>1. ~InQueue(fd)' BY <1>2, <1>6, EventAtHand
  <2>2. \A g \in Fds : OnePlace(g)' BY <1>2, <1>5, <1>6, <2>1, EventPlaced
  <2>3. QueuedOnce' BY <1>6 DEF HandInv, QueuedOnce
  <2>4. InTime' BY <1>2, <1>3, <1>4, <1>6, InTimeAdjust DEF HandInv
  <2> QED BY <2>2, <2>3, <2>4
<1> QED BY <1>1, <1>6, HandsMain

LEMMA HandsEvent ==
    ASSUME HandInv, Ground, Undisturbed, NEW fd \in Fds,
           \/ HangUp(fd) \/ ReadProactor(fd) \/ WriteProactor(fd)
           \/ HandOver(fd, "in", 0) \/ HandOver(fd, "out", 1)
    PROVE  HandInv'
<1>0. BaseTypes /\ users \in [Fds -> UserType] BY DEF Ground, BaseTypes
<1>1. CASE HangUp(fd) BY <1>1, HandsClose DEF HangUp
<1>2. CASE ReadProactor(fd)
  <2>1. users' = [users EXCEPT ![fd] = AfterRead(fd)] BY <1>2 DEF ReadProactor
  <2>2. \A g \in Fds : /\ users'[g].sockfd = users[g].sockfd
                       /\ users'[g].timer_flag = users[g].timer_flag
    BY <1>0, <2>1, ReadKeeps
  <2>3. /\ Event("in", fd) \in batch /\ batch' = batch \ {Event("in", fd)}
        /\ UNCHANGED <<worker, missed>> /\ mpc # "spin"
    BY <1>2 DEF ReadProactor
  <2>4. \/ Enqueue(fd) /\ AdjustTimer(fd) /\ UNCHANGED epoll
        \/ DealTimer(fd) /\ UNCHANGED m_workqueue
    BY <1>2 DEF ReadProactor
  <2> QED BY <2>2, <2>3, <2>4, HandsClose, HandsQueued
<1>3. CASE WriteProactor(fd)
  <2>1. PICK r \in Writes(fd) : /\ users' = Put(fd, r.user, r.init)
                                /\ IF r.ok
                                   THEN /\ interest' = AfterWrite(fd, r.ev)
                                        /\ AdjustTimer(fd)
                                        /\ UNCHANGED <<sock, m_user_count>>
                                   ELSE DealTimer(fd)
    BY <1>3 DEF WriteProactor
  <2>2. users' = [users EXCEPT ![fd] = r.user] BY <1>0, <2>1, PutOwn
  <2>3. r.user.sockfd = users[fd].sockfd /\ r.user.timer_flag \in {0, users[fd].timer_flag}
    BY <1>0, WriteKeeps
  <2>4. \A g \in Fds : /\ users'[g].sockfd = users[g].sockfd
                       /\ users'[g].timer_flag = 1 => users[g].timer_flag = 1
    BY <1>0, <2>2, <2>3
  <2>5. /\ Event("out", fd) \in batch /\ batch' = batch \ {Event("out", fd)}
        /\ UNCHANGED <<worker, missed, m_workqueue>> /\ mpc # "spin"
    BY <1>3 DEF WriteProactor
  <2>6. r.ev \in {"keep", "in", "out"} BY DEF Writes
  <2> QED BY <2>1, <2>4, <2>5, <2>6, HandsClose, HandsWritten
<1>4. ASSUME NEW kind, NEW state, HandOver(fd, kind, state) PROVE HandInv'
  <2>1. \/ users' = users
        \/ users' = [users EXCEPT ![fd] = [users[fd] EXCEPT !.state = state]]
    BY <1>0, <1>4 DEF HandOver
  <2>2. /\ [users[fd] EXCEPT !.state = state].sockfd = users[fd].sockfd
        /\ [users[fd] EXCEPT !.state = state].timer_flag = users[fd].timer_flag
    BY <1>0 DEF UserType
  <2>3. \A g \in Fds : /\ users'[g].sockfd = users[g].sockfd
                       /\ users'[g].timer_flag = users[g].timer_flag
    BY <1>0, <2>1, <2>2
  <2> QED BY <1>4, <2>3, HandsQueued DEF HandOver
<1> QED BY <1>1, <1>2, <1>3, <1>4

LEMMA HandsAccept ==
    ASSUME HandInv, Ground, Undisturbed, NEW c \in Conns, NEW fd \in Fds, Accept(c, fd)
    PROVE  HandInv'
<1>0. BaseTypes /\ users \in [Fds -> UserType] /\ interest \in [Fds -> {"none", "off", "in", "out"}]
  BY DEF Ground, BaseTypes
<1>1. /\ sock[fd] = None /\ mpc # "spin" /\ batch' \subseteq batch
      /\ sock' = [sock EXCEPT ![fd] = c] /\ interest' = [interest EXCEPT ![fd] = "in"]
      /\ userTimer' = [userTimer EXCEPT ![fd] = c]
      /\ UNCHANGED <<worker, missed, m_workqueue>>
  BY DEF Accept, Accepting, FreeFds
<1>2. c \notin live /\ left' = [left EXCEPT ![c] = Life] BY DEF Accept, TS!Add
<1>3. users' = [users EXCEPT ![fd] = [NewUser EXCEPT !.sockfd = fd]]
  <2>1. users' = Put(fd, [NewUser EXCEPT !.sockfd = fd], TRUE) BY DEF Accept
  <2>2. \A init : Put(fd, [NewUser EXCEPT !.sockfd = fd], init)
                  = [users EXCEPT ![fd] = [NewUser EXCEPT !.sockfd = fd]]
    BY <1>0, PutOwn
  <2> QED BY <2>1, <2>2
<1>4. [NewUser EXCEPT !.sockfd = fd].sockfd = fd /\ [NewUser EXCEPT !.sockfd = fd].timer_flag = 0
  BY DEF NewUser
<1>5. OwnSocket' BY <1>0, <1>1, <1>3, <1>4 DEF HandInv, OwnSocket, Ground, BaseTypes
<1>6. \A g \in Fds : users'[g].timer_flag = 1 => users[g].timer_flag = 1
  BY <1>0, <1>3, <1>4
<1>7. \A g : InQueue(g)' <=> InQueue(g) BY <1>1 DEF InQueue
<1>8. \A g : Held(g)' <=> Held(g) BY <1>1 DEF Held, Holds, Told
<1>9. \A g \in Fds : InBatch(g)' => InBatch(g) BY <1>1 DEF InBatch
<1>10. \A g \in Fds : Armed(g)' => g = fd \/ Armed(g) BY <1>0, <1>1 DEF Armed
<1>11. ASSUME ~missed PROVE (\A g \in Fds : OnePlace(g)') /\ QueuedOnce' /\ InTime'
  <2>1. ~InQueue(fd) /\ ~Held(fd) BY <1>1, <1>11 DEF HandInv, InTime
  <2>2. ~InBatch(fd) BY <1>1, SocketOfTimer DEF Ground, OwnerInv, InBatch
  <2>3. \A g \in Fds : OnePlace(g)'
    BY <1>7, <1>8, <1>9, <1>10, <1>11, <2>1, <2>2 DEF HandInv, OnePlace
  <2>4. QueuedOnce' BY <1>1, <1>11 DEF HandInv, QueuedOnce
  <2>5. ASSUME NEW g \in Fds, InQueue(g)' \/ Held(g)'
        PROVE  sock'[g] # None /\ left'[userTimer'[g]] >= 1
    <3>1. g # fd /\ sock[g] # None /\ left[userTimer[g]] >= 1
      BY <1>7, <1>8, <1>11, <2>1, <2>5 DEF HandInv, InTime
    <3>2. userTimer[g] \in live /\ userTimer[g] \in Conns
      BY <3>1 DEF Ground, TInv, TimerAlive, TimerTypes
    <3> QED BY <1>1, <1>2, <3>1, <3>2 DEF Ground, TInv, TimerTypes
  <2> QED BY <2>3, <2>4, <2>5 DEF InTime
<1> QED BY <1>1, <1>5, <1>6, <1>11, HandsMain

LEMMA HandsWait ==
    ASSUME HandInv, Ground, EpollWait
    PROVE  HandInv'
<1>1. /\ mpc = "wait" /\ batch' = Ready /\ interest' = Oneshot
      /\ UNCHANGED <<worker, missed, m_workqueue, sock, users, left, userTimer>>
  BY DEF EpollWait, timers
<1>2. OwnSocket' BY <1>1 DEF HandInv, OwnSocket
<1>3. \A g \in Fds : InBatch(g)' => Armed(g) /\ ~Armed(g)'
  <2>1. \A e \in Ready : e.fd \in Fds => Occurred(e.fd)
    BY Parameters DEF Ready, Event, ListenEvent, SignalEvent
  <2>2. \A g \in Fds : Occurred(g) => Armed(g) BY DEF Occurred, Armed
  <2> QED BY <1>1, <2>1, <2>2 DEF InBatch, Oneshot, Armed
<1>4. \A g \in Fds : Armed(g)' => Armed(g)
  BY <1>1 DEF Oneshot, Armed, Ground, BaseTypes
<1>5. \A g : InQueue(g)' <=> InQueue(g) BY <1>1 DEF InQueue
<1>6. \A g : Held(g)' <=> Held(g) BY <1>1 DEF Held, Holds, Told
<1>7. ASSUME ~missed PROVE (\A g \in Fds : OnePlace(g)') /\ QueuedOnce' /\ InTime'
  <2>1. \A g \in Fds : OnePlace(g)' BY <1>3, <1>4, <1>5, <1>6, <1>7 DEF HandInv, OnePlace
  <2>2. QueuedOnce' BY <1>1, <1>7 DEF HandInv, QueuedOnce
  <2>3. InTime' BY <1>1, <1>5, <1>6, <1>7 DEF HandInv, InTime
  <2> QED BY <2>1, <2>2, <2>3
<1> QED BY <1>1, <1>2, <1>7, HandsMain

\* tick(): the connections whose time is over are not in use.
LEMMA ExpiredIdle ==
    ASSUME Ground, InTime, NEW c \in TS!Expired, NEW fd \in Fds, fd = timerFd[c]
    PROVE  ~InQueue(fd) /\ ~Held(fd) /\ sock[fd] = c /\ left[c] = 0
<1>1. userTimer[fd] = c /\ left[c] = 0 /\ sock[fd] = c
  BY DEF TS!Expired, Ground, OwnerInv, TimerOwns
<1> QED BY <1>1 DEF InTime

LEMMA HandsEnd ==
    ASSUME HandInv, Ground, EndBatch
    PROVE  HandInv'
<1>1. /\ mpc = "batch" /\ batch' = batch
      /\ UNCHANGED <<worker, missed, m_workqueue, users, userTimer>>
  BY DEF EndBatch
<1>2. left' = left BY DEF EndBatch, TimerHandler, TS!Tick
<1> DEFINE S == IF timeout THEN {timerFd[c] : c \in TS!Expired} ELSE {}
<1>3. /\ \A g \in Fds : sock'[g] = IF g \in S THEN None ELSE sock[g]
      /\ \A g \in Fds : interest'[g] = IF g \in S THEN "none" ELSE interest[g]
      /\ \A g \in S : \E c \in TS!Expired : g = timerFd[c]
  <2>1. CASE timeout
    <3>1. CloseAll(S) BY <2>1 DEF EndBatch, TimerHandler
    <3>2. \A g \in S : \E c \in TS!Expired : g = timerFd[c] BY <2>1
    <3> HIDE DEF S
    <3> QED BY <3>1, <3>2 DEF CloseAll
  <2>2. CASE ~timeout
    <3>1. sock' = sock /\ interest' = interest /\ S = {} BY <2>2 DEF EndBatch, epoll
    <3> HIDE DEF S
    <3> QED BY <3>1
  <2> QED BY <2>1, <2>2
<1> HIDE DEF S
<1>4. OwnSocket' BY <1>1, <1>3, SocketsKept DEF HandInv
<1>5. \A g \in Fds : Armed(g)' => Armed(g) BY <1>3 DEF Armed
<1>6. \A g : InQueue(g)' <=> InQueue(g) BY <1>1 DEF InQueue
<1>7. \A g : Held(g)' <=> Held(g) BY <1>1 DEF Held, Holds, Told
<1>8. \A g : InBatch(g)' <=> InBatch(g) BY <1>1 DEF InBatch
<1>9. ASSUME ~missed PROVE (\A g \in Fds : OnePlace(g)') /\ QueuedOnce' /\ InTime'
  <2>1. \A g \in Fds : OnePlace(g)' BY <1>5, <1>6, <1>7, <1>8, <1>9 DEF HandInv, OnePlace
  <2>2. QueuedOnce' BY <1>1, <1>9 DEF HandInv, QueuedOnce
  <2>3. ASSUME NEW g \in Fds, InQueue(g)' \/ Held(g)' PROVE g \notin S
    BY <1>3, <1>6, <1>7, <1>9, <2>3, ExpiredIdle DEF HandInv
  <2>4. InTime' BY <1>1, <1>2, <1>3, <1>6, <1>7, <1>9, <2>3 DEF HandInv, InTime
  <2> QED BY <2>1, <2>2, <2>4
<1> QED BY <1>1, <1>4, <1>9, HandsMain
-----------------------------------------------------------------------------
\* The main thread leaves its loop: either it reads the verdict, or it misses it.
LEMMA HandsSpinEnds ==
    ASSUME HandInv, Ground, SpinEnds
    PROVE  HandInv'
<1>1. /\ mpc = "spin" /\ spinFd \in Fds /\ users[spinFd].improv = 1
      /\ users \in [Fds -> UserType]
      /\ UNCHANGED <<worker, m_workqueue, batch>>
      /\ users' = [users EXCEPT ![spinFd].timer_flag = 0, ![spinFd].improv = 0]
  BY DEF SpinEnds, Ground, TInv, BaseTypes, MainShape
<1>2. /\ missed' = (missed \/ \E w \in Workers : worker[w].fd = spinFd /\ worker[w].pc = "verdict")
      /\ \/ DealTimer(spinFd) /\ users[spinFd].timer_flag = 1
         \/ UNCHANGED <<epoll, timers>>
  BY DEF SpinEnds
<1>3. PICK fd \in Fds : fd = spinFd BY <1>1
<1>4. \A g \in Fds : /\ users'[g].sockfd = users[g].sockfd
                     /\ users'[g].timer_flag = 1 => g # fd /\ users[g].timer_flag = 1
  <2>1. \A u \in UserType : /\ [u EXCEPT !.timer_flag = 0, !.improv = 0].sockfd = u.sockfd
                            /\ [u EXCEPT !.timer_flag = 0, !.improv = 0].timer_flag = 0
    BY DEF UserType
  <2>2. users' = [users EXCEPT ![fd] = [users[fd] EXCEPT !.timer_flag = 0, !.improv = 0]]
    BY <1>1, <1>3
  <2>3. users'[fd].sockfd = users[fd].sockfd /\ users'[fd].timer_flag = 0
    <3>1. users \in [Fds -> UserType] BY <1>1
    <3>2. users[fd] \in UserType BY <3>1
    <3>3. users'[fd] = [users[fd] EXCEPT !.timer_flag = 0, !.improv = 0] BY <2>2, <3>1
    <3> QED BY <2>1, <3>2, <3>3
  <2>4. \A g \in Fds : g # fd => users'[g] = users[g] BY <1>1, <2>2
  <2> QED BY <2>3, <2>4
<1>5. \A g \in Fds : sock'[g] # None => sock[g] # None
  BY <1>2 DEF DealTimer, CloseAll, epoll
<1>6. OwnSocket' /\ IdleEmpty'
  BY <1>1, <1>4, <1>5, SocketsKept DEF HandInv, IdleEmpty
<1>7. \A g \in Fds : Armed(g)' => Armed(g) BY <1>2 DEF DealTimer, CloseAll, epoll, Armed
<1>8. \A g : InQueue(g)' <=> InQueue(g) BY <1>1 DEF InQueue
<1>9. \A g : Held(g)' <=> Held(g) BY <1>1 DEF Held, Holds, Told
<1>10. \A g : InBatch(g)' <=> InBatch(g) BY <1>1 DEF InBatch
<1>11. ASSUME ~missed'
       PROVE  (\A g \in Fds : OnePlace(g)') /\ QueuedOnce' /\ OneWorkerEach' /\ InTime' /\ Verdicts'
  <2>1. ~missed /\ \A w \in Workers : worker[w].fd = spinFd => worker[w].pc # "verdict"
    BY <1>2, <1>11 DEF Ground
  <2>2. \A g \in Fds : OnePlace(g)' BY <1>7, <1>8, <1>9, <1>10, <2>1 DEF HandInv, OnePlace
  <2>3. QueuedOnce' /\ OneWorkerEach'
    BY <1>1, <2>1 DEF HandInv, QueuedOnce, OneWorkerEach
  <2>4. Verdicts' BY <1>1, <1>3, <1>4, <2>1 DEF HandInv, Verdicts
  <2>5. CASE UNCHANGED <<epoll, timers>>
    BY <1>8, <1>9, <2>1, <2>2, <2>3, <2>4, <2>5 DEF HandInv, InTime, epoll, timers
  <2>6. CASE DealTimer(spinFd) /\ users[spinFd].timer_flag = 1
    <3>1. ~Held(fd) BY <1>3, <2>1, <2>6 DEF HandInv, Verdicts
    <3>2. ~InQueue(fd)
      <4>1. m_workqueue = <<>> BY <1>1 DEF Ground, SpinInv
      <4> QED BY <4>1 DEF InQueue
    <3>3. timerFd[userTimer[fd]] = fd BY <1>3 DEF Ground, TInv, TimerAlive
    <3>4. \A g \in Fds : InQueue(g)' \/ Held(g)' => g # fd /\ (InQueue(g) \/ Held(g))
      BY <1>8, <1>9, <3>1, <3>2
    <3>5. InTime' BY <1>3, <2>1, <2>6, <3>3, <3>4, InTimeClose DEF HandInv
    <3> QED BY <2>2, <2>3, <2>4, <3>5
  <2> QED BY <1>2, <2>5, <2>6
<1> QED BY <1>6, <1>11 DEF HandInv

LEMMA HandsMainStep ==
    ASSUME HandInv, Ground, Undisturbed, Main
    PROVE  HandInv'
<1>1. CASE AcceptFails \/ ServerBusy \/ DealWithSignal
  <2>1. /\ UNCHANGED <<spinFd, interest, sock, left, userTimer, users, m_workqueue, worker, missed>>
        /\ mpc # "spin" /\ mpc' # "spin" /\ batch' \subseteq batch
    BY <1>1 DEF AcceptFails, ServerBusy, DealWithSignal, Accepting, epoll, timers
  <2>2. \A g : /\ InQueue(g)' <=> InQueue(g)
               /\ Held(g)' <=> Held(g)
               /\ Armed(g)' <=> Armed(g)
               /\ InBatch(g)' => InBatch(g)
    BY <2>1 DEF InQueue, Held, Holds, Told, Armed, InBatch
  <2>3. OwnSocket' BY <2>1 DEF HandInv, OwnSocket
  <2>4. ASSUME ~missed PROVE (\A g \in Fds : OnePlace(g)') /\ QueuedOnce' /\ InTime'
    <3>1. \A g \in Fds : OnePlace(g)' BY <2>2, <2>4 DEF HandInv, OnePlace
    <3>2. QueuedOnce' BY <2>1, <2>4 DEF HandInv, QueuedOnce
    <3>3. InTime' BY <2>1, <2>2, <2>4 DEF HandInv, InTime
    <3> QED BY <3>1, <3>2, <3>3
  <2> QED BY <2>1, <2>3, <2>4, HandsMain
<1> QED BY <1>1, HandsWait, HandsAccept, HandsEvent, HandsSpinEnds, HandsEnd DEF Main

\* A worker takes a request.
LEMMA HandsTake ==
    ASSUME HandInv, Ground, NEW w \in Workers, Take(w)
    PROVE  HandInv'
<1>0. m_workqueue \in Seq(Fds) /\ worker \in [Workers -> WorkerType]
  BY DEF Ground, BaseTypes, WorkerType
<1>1. /\ m_workqueue # <<>> /\ m_workqueue' = Tail(m_workqueue)
      /\ UNCHANGED <<missed, batch, interest, sock, left, userTimer, mpc, spinFd, users>>
  BY DEF Take, epoll, timers, loop
<1>2. PICK fd \in Fds : fd = Head(m_workqueue) BY <1>0, <1>1, QueueTake
<1>3. /\ worker'[w].pc \in {"parse", "recv", "send"} /\ worker'[w].fd = fd
      /\ \A o \in Workers \ {w} : worker'[o] = worker[o]
  BY <1>0, <1>2 DEF Take, Idle
<1>4. InQueue(fd) /\ \A g : InQueue(g)' => InQueue(g)
  BY <1>0, <1>1, <1>2, QueueTake DEF InQueue
<1>5. IdleEmpty' BY <1>3 DEF HandInv, IdleEmpty
<1>6. OwnSocket' BY <1>1 DEF HandInv, OwnSocket
<1>7. \A g : Held(g)' => g = fd \/ Held(g) BY <1>3 DEF Held, Holds, Told
<1>8. ASSUME ~missed
      PROVE  (\A g \in Fds : OnePlace(g)') /\ QueuedOnce' /\ OneWorkerEach' /\ InTime' /\ Verdicts'
  <2>1. \A o \in Workers : ~Told(o) BY <1>1, <1>8, ToldWaited DEF HandInv
  <2>2. QueuedOnce' /\ ~InQueue(fd)'
    <3>1. QueuedOnce BY <1>8 DEF HandInv
    <3>2. /\ \A i, j \in DOMAIN Tail(m_workqueue) : Tail(m_workqueue)[i] = Tail(m_workqueue)[j] => i = j
          /\ \A i \in DOMAIN Tail(m_workqueue) : Tail(m_workqueue)[i] # fd
      BY <1>0, <1>1, <1>2, <3>1, QueueTake DEF QueuedOnce
    <3> QED BY <1>1, <3>2 DEF QueuedOnce, InQueue
  <2>3. ~Armed(fd) /\ ~InBatch(fd) /\ ~Held(fd) BY <1>4, <1>8 DEF HandInv, OnePlace
  <2>4. \A g : (Armed(g)' <=> Armed(g)) /\ (InBatch(g)' <=> InBatch(g))
    BY <1>1 DEF Armed, InBatch
  <2>5. ASSUME NEW g \in Fds PROVE OnePlace(g)'
    <3>1. OnePlace(g) BY <1>8 DEF HandInv
    <3> QED BY <1>4, <1>7, <2>2, <2>3, <2>4, <3>1 DEF OnePlace
  <2>6. OneWorkerEach'
    <3>1. \A o \in Workers : worker[o].fd # fd BY <2>1, <2>3 DEF Held, Holds
    <3> QED BY <1>3, <1>8, <3>1 DEF HandInv, OneWorkerEach
  <2>7. InTime' BY <1>1, <1>4, <1>7, <1>8 DEF HandInv, InTime
  <2>8. Verdicts'
    <3>1. \A g \in Fds : users[g].timer_flag # 1
      BY <1>1, <1>8 DEF HandInv, Verdicts, Ground, SpinInv
    <3>2. \A o \in Workers : worker'[o].pc # "verdict" BY <1>3, <2>1 DEF Told
    <3> QED BY <1>1, <3>1, <3>2 DEF Verdicts
  <2> QED BY <2>2, <2>5, <2>6, <2>7, <2>8
<1> QED BY <1>1, <1>5, <1>6, <1>8 DEF HandInv

\* The other steps of a worker: it keeps its request, ends with it or finishes it.
LEMMA HandsMove ==
    ASSUME HandInv, Ground, NEW w \in Workers, worker[w].pc # "idle",
           NEW fd \in Fds, fd = worker[w].fd,
           \A o \in Workers \ {w} : worker'[o] = worker[o],
           (worker'[w].fd = fd /\ worker'[w].pc # "idle") \/ worker'[w].fd = None,
           Holds(w, fd)' => ~Told(w),
           UNCHANGED <<batch, sock, left, userTimer, m_workqueue, missed>>,
           ~missed => \A g \in Fds : Armed(g)' => Armed(g) \/ (g = fd /\ ~Told(w) /\ ~Holds(w, fd)'),
           \A g \in Fds : users'[g].sockfd = users[g].sockfd,
           ~missed => Verdicts'
    PROVE  HandInv'
<1>1. IdleEmpty' BY DEF HandInv, IdleEmpty
<1>2. OwnSocket' BY SocketsKept DEF HandInv
<1>3. \A g : (InQueue(g)' <=> InQueue(g)) /\ (InBatch(g)' <=> InBatch(g))
  BY DEF InQueue, InBatch
<1>4. \A o \in Workers \ {w} : \A g : Holds(o, g)' <=> Holds(o, g) BY DEF Holds, Told
<1>5. \A g \in Fds : Holds(w, g)' => g = fd /\ Holds(w, g) BY Parameters DEF Holds
<1>6. \A g \in Fds : Held(g)' => Held(g) BY <1>4, <1>5 DEF Held
<1>7. ASSUME ~missed
      PROVE  (\A g \in Fds : OnePlace(g)') /\ QueuedOnce' /\ OneWorkerEach' /\ InTime'
  <2>1. OneWorkerEach' BY <1>7, Parameters DEF HandInv, OneWorkerEach
  <2>2. QueuedOnce' BY <1>7 DEF HandInv, QueuedOnce
  <2>3. InTime' BY <1>3, <1>6, <1>7 DEF HandInv, InTime
  <2>4. ASSUME NEW g \in Fds PROVE OnePlace(g)'
    <3>1. OnePlace(g) BY <1>7 DEF HandInv
    <3>2. CASE Armed(g)' => Armed(g) BY <1>3, <1>6, <3>1, <3>2 DEF OnePlace
    <3>3. CASE g = fd /\ ~Told(w) /\ ~Holds(w, fd)'
      <4>1. Holds(w, g) BY <3>3 DEF Holds
      <4>2. ~InQueue(g) /\ ~InBatch(g) BY <3>1, <4>1 DEF OnePlace, Held
      <4>3. \A o \in Workers \ {w} : ~Holds(o, g)
        BY <1>7, <3>3 DEF HandInv, OneWorkerEach, Holds
      <4>4. ~Held(g)' BY <1>4, <3>3, <4>3 DEF Held
      <4> QED BY <1>3, <4>2, <4>4 DEF OnePlace
    <3> QED BY <1>7, <3>2, <3>3
  <2> QED BY <2>1, <2>2, <2>3, <2>4
<1> QED BY <1>1, <1>2, <1>7 DEF HandInv
-----------------------------------------------------------------------------
\* What a worker does with the object of its request leaves m_sockfd, and the flags that
\* the main thread reads are set by Improv and Verdict only.
LEMMA FieldAssigned ==
    ASSUME NEW f \in [Fds -> UserType], NEW fd \in Fds, NEW n, NEW c
    PROVE  /\ \A g \in Fds : LET h == [f EXCEPT ![fd].improv = n] IN
                /\ h[g].sockfd = f[g].sockfd /\ h[g].timer_flag = f[g].timer_flag
                /\ g # fd => h[g] = f[g]
                /\ h[fd].improv = n
           /\ \A g \in Fds : LET h == [f EXCEPT ![fd].timer_flag = n] IN
                /\ h[g].sockfd = f[g].sockfd /\ h[g].improv = f[g].improv
                /\ g # fd => h[g] = f[g]
           /\ \A g \in Fds : LET h == [f EXCEPT ![fd].linger = n] IN
                /\ h[g].sockfd = f[g].sockfd /\ h[g].improv = f[g].improv
                /\ h[g].timer_flag = f[g].timer_flag
           /\ \A g \in Fds : LET h == [f EXCEPT ![fd].out = n, ![fd].osrc = c] IN
                /\ h[g].sockfd = f[g].sockfd /\ h[g].improv = f[g].improv
                /\ h[g].timer_flag = f[g].timer_flag
<1>1. f[fd] \in UserType OBVIOUS
<1>2. \A u \in UserType :
        /\ [u EXCEPT !.improv = n].sockfd = u.sockfd
        /\ [u EXCEPT !.improv = n].timer_flag = u.timer_flag
        /\ [u EXCEPT !.improv = n].improv = n
  BY DEF UserType
<1>3. \A u \in UserType :
        /\ [u EXCEPT !.timer_flag = n].sockfd = u.sockfd
        /\ [u EXCEPT !.timer_flag = n].improv = u.improv
  BY DEF UserType
<1>4. \A u \in UserType :
        /\ [u EXCEPT !.linger = n].sockfd = u.sockfd
        /\ [u EXCEPT !.linger = n].improv = u.improv
        /\ [u EXCEPT !.linger = n].timer_flag = u.timer_flag
  BY DEF UserType
<1>5. \A u \in UserType :
        /\ [u EXCEPT !.out = n, !.osrc = c].sockfd = u.sockfd
        /\ [u EXCEPT !.out = n, !.osrc = c].improv = u.improv
        /\ [u EXCEPT !.out = n, !.osrc = c].timer_flag = u.timer_flag
  BY DEF UserType
<1>6. [f EXCEPT ![fd].improv = n] = [f EXCEPT ![fd] = [f[fd] EXCEPT !.improv = n]] OBVIOUS
<1>7. [f EXCEPT ![fd].timer_flag = n] = [f EXCEPT ![fd] = [f[fd] EXCEPT !.timer_flag = n]]
  OBVIOUS
<1>8. [f EXCEPT ![fd].linger = n] = [f EXCEPT ![fd] = [f[fd] EXCEPT !.linger = n]] OBVIOUS
<1>9. [f EXCEPT ![fd].out = n, ![fd].osrc = c]
      = [f EXCEPT ![fd] = [f[fd] EXCEPT !.out = n, !.osrc = c]]
  OBVIOUS
<1>10. ASSUME NEW g \in Fds
       PROVE  LET h == [f EXCEPT ![fd].improv = n] IN
                /\ h[g].sockfd = f[g].sockfd /\ h[g].timer_flag = f[g].timer_flag
                /\ g # fd => h[g] = f[g]
                /\ h[fd].improv = n
  BY <1>1, <1>2, <1>6
<1>11. ASSUME NEW g \in Fds
       PROVE  LET h == [f EXCEPT ![fd].timer_flag = n] IN
                /\ h[g].sockfd = f[g].sockfd /\ h[g].improv = f[g].improv
                /\ g # fd => h[g] = f[g]
  BY <1>1, <1>3, <1>7
<1>12. ASSUME NEW g \in Fds
       PROVE  LET h == [f EXCEPT ![fd].linger = n] IN
                /\ h[g].sockfd = f[g].sockfd /\ h[g].improv = f[g].improv
                /\ h[g].timer_flag = f[g].timer_flag
  BY <1>1, <1>4, <1>8
<1>13. ASSUME NEW g \in Fds
       PROVE  LET h == [f EXCEPT ![fd].out = n, ![fd].osrc = c] IN
                /\ h[g].sockfd = f[g].sockfd /\ h[g].improv = f[g].improv
                /\ h[g].timer_flag = f[g].timer_flag
  BY <1>1, <1>5, <1>9
<1> QED BY <1>10, <1>11, <1>12, <1>13

LEMMA HandsWorker ==
    ASSUME HandInv, Ground, Undisturbed, NEW w \in Workers, Work(w)
    PROVE  HandInv'
<1>0. /\ worker \in [Workers -> WorkerType] /\ users \in [Fds -> UserType]
      /\ BaseTypes /\ MainShape /\ SpinInv
  BY DEF Ground, BaseTypes, WorkerType, TInv
<1>1. ~Closing(w) BY DEF Ground, OwnerInv
<1>2. CASE Take(w) BY <1>2, HandsTake
<1>3. ASSUME ~Take(w)
      PROVE  \/ Recv(w) \/ Transmit(w) \/ Improv(w) \/ Verdict(w) \/ Parse(w) \/ Fill(w)
             \/ Rearm(w)
  BY <1>1, <1>3 DEF Work, Closing, CloseConn, Forget, LoadCount, StoreCount
<1>4. ASSUME ~Take(w)
      PROVE  /\ worker[w].pc # "idle"
             /\ UNCHANGED <<mpc, spinFd, batch, sock, left, userTimer, m_workqueue, missed>>
  BY <1>3, <1>4, SMTT(30)
     DEF Recv, Transmit, Improv, Verdict, Parse, Fill, Rearm, epoll, timers, loop
<1>5. ASSUME ~Take(w) PROVE worker[w].fd \in Fds
  BY <1>4, <1>5 DEF Ground, WorkerHasRequest
<1> SUFFICES ASSUME ~Take(w) PROVE HandInv' BY <1>2
<1>6. PICK fd \in Fds : fd = worker[w].fd BY <1>5
<1>7. \A o \in Workers \ {w} : worker'[o] = worker[o]
  BY <1>0, <1>3 DEF Recv, Transmit, Improv, Verdict, Parse, Fill, Rearm, Goto
\* A worker that the main thread waits for: no verdict is pending.
<1>8. ASSUME ~missed, Asked(w)
      PROVE  /\ mpc = "spin" /\ spinFd = fd /\ users[fd].improv = 0
             /\ \A o \in Workers : worker[o].pc # "verdict"
             /\ \A g \in Fds : users[g].timer_flag # 1
  <2>1. mpc = "spin" /\ users[spinFd].improv = 0 BY <1>0, <1>8, SpinTypes DEF SpinInv
  <2>2. spinFd = fd BY <1>0, <1>6, <1>8, <2>1 DEF SpinInv
  <2> QED BY <1>8, <2>1, <2>2 DEF HandInv, Verdicts
<1>9. ~missed /\ ~Told(w) => users[fd].sockfd = fd
  <2>1. ~Told(w) => Held(fd) BY <1>6 DEF Held, Holds
  <2> QED BY <2>1 DEF HandInv, InTime, OwnSocket
<1>10. CASE Recv(w)
  <2>1. /\ Asked(w) /\ worker[w].pc = "recv" /\ interest' = interest
        /\ users' = [users EXCEPT ![fd] = AfterRead(fd)]
    BY <1>6, <1>10 DEF Recv, Asked, epoll
  <2>2. worker'[w].fd = fd /\ worker'[w].pc \in {"received", "failed"}
    BY <1>0, <1>6, <1>10 DEF Recv, Goto, WorkerType
  <2>3. \A g \in Fds : /\ users'[g].sockfd = users[g].sockfd
                       /\ users'[g].timer_flag = users[g].timer_flag
    BY <1>0, <2>1, ReadKeeps
  <2>4. ~missed => Verdicts' BY <1>7, <1>8, <2>1, <2>2, <2>3 DEF Verdicts
  <2>5. ~Told(w) BY <2>1 DEF Told
  <2>6. \A g \in Fds : Armed(g)' => Armed(g) BY <2>1 DEF Armed
  <2> QED BY <1>4, <1>6, <1>7, <2>2, <2>3, <2>4, <2>5, <2>6, HandsMove
<1>11. CASE Transmit(w)
  <2>1. PICK r \in Writes(fd) : /\ users' = Put(fd, r.user, r.init)
                                /\ interest' = AfterWrite(fd, r.ev)
                                /\ Goto(w, IF r.ok THEN "sent" ELSE "failed")
    BY <1>6, <1>11 DEF Transmit
  <2>2. worker[w].pc = "send" /\ Asked(w) /\ ~Told(w) BY <1>11 DEF Transmit, Asked, Told
  <2>3. worker'[w].fd = fd /\ worker'[w].pc \in {"sent", "failed"}
    BY <1>0, <1>6, <2>1 DEF Goto, WorkerType
  <2>4. users' = [users EXCEPT ![fd] = r.user] BY <1>0, <2>1, PutOwn
  <2>5. r.user.sockfd = users[fd].sockfd /\ r.user.timer_flag \in {0, users[fd].timer_flag}
    BY <1>0, WriteKeeps
  <2>6. \A g \in Fds : /\ users'[g].sockfd = users[g].sockfd
                       /\ users'[g].timer_flag = 1 => users[g].timer_flag = 1
    BY <1>0, <2>4, <2>5
  <2>7. ~missed => Verdicts' BY <1>7, <1>8, <2>2, <2>3, <2>6 DEF Verdicts
  <2>8. ~Holds(w, fd)' BY <2>3 DEF Holds, Told
  <2>9. ~missed => \A g \in Fds : Armed(g)' => Armed(g) \/ g = fd
    BY <1>9, <2>1, <2>2 DEF AfterWrite, Modfd, Armed, Ground, BaseTypes
  <2> QED BY <1>4, <1>6, <1>7, <2>2, <2>3, <2>6, <2>7, <2>8, <2>9, HandsMove
<1>12. CASE Improv(w)
  <2>1. Asked(w) /\ interest' = interest /\ users' = [users EXCEPT ![fd].improv = 1]
    BY <1>6, <1>12 DEF Improv, Asked, epoll
  <2>2. /\ worker[w].pc = "received" => worker'[w].fd = fd /\ worker'[w].pc = "parse"
        /\ worker[w].pc = "failed" => worker'[w].fd = fd /\ worker'[w].pc = "verdict"
        /\ worker[w].pc = "sent" => worker'[w] = Idle
    BY <1>0, <1>6, <1>12 DEF Improv, WorkerType
  <2>3. worker[w].pc \in {"received", "sent", "failed"} BY <1>12 DEF Improv
  <2>4. \A g \in Fds : /\ users'[g].sockfd = users[g].sockfd
                       /\ users'[g].timer_flag = users[g].timer_flag
                       /\ users'[fd].improv = 1
    BY <1>0, <2>1, FieldAssigned
  <2>5. ~missed => Verdicts'
    BY <1>4, <1>7, <1>8, <2>1, <2>2, <2>3, <2>4 DEF Verdicts, Idle
  <2>6. Holds(w, fd)' => ~Told(w)
    BY <2>2, <2>3, Parameters DEF Holds, Told, Idle
  <2>7. \A g \in Fds : Armed(g)' => Armed(g) BY <2>1 DEF Armed
  <2>8. (worker'[w].fd = fd /\ worker'[w].pc # "idle") \/ worker'[w].fd = None
    BY <2>2, <2>3 DEF Idle
  <2> QED BY <1>4, <1>6, <1>7, <2>4, <2>5, <2>6, <2>7, <2>8, HandsMove
<1>13. CASE Verdict(w)
  <2>1. /\ worker[w].pc = "verdict" /\ interest' = interest
        /\ users' = [users EXCEPT ![fd].timer_flag = 1]
        /\ worker'[w] = Idle
    BY <1>0, <1>6, <1>13 DEF Verdict, epoll
  <2>2. \A g \in Fds : /\ users'[g].sockfd = users[g].sockfd
                       /\ users'[g].improv = users[g].improv
                       /\ g # fd => users'[g] = users[g]
    BY <1>0, <2>1, FieldAssigned
  <2>3. ~Holds(w, fd)' BY <2>1, Parameters DEF Holds, Idle
  <2>4. ASSUME ~missed PROVE Verdicts'
    <3>1. mpc = "spin" /\ spinFd = fd /\ users[fd].improv = 1
      BY <1>6, <2>1, <2>4 DEF HandInv, Verdicts
    <3>2. \A o \in Workers \ {w} : worker[o].fd # fd
      BY <1>6, <2>4 DEF HandInv, OneWorkerEach
    <3>3. ~Held(fd)' BY <1>7, <2>3, <3>2 DEF Held, Holds
    <3>4. \A o \in Workers : worker'[o].pc # "verdict"
      BY <1>7, <2>1, <2>4, <3>1, <3>2 DEF Idle, HandInv, Verdicts
    <3>5. \A g \in Fds : g # fd => users'[g].timer_flag # 1
      BY <2>2, <2>4, <3>1 DEF HandInv, Verdicts
    <3> QED BY <1>4, <2>2, <3>1, <3>3, <3>4, <3>5 DEF Verdicts
  <2>5. \A g \in Fds : Armed(g)' => Armed(g) BY <2>1 DEF Armed
  <2>6. worker'[w].fd = None BY <2>1 DEF Idle
  <2> QED BY <1>4, <1>6, <1>7, <2>2, <2>3, <2>4, <2>5, <2>6, HandsMove
\* process(): nothing the main thread looks at changes.
<1>14. ASSUME Parse(w) \/ Fill(w) \/ Rearm(w) PROVE HandInv'
  <2>1. worker[w].pc \in {"parse", "fill", "rearmIn", "rearmOut"}
    BY <1>14 DEF Parse, Fill, Rearm
  <2>2. ~Told(w) BY <2>1 DEF Told
  <2>3. \/ worker'[w].fd = fd /\ worker'[w].pc \in {"rearmIn", "fill", "rearmOut"}
        \/ worker'[w].fd = None /\ worker'[w].pc = "idle"
    BY <1>0, <1>6, <1>14 DEF Parse, Fill, Rearm, Goto, WorkerType, Idle, Undisturbed, FailFree
  <2>4. \A g \in Fds : /\ users'[g].sockfd = users[g].sockfd
                       /\ users'[g].improv = users[g].improv
                       /\ users'[g].timer_flag = users[g].timer_flag
    <3>1. \/ users' = users
          \/ \E n : users' = [users EXCEPT ![fd].linger = n]
          \/ \E n, c : users' = [users EXCEPT ![fd].out = n, ![fd].osrc = c]
      BY <1>6, <1>14 DEF Parse, Fill, Rearm
    <3>2. CASE users' = users BY <3>2
    <3>3. ASSUME NEW n, users' = [users EXCEPT ![fd].linger = n]
          PROVE  \A g \in Fds : /\ users'[g].sockfd = users[g].sockfd
                                /\ users'[g].improv = users[g].improv
                                /\ users'[g].timer_flag = users[g].timer_flag
      BY <1>0, <3>3, FieldAssigned
    <3>4. ASSUME NEW n, NEW c, users' = [users EXCEPT ![fd].out = n, ![fd].osrc = c]
          PROVE  \A g \in Fds : /\ users'[g].sockfd = users[g].sockfd
                                /\ users'[g].improv = users[g].improv
                                /\ users'[g].timer_flag = users[g].timer_flag
      BY <1>0, <3>4, FieldAssigned
    <3> QED BY <3>1, <3>2, <3>3, <3>4
  <2>5. \A g \in Fds : Held(g)' => Held(g)
    <3>1. \A g \in Fds : Holds(w, g)' => Holds(w, g)
      BY <1>6, <2>2, <2>3, Parameters DEF Holds
    <3>2. \A o \in Workers \ {w} : \A g : Holds(o, g)' => Holds(o, g) BY <1>7 DEF Holds, Told
    <3> QED BY <3>1, <3>2 DEF Held
  <2>6. ASSUME ~missed PROVE Verdicts'
    <3>1. \A o \in Workers : worker'[o].pc = "verdict" => o # w /\ worker'[o] = worker[o]
      BY <1>7, <2>3
    <3>2. mpc = "spin" => spinFd \in Fds BY <1>0, SpinTypes
    <3> QED BY <1>4, <2>4, <2>5, <2>6, <3>1, <3>2 DEF HandInv, Verdicts
  <2>7. ~missed => \A g \in Fds : Armed(g)' => Armed(g) \/ (g = fd /\ ~Holds(w, fd)')
    <3>1. CASE Rearm(w)
      <4>1. ~Holds(w, fd)' BY <1>0, <3>1, Parameters DEF Rearm, Holds, Idle
      <4>2. PICK ev \in {"in", "out"} : interest' = Modfd(interest, users[fd].sockfd, ev)
        BY <1>6, <3>1 DEF Rearm
      <4> QED BY <1>9, <2>2, <4>1, <4>2 DEF Modfd, Armed, Ground, BaseTypes
    <3>2. CASE Parse(w) \/ Fill(w) BY <3>2 DEF Parse, Fill, epoll, Armed
    <3> QED BY <1>14, <3>1, <3>2
  <2> QED BY <1>4, <1>6, <1>7, <2>2, <2>3, <2>4, <2>6, <2>7, HandsMove
<1> QED BY <1>3, <1>10, <1>11, <1>12, <1>13, <1>14
-----------------------------------------------------------------------------
LEMMA HandStep ==
    ASSUME Undisturbed
    PROVE  HandInv /\ Ground /\ [Next]_vars => HandInv'
<1> SUFFICES ASSUME HandInv, Ground, [Next]_vars PROVE HandInv' OBVIOUS
<1>1. CASE Client \/ SigAlrm \/ SigTerm \/ UNCHANGED vars
  <2>1. UNCHANGED <<hvars, batch>>
    BY <1>1 DEF Client, Connect, Send, Shut, Drain, SigAlrm, SigTerm, vars, hvars, epoll,
                timers, loop
  <2>2. \A fd \in Fds : InBatch(fd)' => InBatch(fd) BY <2>1 DEF InBatch
  <2> QED BY <2>1, <2>2, HandsUntouched
<1>2. CASE Clock BY <1>2, HandsClock DEF Undisturbed
<1>3. CASE Main BY <1>3, HandsMainStep
<1>4. ASSUME NEW w \in Workers, Work(w) PROVE HandInv' BY <1>4, HandsWorker
<1> QED BY <1>1, <1>2, <1>3, <1>4 DEF Next

LEMMA HandsAlways ==
    ASSUME Undisturbed
    PROVE  Spec => [](HandInv /\ Ground)
<1>1. Init => HandInv
  <2> SUFFICES ASSUME Init PROVE HandInv OBVIOUS
  <2>1. \A fd \in Fds : ~InQueue(fd) /\ ~InBatch(fd) /\ ~Armed(fd) /\ ~Held(fd)
    BY Parameters DEF Init, InQueue, InBatch, Armed, Held, Holds, Idle
  <2>2. IdleEmpty /\ OwnSocket BY DEF Init, IdleEmpty, OwnSocket, Idle
  <2>3. (\A fd \in Fds : OnePlace(fd)) /\ InTime BY <2>1 DEF OnePlace, InTime
  <2>4. QueuedOnce /\ OneWorkerEach
    BY Parameters DEF Init, QueuedOnce, OneWorkerEach, Idle
  <2>5. Verdicts BY DEF Init, Verdicts, Idle, NewUser
  <2> QED BY <2>2, <2>3, <2>4, <2>5 DEF HandInv
<1>2. FailFree BY DEF Undisturbed
<1>3. HandInv /\ Ground /\ [Next]_vars => HandInv' BY HandStep
<1>4. TypeOK => BaseTypes /\ missed \in BOOLEAN BY DEF TypeOK, BaseTypes
<1>5. OwnerInv => LiveFinite BY DEF OwnerInv
<1>6. TInv /\ TypeOK /\ WorkerHasRequest /\ SpinInv /\ OwnerInv => Ground
  BY <1>4, <1>5 DEF Ground
<1>7. Spec => []Ground
  BY <1>2, <1>6, TInvariance, TypesAndRequests, SpinAlways, OwnerAlways, PTL
<1> QED BY <1>1, <1>3, <1>7, PTL DEF Spec

LEMMA AtMostOne ==
    ASSUME NEW S, \A x, y \in S : x = y
    PROVE  Cardinality(S) = IF S = {} THEN 0 ELSE 1
<1>1. CASE S = {} BY <1>1, FS_EmptySet
<1>2. CASE S # {}
  <2>1. PICK x : S = {x} BY <1>2
  <2> QED BY <2>1, <1>2, FS_Singleton
<1> QED BY <1>1, <1>2

\* A connection belongs to one thread at a time: in both actor models and both trigger
\* modes, for any number of connections, descriptors and workers.
THEOREM OneOwner ==
    ASSUME Undisturbed
    PROVE  Spec => []ExclusiveHandling
<1>1. HandInv /\ Ground => ExclusiveHandling
  <2> SUFFICES ASSUME HandInv, Ground, ~missed, NEW fd \in Fds
               PROVE  Tokens(fd) <= 1
    BY DEF ExclusiveHandling
  <2> DEFINE B == {e \in batch : e.fd = fd}
             Q == {i \in DOMAIN m_workqueue : m_workqueue[i] = fd}
             H == {w \in Workers : /\ worker[w].fd = fd
                                   /\ worker[w].pc \notin {"sent", "failed", "verdict"}}
  <2>1. Cardinality(B) = IF B = {} THEN 0 ELSE 1
    <3>1. \A e, f \in B : e = f BY DEF Ground, TInv, OneEventEach
    <3> HIDE DEF B
    <3> QED BY <3>1, AtMostOne
  <2>2. Cardinality(Q) = IF Q = {} THEN 0 ELSE 1
    <3>1. \A i, j \in Q : i = j BY DEF HandInv, QueuedOnce
    <3> HIDE DEF Q
    <3> QED BY <3>1, AtMostOne
  <2>3. Cardinality(H) = IF H = {} THEN 0 ELSE 1
    <3>1. \A v, w \in H : v = w BY DEF HandInv, OneWorkerEach
    <3> HIDE DEF H
    <3> QED BY <3>1, AtMostOne
  <2>4. B # {} <=> InBatch(fd) BY DEF InBatch
  <2>5. Q # {} <=> InQueue(fd) BY DEF InQueue
  <2>6. H # {} <=> Held(fd) BY DEF Held, Holds, Told
  <2>7. Tokens(fd) = (IF Armed(fd) THEN 1 ELSE 0) + Cardinality(B) + Cardinality(Q) + Cardinality(H)
    BY DEF Tokens, Armed
  <2>8. OnePlace(fd) BY DEF HandInv
  <2> HIDE DEF B, Q, H
  <2> QED BY <2>1, <2>2, <2>3, <2>4, <2>5, <2>6, <2>7, <2>8 DEF OnePlace
<1> QED BY <1>1, HandsAlways, PTL

\* A step of the main thread that closes a connection: the event at hand is for it, or the
\* verdict, or its timer has run out.
LEMMA ClosedByMain ==
    ASSUME Ground, Main, NEW fd \in Fds, sock[fd] # None, sock'[fd] = None
    PROVE  \/ InBatch(fd)
           \/ mpc = "spin" /\ spinFd = fd /\ users[fd].timer_flag = 1
           \/ \E c \in TS!Expired : fd = timerFd[c]
<1>1. \A g \in Fds : DealTimer(g) => g = fd BY DEF DealTimer, CloseAll
<1>2. sock' # sock OBVIOUS
<1>3. ~(EpollWait \/ AcceptFails \/ ServerBusy \/ DealWithSignal)
  BY <1>2 DEF EpollWait, AcceptFails, ServerBusy, DealWithSignal, epoll
<1>4. ASSUME NEW c \in Conns, NEW g \in Fds PROVE ~Accept(c, g)
  BY Parameters DEF Accept, Ground, TInv, TimerTypes
<1>5. ASSUME NEW g \in Fds,
             \/ HangUp(g) \/ ReadProactor(g) \/ WriteProactor(g)
             \/ HandOver(g, "in", 0) \/ HandOver(g, "out", 1)
      PROVE  InBatch(fd)
  <2>1. \E kind : Event(kind, g) \in batch
    BY <1>5 DEF HangUp, ReadProactor, WriteProactor, HandOver
  <2>2. InBatch(g) BY <2>1 DEF InBatch, Event
  <2>3. sock' = sock \/ DealTimer(g)
    BY <1>5 DEF HangUp, ReadProactor, WriteProactor, HandOver, epoll
  <2> QED BY <1>1, <1>2, <2>2, <2>3
<1>6. ASSUME SpinEnds PROVE mpc = "spin" /\ spinFd = fd /\ users[fd].timer_flag = 1
  <2>1. spinFd \in Fds BY <1>6 DEF SpinEnds, Ground, TInv, BaseTypes, MainShape
  <2>2. DealTimer(spinFd) /\ users[spinFd].timer_flag = 1
    BY <1>2, <1>6 DEF SpinEnds, epoll
  <2>3. spinFd = fd BY <1>1, <2>1, <2>2
  <2> QED BY <1>6, <2>2, <2>3 DEF SpinEnds
<1>7. ASSUME EndBatch PROVE \E c \in TS!Expired : fd = timerFd[c]
  BY <1>2, <1>7 DEF EndBatch, TimerHandler, CloseAll, epoll
<1> QED BY <1>3, <1>4, <1>5, <1>6, <1>7 DEF Main

LEMMA NotClosedInHand ==
    ASSUME HandInv, Ground, ~missed, Main, NEW fd \in Fds, sock[fd] # None, sock'[fd] = None
    PROVE  ~Held(fd)
<1>1. InBatch(fd) => ~Held(fd) BY DEF HandInv, OnePlace
<1>2. users[fd].timer_flag = 1 => ~Held(fd) BY DEF HandInv, Verdicts
<1>3. (\E c \in TS!Expired : fd = timerFd[c]) => ~Held(fd) BY ExpiredIdle DEF HandInv
<1> QED BY <1>1, <1>2, <1>3, ClosedByMain

\* The main thread closes a connection only for its own timer or its own answer: tick()
\* takes only those whose time is over, and nothing is closed under a worker.
THEOREM NothingClosedInUse ==
    ASSUME Undisturbed
    PROVE  Spec => ClosedForCause
<1>1. HandInv /\ Ground /\ [Next]_vars => [OnlyIdleTimedOut /\ NeverClosedInHand]_vars
  <2> SUFFICES ASSUME HandInv, Ground PROVE OnlyIdleTimedOut /\ NeverClosedInHand OBVIOUS
  <2>1. OnlyIdleTimedOut
    <3> SUFFICES ASSUME EndBatch, NEW fd \in Fds, sock[fd] # None, sock'[fd] = None
                 PROVE  left[sock[fd]] = 0
      BY DEF OnlyIdleTimedOut
    <3>1. PICK c \in TS!Expired : fd = timerFd[c]
      BY DEF EndBatch, TimerHandler, CloseAll, epoll
    <3> QED BY <3>1 DEF TS!Expired, Ground, OwnerInv, TimerOwns
  <2>2. NeverClosedInHand
    BY NotClosedInHand DEF NeverClosedInHand, InHand, Held, Holds, Told
  <2> QED BY <2>1, <2>2
<1> QED BY <1>1, HandsAlways, PTL DEF Spec, ClosedForCause
-----------------------------------------------------------------------------
(* Whose bytes an object holds.  What m_read_buf and m_write_buf of users[fd] hold is of the *)
(* connection now at fd, and a worker that has read a request answers while that connection  *)
(* is still there: the descriptor is not closed, nor given to the next client, in between.   *)

SourceInv ==
    ~missed =>
        /\ \A fd \in Fds : sock[fd] # None =>
               /\ users[fd].got # 0 => users[fd].src = sock[fd]
               /\ users[fd].out # 0 => users[fd].osrc = sock[fd]
        /\ \A w \in Workers : worker[w].pc = "fill" => worker[w].src = sock[worker[w].fd]
        /\ \A a \in answered : a[1] = a[2]

\* One object after read_once(), write() or an assignment: still of the connection at fd.
OwnBytes(u, c) == /\ u.got # 0 => u.src = c
                  /\ u.out # 0 => u.osrc = c

\* The object of one descriptor changes, and sockets are closed.
LEMMA SourceKept ==
    ASSUME SourceInv, HandInv, Ground, UNCHANGED <<worker, missed>>,
           NEW fd \in Fds, NEW u, users' = [users EXCEPT ![fd] = u],
           ~missed /\ sock[fd] # None /\ OwnBytes(users[fd], sock[fd])
               => OwnBytes(u, sock[fd]),
           \A g \in Fds : sock'[g] # None => sock'[g] = sock[g],
           ~missed => \A g \in Fds : Held(g) => sock'[g] = sock[g],
           ~missed => \A a \in answered' : a[1] = a[2]
    PROVE  SourceInv'
<1> SUFFICES ASSUME ~missed PROVE SourceInv' BY DEF SourceInv
<1>1. ASSUME NEW g \in Fds, sock'[g] # None PROVE OwnBytes(users'[g], sock'[g])
  <2>1. OwnBytes(users[g], sock[g]) /\ sock'[g] = sock[g]
    BY <1>1 DEF SourceInv, OwnBytes
  <2> QED BY <1>1, <2>1 DEF Ground, BaseTypes
<1>2. ASSUME NEW w \in Workers, worker[w].pc = "fill"
      PROVE  worker[w].src = sock'[worker[w].fd]
  <2>1. worker[w].fd \in Fds BY <1>2 DEF Ground, WorkerHasRequest
  <2>2. Held(worker[w].fd) BY <1>2 DEF Held, Holds, Told
  <2> QED BY <1>2, <2>1, <2>2 DEF SourceInv
<1> QED BY <1>1, <1>2 DEF SourceInv, OwnBytes

LEMMA ReadSource ==
    ASSUME HandInv, Ground, NEW fd \in Fds, sock[fd] # None, OwnBytes(users[fd], sock[fd])
    PROVE  OwnBytes(AfterRead(fd), sock[fd])
<1>1. Peer(fd) = sock[fd] BY DEF Peer, HandInv, OwnSocket
<1>2. BaseTypes /\ users[fd] \in UserType /\ users[fd].got \in Nat /\ Readable(fd) \in Int
  <2>1. users[fd] \in UserType BY DEF Ground, BaseTypes
  <2>2. users[fd].got \in 0..BufSize /\ BufSize \in Nat BY <2>1, Parameters DEF UserType
  <2>3. inbox \in [Conns -> Nat] /\ sock[fd] \in Conns
    BY DEF Ground, BaseTypes
  <2>4. Readable(fd) \in Int BY <1>1, <2>2, <2>3 DEF Readable, Least
  <2> QED BY <2>1, <2>2, <2>4 DEF Ground
<1>3. Readable(fd) >= 0
  <2>1. users[fd].got \in 0..BufSize /\ BufSize \in Nat BY <1>2, Parameters DEF UserType
  <2>2. inbox[sock[fd]] \in Nat BY DEF Ground, BaseTypes
  <2> QED BY <1>1, <2>1, <2>2 DEF Readable, Least
<1>4. AfterRead(fd).got # 0 => users[fd].got # 0 \/ Readable(fd) > 0
  BY <1>2, <1>3, ReadKeeps
<1> QED BY <1>1, <1>2, <1>4, ReadKeeps DEF OwnBytes

LEMMA WriteSource ==
    ASSUME HandInv, Ground, NEW fd \in Fds, sock[fd] # None, OwnBytes(users[fd], sock[fd]),
           NEW r \in Writes(fd)
    PROVE  /\ OwnBytes(r.user, sock[fd])
           /\ Sent(fd, r.sent) => \A a \in answered' : a \in answered \/ a[1] = a[2]
<1>1. Peer(fd) = sock[fd] BY DEF Peer, HandInv, OwnSocket
<1>2. BaseTypes BY DEF Ground
<1>3. OwnBytes(r.user, sock[fd]) BY <1>2, WriteKeeps DEF OwnBytes
<1>4. r.sent # 0 => users[fd].osrc = Peer(fd) BY <1>1, <1>2, WriteKeeps DEF OwnBytes
<1> QED BY <1>3, <1>4 DEF Sent

LEMMA SourceMain ==
    ASSUME SourceInv, HandInv, Ground, Undisturbed, Main
    PROVE  SourceInv'
<1>0. BaseTypes /\ users \in [Fds -> UserType] /\ missed \in BOOLEAN
  BY DEF Ground, BaseTypes
<1>1. \A fd \in Fds : users[fd] = users[fd] /\ users = [users EXCEPT ![fd] = users[fd]]
  BY <1>0
\* Which sockets a step closes: none of one in hand.
<1>2. \A g \in Fds : ~missed /\ Held(g) /\ sock'[g] = None => sock[g] = None
  BY NotClosedInHand
<1>3. ~missed => \A g \in Fds : Held(g) => sock[g] # None BY DEF HandInv, InTime
<1>4. ~missed => \A a \in answered : a[1] = a[2] BY DEF SourceInv
<1>5. ASSUME UNCHANGED <<worker, users, answered>>, missed' = missed \/ missed' = TRUE,
             \A g \in Fds : sock'[g] # None => sock'[g] = sock[g]
      PROVE  SourceInv'
  <2>1. CASE missed' = TRUE BY <2>1 DEF SourceInv
  <2>2. CASE missed' = missed
    <3>1. \A w \in Workers : worker[w].pc = "fill" =>
             worker[w].fd \in Fds /\ Held(worker[w].fd)
      BY DEF Ground, WorkerHasRequest, Held, Holds, Told
    <3> QED BY <1>2, <1>3, <1>5, <2>2, <3>1 DEF SourceInv
  <2> QED BY <1>5, <2>1, <2>2
<1>6. CASE EpollWait \/ AcceptFails \/ ServerBusy \/ DealWithSignal
  BY <1>5, <1>6 DEF EpollWait, AcceptFails, ServerBusy, DealWithSignal, epoll
<1>7. CASE EndBatch
  <2>1. \A g \in Fds : sock'[g] # None => sock'[g] = sock[g]
    BY <1>7 DEF EndBatch, TimerHandler, CloseAll, epoll
  <2> QED BY <1>5, <1>7, <2>1 DEF EndBatch
<1>8. \A fd \in Fds : DealTimer(fd) => \A g \in Fds : sock'[g] # None => sock'[g] = sock[g]
  BY DEF DealTimer, CloseAll
<1>9. ASSUME NEW fd \in Fds, HangUp(fd) PROVE SourceInv'
  BY <1>5, <1>8, <1>9 DEF HangUp
\* An event's descriptor is open.
<1>10. \A fd \in Fds : \A kind : Event(kind, fd) \in batch => sock[fd] # None
  <2>1. \A fd \in Fds : \A kind : Event(kind, fd) \in batch => \E e \in batch : e.fd = fd
    BY DEF Event
  <2> QED BY <2>1, SocketOfTimer DEF Ground, OwnerInv
<1>11. \A fd \in Fds : ~missed /\ sock[fd] # None => OwnBytes(users[fd], sock[fd])
  BY DEF SourceInv, OwnBytes
<1>12. ASSUME NEW fd \in Fds, ReadProactor(fd) PROVE SourceInv'
  <2>1. users' = [users EXCEPT ![fd] = AfterRead(fd)] /\ UNCHANGED <<worker, missed, answered>>
    BY <1>12 DEF ReadProactor
  <2>2. \A g \in Fds : sock'[g] # None => sock'[g] = sock[g]
    BY <1>8, <1>12 DEF ReadProactor, epoll
  <2>3. ~missed => \A g \in Fds : Held(g) => sock'[g] = sock[g] BY <1>2, <1>3, <2>2
  <2>4. sock[fd] # None /\ OwnBytes(users[fd], sock[fd]) => OwnBytes(AfterRead(fd), sock[fd])
    BY ReadSource
  <2> QED BY <1>4, <2>1, <2>2, <2>3, <2>4, SourceKept
<1>13. ASSUME NEW fd \in Fds, WriteProactor(fd) PROVE SourceInv'
  <2>1. PICK r \in Writes(fd) : /\ users' = Put(fd, r.user, r.init)
                                /\ Sent(fd, r.sent)
                                /\ sock' = sock \/ DealTimer(fd)
    BY <1>13 DEF WriteProactor
  <2>2. users' = [users EXCEPT ![fd] = r.user] BY <1>0, <2>1, PutOwn
  <2>3. UNCHANGED <<worker, missed>> /\ sock[fd] # None BY <1>10, <1>13 DEF WriteProactor
  <2>4. \A g \in Fds : sock'[g] # None => sock'[g] = sock[g] BY <1>8, <2>1
  <2>5. ~missed => \A g \in Fds : Held(g) => sock'[g] = sock[g] BY <1>2, <1>3, <2>4
  <2>6. OwnBytes(users[fd], sock[fd]) => OwnBytes(r.user, sock[fd]) BY <2>3, WriteSource
  <2>7. ~missed => \A a \in answered' : a[1] = a[2]
    BY <1>4, <1>11, <2>1, <2>3, WriteSource
  <2> QED BY <2>2, <2>3, <2>4, <2>5, <2>6, <2>7, SourceKept
<1>14. ASSUME NEW fd \in Fds, NEW kind, NEW state, HandOver(fd, kind, state) PROVE SourceInv'
  <2>1. UNCHANGED <<worker, missed, answered, sock>> BY <1>14 DEF HandOver, epoll
  <2>2. CASE users' = users BY <1>5, <2>1, <2>2
  <2>3. CASE users' = [users EXCEPT ![fd] = [users[fd] EXCEPT !.state = state]]
    <3>1. users[fd] \in UserType BY <1>0
    <3>2. OwnBytes(users[fd], sock[fd]) => OwnBytes([users[fd] EXCEPT !.state = state], sock[fd])
      BY <3>1 DEF OwnBytes, UserType
    <3> QED BY <1>4, <2>1, <2>3, <3>2, SourceKept
  <2> QED BY <1>0, <1>14, <2>2, <2>3 DEF HandOver
<1>15. CASE SpinEnds
  <2>1. /\ spinFd \in Fds /\ UNCHANGED <<worker, answered>>
        /\ missed' = missed \/ missed' = TRUE
        /\ users' = [users EXCEPT ![spinFd].timer_flag = 0, ![spinFd].improv = 0]
        /\ sock' = sock \/ DealTimer(spinFd)
    BY <1>0, <1>15 DEF SpinEnds, Ground, TInv, BaseTypes, MainShape, epoll
  <2>2. PICK fd \in Fds : fd = spinFd BY <2>1
  <2>3. users' = [users EXCEPT ![fd] = [users[fd] EXCEPT !.timer_flag = 0, !.improv = 0]]
    BY <1>0, <2>1, <2>2
  <2>4. CASE missed' = TRUE BY <2>4 DEF SourceInv
  <2>5. CASE missed' = missed
    <3>1. \A g \in Fds : sock'[g] # None => sock'[g] = sock[g] BY <1>8, <2>1, <2>2
    <3>2. ~missed => \A g \in Fds : Held(g) => sock'[g] = sock[g] BY <1>2, <1>3, <3>1
    <3>3. users[fd] \in UserType BY <1>0
    <3>4. OwnBytes(users[fd], sock[fd])
             => OwnBytes([users[fd] EXCEPT !.timer_flag = 0, !.improv = 0], sock[fd])
      BY <3>3 DEF OwnBytes, UserType
    <3> QED BY <1>4, <2>1, <2>3, <2>5, <3>1, <3>2, <3>4, SourceKept
  <2> QED BY <2>1, <2>4, <2>5
<1>16. ASSUME NEW c \in Conns, NEW fd \in Fds, Accept(c, fd) PROVE SourceInv'
  <2>1. /\ sock[fd] = None /\ sock' = [sock EXCEPT ![fd] = c]
        /\ UNCHANGED <<worker, missed, answered>>
    BY <1>16 DEF Accept, FreeFds
  <2>2. users' = [users EXCEPT ![fd] = [NewUser EXCEPT !.sockfd = fd]]
    <3>1. users' = Put(fd, [NewUser EXCEPT !.sockfd = fd], TRUE) BY <1>16 DEF Accept
    <3>2. \A init : Put(fd, [NewUser EXCEPT !.sockfd = fd], init)
                    = [users EXCEPT ![fd] = [NewUser EXCEPT !.sockfd = fd]]
      BY <1>0, PutOwn
    <3> QED BY <3>1, <3>2
  <2>3. [NewUser EXCEPT !.sockfd = fd].got = 0 /\ [NewUser EXCEPT !.sockfd = fd].out = 0
    BY DEF NewUser
  <2>4. sock \in [Fds -> Conns \cup {None}] BY DEF Ground, BaseTypes
  <2>5. ASSUME ~missed, NEW w \in Workers, worker[w].pc = "fill"
        PROVE  worker[w].src = sock'[worker[w].fd]
    <3>1. worker[w].fd \in Fds /\ Held(worker[w].fd)
      BY <2>5 DEF Ground, WorkerHasRequest, Held, Holds, Told
    <3>2. worker[w].fd # fd BY <1>3, <2>1, <2>5, <3>1
    <3> QED BY <2>1, <2>4, <2>5, <3>1, <3>2 DEF SourceInv
  <2>6. ASSUME ~missed, NEW g \in Fds, sock'[g] # None
        PROVE  /\ users'[g].got # 0 => users'[g].src = sock'[g]
               /\ users'[g].out # 0 => users'[g].osrc = sock'[g]
    <3>1. CASE g = fd
      <4>1. users'[g] = [NewUser EXCEPT !.sockfd = fd] BY <1>0, <2>2, <3>1
      <4> QED BY <2>3, <4>1
    <3>2. CASE g # fd
      <4>1. users'[g] = users[g] /\ sock'[g] = sock[g] BY <1>0, <2>1, <2>2, <2>4, <3>2
      <4> QED BY <2>6, <4>1 DEF SourceInv
    <3> QED BY <3>1, <3>2
  <2> QED BY <1>4, <2>1, <2>5, <2>6 DEF SourceInv
<1>17. ASSUME NEW fd \in Fds,
              \/ HangUp(fd) \/ ReadProactor(fd) \/ WriteProactor(fd)
              \/ HandOver(fd, "in", 0) \/ HandOver(fd, "out", 1)
       PROVE  SourceInv'
  BY <1>9, <1>12, <1>13, <1>14, <1>17
<1> QED BY <1>6, <1>7, <1>15, <1>16, <1>17 DEF Main
-----------------------------------------------------------------------------
\* A worker changes its object, or nothing.
LEMMA SourceMove ==
    ASSUME SourceInv, Ground, NEW w \in Workers, UNCHANGED <<sock, missed>>,
           \A o \in Workers \ {w} : worker'[o] = worker[o],
           NEW fd \in Fds, NEW u, users' = [users EXCEPT ![fd] = u],
           ~missed /\ sock[fd] # None /\ OwnBytes(users[fd], sock[fd])
               => OwnBytes(u, sock[fd]),
           ~missed /\ worker'[w].pc = "fill" => worker'[w].src = sock[worker'[w].fd],
           ~missed => \A a \in answered' : a[1] = a[2]
    PROVE  SourceInv'
<1> SUFFICES ASSUME ~missed PROVE SourceInv' BY DEF SourceInv
<1>1. ASSUME NEW g \in Fds, sock[g] # None PROVE OwnBytes(users'[g], sock[g])
  <2>1. OwnBytes(users[g], sock[g]) BY <1>1 DEF SourceInv, OwnBytes
  <2> QED BY <1>1, <2>1 DEF Ground, BaseTypes
<1>2. \A o \in Workers : worker'[o].pc = "fill" => worker'[o].src = sock[worker'[o].fd]
  BY DEF SourceInv
<1> QED BY <1>1, <1>2 DEF SourceInv, OwnBytes

LEMMA SourceWorker ==
    ASSUME SourceInv, HandInv, Ground, Undisturbed, NEW w \in Workers, Work(w)
    PROVE  SourceInv'
<1>0. /\ BaseTypes /\ users \in [Fds -> UserType] /\ worker \in [Workers -> WorkerType]
      /\ ~Closing(w)
  BY DEF Ground, BaseTypes, WorkerType, OwnerInv
<1>1. \/ Take(w) \/ Recv(w) \/ Transmit(w) \/ Improv(w) \/ Verdict(w) \/ Parse(w) \/ Fill(w)
      \/ Rearm(w)
  BY <1>0 DEF Work, Closing, CloseConn, Forget, LoadCount, StoreCount
<1>2. /\ UNCHANGED <<sock, missed>>
      /\ \A o \in Workers \ {w} : worker'[o] = worker[o]
  BY <1>0, <1>1 DEF Take, Recv, Transmit, Improv, Verdict, Parse, Fill, Rearm, Goto, epoll
<1>3. ~missed => \A a \in answered : a[1] = a[2] BY DEF SourceInv
<1>4. CASE Take(w)
  <2>1. worker'[w].pc # "fill" /\ UNCHANGED <<users, answered>> BY <1>0, <1>4 DEF Take, Idle
  <2> QED BY <1>2, <2>1 DEF SourceInv
<1> SUFFICES ASSUME ~Take(w) PROVE SourceInv' BY <1>4, SMTT(30)
<1>5. worker[w].pc # "idle"
  BY <1>1 DEF Recv, Transmit, Improv, Verdict, Parse, Fill, Rearm
<1>6. PICK fd \in Fds : fd = worker[w].fd BY <1>5 DEF Ground, WorkerHasRequest
<1>7. ~missed /\ ~Told(w) => sock[fd] # None /\ OwnBytes(users[fd], sock[fd])
  <2>1. ~Told(w) => Held(fd) BY <1>6 DEF Held, Holds
  <2> QED BY <2>1 DEF HandInv, InTime, SourceInv, OwnBytes
<1>8. PICK v \in UserType : v = users[fd] BY <1>0
<1>9. CASE Recv(w)
  <2>1. users' = [users EXCEPT ![fd] = AfterRead(fd)] /\ answered' = answered
    BY <1>6, <1>9 DEF Recv
  <2>2. worker'[w].pc # "fill" BY <1>0, <1>9 DEF Recv, Goto, WorkerType
  <2>3. sock[fd] # None /\ OwnBytes(users[fd], sock[fd]) => OwnBytes(AfterRead(fd), sock[fd])
    BY ReadSource
  <2> QED BY <1>2, <1>3, <2>1, <2>2, <2>3, SourceMove
<1>10. CASE Transmit(w)
  <2>1. PICK r \in Writes(fd) : /\ users' = Put(fd, r.user, r.init)
                                /\ Sent(fd, r.sent)
                                /\ Goto(w, IF r.ok THEN "sent" ELSE "failed")
    BY <1>6, <1>10 DEF Transmit
  <2>2. users' = [users EXCEPT ![fd] = r.user] BY <1>0, <2>1, PutOwn
  <2>3. worker'[w].pc # "fill" BY <1>0, <2>1 DEF Goto, WorkerType
  <2>4. ~missed => sock[fd] # None /\ OwnBytes(users[fd], sock[fd])
    BY <1>7, <1>10 DEF Transmit, Told
  <2>5. sock[fd] # None /\ OwnBytes(users[fd], sock[fd]) => OwnBytes(r.user, sock[fd])
    BY WriteSource
  <2>6. ~missed => \A a \in answered' : a[1] = a[2] BY <1>3, <2>1, <2>4, WriteSource
  <2> QED BY <1>2, <2>2, <2>3, <2>5, <2>6, SourceMove
<1>11. CASE Parse(w) /\ worker'[w].pc = "fill"
  <2>1. PICK keep : users' = [users EXCEPT ![fd].linger = keep]
    BY <1>0, <1>6, <1>11 DEF Parse, Goto, WorkerType
  <2>2. /\ answered' = answered /\ users[fd].got > 0
        /\ worker'[w].src = users[fd].src /\ worker'[w].fd = fd
    BY <1>0, <1>6, <1>11 DEF Parse, Goto, WorkerType
  <2>3. users' = [users EXCEPT ![fd] = [v EXCEPT !.linger = keep]] BY <1>0, <1>8, <2>1
  <2>4. OwnBytes(users[fd], sock[fd]) => OwnBytes([v EXCEPT !.linger = keep], sock[fd])
    BY <1>8 DEF OwnBytes, UserType
  <2>5. ~missed => users[fd].src = sock[fd]
    BY <1>7, <1>11, <2>2 DEF Parse, Told, OwnBytes
  <2> QED BY <1>2, <1>3, <2>2, <2>3, <2>4, <2>5, SourceMove
<1>12. CASE Fill(w)
  <2>1. PICK n : users' = [users EXCEPT ![fd].out = n, ![fd].osrc = worker[w].src]
    BY <1>6, <1>12 DEF Fill
  <2>2. PICK s : s = worker[w].src OBVIOUS
  <2>3. users' = [users EXCEPT ![fd] = [v EXCEPT !.out = n, !.osrc = s]]
    BY <1>0, <1>8, <2>1, <2>2
  <2>4. worker'[w].pc # "fill" /\ answered' = answered
    BY <1>0, <1>12 DEF Fill, Goto, WorkerType
  <2>5. ~missed => s = sock[fd] BY <1>6, <1>12, <2>2 DEF Fill, SourceInv
  <2>6. ~missed /\ OwnBytes(users[fd], sock[fd])
        => OwnBytes([v EXCEPT !.out = n, !.osrc = s], sock[fd])
    BY <1>8, <2>5 DEF OwnBytes, UserType
  <2> QED BY <1>2, <1>3, <2>3, <2>4, <2>6, SourceMove
<1>13. CASE Improv(w) \/ Verdict(w) \/ Rearm(w) \/ (Parse(w) /\ worker'[w].pc # "fill")
  <2>1. worker'[w].pc # "fill" /\ answered' = answered
    BY <1>0, <1>13 DEF Improv, Verdict, Rearm, Parse, Idle, WorkerType
  <2>2. \/ users' = users
        \/ users' = [users EXCEPT ![fd].improv = 1]
        \/ users' = [users EXCEPT ![fd].timer_flag = 1]
    BY <1>0, <1>6, <1>13 DEF Improv, Verdict, Rearm, Parse, WorkerType
  <2>3. PICK u \in {v, [v EXCEPT !.improv = 1], [v EXCEPT !.timer_flag = 1]} :
           users' = [users EXCEPT ![fd] = u]
    BY <1>0, <1>8, <2>2
  <2>4. OwnBytes(v, sock[fd]) => OwnBytes(u, sock[fd])
    BY <2>3 DEF OwnBytes, UserType
  <2> QED BY <1>2, <1>3, <1>8, <2>1, <2>3, <2>4, SourceMove
<1> QED BY <1>1, <1>9, <1>10, <1>11, <1>12, <1>13

\* An answer goes to the client whose request it answers, whichever thread reads, answers
\* and sends, and although accept() hands out closed descriptors again.
THEOREM AnswersReachTheirClient ==
    ASSUME Undisturbed
    PROVE  Spec => []NoCrossTalk
<1>1. Init => SourceInv BY DEF Init, SourceInv, Idle, NewUser
<1>2. SourceInv /\ HandInv /\ Ground /\ [Next]_vars => SourceInv'
  <2> SUFFICES ASSUME SourceInv, HandInv, Ground, [Next]_vars PROVE SourceInv' OBVIOUS
  <2>1. CASE Client \/ Clock \/ SigAlrm \/ SigTerm \/ UNCHANGED vars
    <3>1. UNCHANGED <<sock, users, worker, answered, missed>>
      BY <2>1 DEF Client, Connect, Send, Shut, Drain, Clock, SigAlrm, SigTerm, vars, epoll
    <3> QED BY <3>1 DEF SourceInv
  <2> QED BY <2>1, SourceMain, SourceWorker DEF Next
<1>3. SourceInv => NoCrossTalk BY DEF SourceInv, NoCrossTalk
<1> QED BY <1>1, <1>2, <1>3, HandsAlways, PTL DEF Spec

-----------------------------------------------------------------------------
(* Part 2: the first version, Chap5.                                         *)

-----------------------------------------------------------------------------
(* Every step is a step of WebServer.                                        *)

LEMMA ClientStepOf == C5Client => Client
BY DEF C5Client, OtherClient, SendSegment, Client

LEMMA MainStepOf == C5Main => Main
BY DEF C5Main, OtherEvent, AcceptConnection, ReadRequest, WriteAnswer, EndOfBatch, Main

LEMMA WorkStepOf == ASSUME NEW w \in Workers PROVE C5Work(w) => Work(w)
BY DEF C5Work, OtherWork, ParseRequest, FillAnswer, Work

LEMMA StepOf == [C5Next]_<<vars, data>> => [Next]_vars
<1>1. C5Next => Next
  BY ClientStepOf, MainStepOf, WorkStepOf DEF C5Next, TimeAndSignals, Next
<1> QED BY <1>1

\* The first version implements WebServer: its data determine choices that WebServer
\* leaves open, and add no behaviour.
THEOREM ImplementsWebServer == C5Spec => Spec
<1>1. C5Init => Init BY DEF C5Init
<1> QED BY <1>1, StepOf, PTL DEF C5Spec, Spec

\* So no pointer to a deleted timer is used in the first version either, and its alarm
\* chain neither breaks nor doubles.
THEOREM Inherited == C5Spec => [](MainInv /\ AlarmNeverLost)
BY ImplementsWebServer, Invariance, AlarmChain, PTL

-----------------------------------------------------------------------------
(* What the actions of WebServer do to the counters.                         *)

Counts == \A fd \in Fds : users'[fd].got = users[fd].got /\ users'[fd].out = users[fd].out

\* Other clients, timers and most steps of the workers leave them alone.
LEMMA OtherCounts ==
    ASSUME TypeOK, OtherClient \/ TimeAndSignals \/ OtherEvent \/ EndOfBatch
    PROVE  inbox' = inbox /\ users' = users
<1>1. CASE OtherClient BY <1>1 DEF OtherClient, Connect, Shut, Drain
<1>2. CASE TimeAndSignals BY <1>2 DEF TimeAndSignals, Clock, SigAlrm, SigTerm, net
<1>3. CASE OtherEvent
  BY <1>3 DEF OtherEvent, EpollWait, AcceptFails, ServerBusy, DealWithSignal, HangUp, net
<1>4. CASE EndOfBatch BY <1>4 DEF EndOfBatch, EndBatch, net
<1> QED BY <1>1, <1>2, <1>3, <1>4

\* An assignment to another field of one object.
LEMMA FieldCounts ==
    ASSUME TypeOK, NEW fd \in Fds, NEW x,
           \/ users' = [users EXCEPT ![fd].sockfd = x]
           \/ users' = [users EXCEPT ![fd].linger = x]
    PROVE  Counts
<1>1. users[fd] \in UserType BY DEF TypeOK
<1>2. /\ [users[fd] EXCEPT !.sockfd = x].got = users[fd].got
      /\ [users[fd] EXCEPT !.sockfd = x].out = users[fd].out
      /\ [users[fd] EXCEPT !.linger = x].got = users[fd].got
      /\ [users[fd] EXCEPT !.linger = x].out = users[fd].out
  BY <1>1 DEF UserType
<1> QED BY <1>2 DEF Counts, TypeOK

LEMMA WorkerCounts ==
    ASSUME TypeOK, WorkerHasRequest, NEW w \in Workers, OtherWork(w) \/ Parse(w)
    PROVE  inbox' = inbox /\ Counts
<1>1. CASE OtherWork(w)
  <2>1. CASE Forget(w)
    <3>1. worker[w].fd \in Fds BY <2>1 DEF Forget, WorkerHasRequest
    <3> QED BY <2>1, <3>1, FieldCounts DEF Forget, net
  <2>2. CASE Take(w) \/ CloseConn(w) \/ LoadCount(w) \/ StoreCount(w) \/ Rearm(w)
    BY <2>2 DEF Take, CloseConn, LoadCount, StoreCount, Rearm, net, Counts
  <2> QED BY <1>1, <2>1, <2>2 DEF OtherWork
<1>2. CASE Parse(w)
  <2>1. worker[w].fd \in Fds BY <1>2 DEF Parse, WorkerHasRequest
  <2>2. inbox' = inbox BY <1>2 DEF Parse, net
  <2>3. CASE UNCHANGED users BY <2>2, <2>3 DEF Counts
  <2>4. CASE \E keep \in KeepAlive : users' = [users EXCEPT ![worker[w].fd].linger = keep]
    BY <2>1, <2>2, <2>4, FieldCounts
  <2> QED BY <1>2, <2>3, <2>4, SMTT(30) DEF Parse
<1> QED BY <1>1, <1>2

\* An object is put in its place: the others keep their counters, the one behind included.
LEMMA PutCounts ==
    ASSUME TypeOK, NEW fd \in Fds, NEW u \in UserType, NEW init \in BOOLEAN,
           users' = Put(fd, u, init)
    PROVE  /\ users'[fd] = u
           /\ \A g \in Fds \ {fd} : users'[g].got = users[g].got /\ users'[g].out = users[g].out
<1>1. ASSUME NEW v \in UserType
      PROVE  [v EXCEPT !.sockfd = Stdin].got = v.got /\ [v EXCEPT !.sockfd = Stdin].out = v.out
  BY <1>1 DEF UserType
<1>2. users \in [Fds -> UserType] BY DEF TypeOK
<1> QED BY <1>1, <1>2 DEF Put

LEMMA ReadCounts ==
    ASSUME TypeOK, NEW fd \in Fds, ReadProactor(fd)
    PROVE  /\ Readable(fd) \in Nat
           /\ users'[fd].got = users[fd].got + Readable(fd) /\ users'[fd].out = users[fd].out
           /\ \A g \in Fds \ {fd} : users'[g] = users[g]
           /\ Peer(fd) = None => Readable(fd) = 0 /\ inbox' = inbox
           /\ Peer(fd) # None => /\ Peer(fd) \in Conns
                                 /\ Readable(fd) <= inbox[Peer(fd)]
                                 /\ inbox' = [inbox EXCEPT ![Peer(fd)] = @ - Readable(fd)]
<1>1. users[fd] \in UserType /\ users[fd].sockfd \in Fds \cup {None, Stdin}
      /\ BufSize - users[fd].got \in Nat
  BY Parameters DEF TypeOK, UserType
<1>2. Peer(fd) \in Conns \cup {None} BY <1>1 DEF Peer, TypeOK
<1>3. users' = [users EXCEPT ![fd] = AfterRead(fd)] /\ ReadInbox(fd) BY DEF ReadProactor
<1>4. Peer(fd) # None => inbox[Peer(fd)] \in Nat BY <1>2 DEF TypeOK
<1>5. Readable(fd) \in Nat /\ (Peer(fd) # None => Readable(fd) <= inbox[Peer(fd)])
  <2>1. CASE Peer(fd) = None BY <2>1 DEF Readable
  <2>2. CASE Peer(fd) # None
    <3> DEFINE a == inbox[Peer(fd)]
               b == BufSize - users[fd].got
    <3>1. a \in Nat /\ b \in Nat BY <1>1, <1>4, <2>2
    <3>2. Readable(fd) = Least(a, b) BY <2>2 DEF Readable
    <3> HIDE DEF a, b
    <3>3. Least(a, b) \in 0..a BY <3>1, LeastType
    <3>4. Readable(fd) \in Nat /\ Readable(fd) <= a BY <3>1, <3>2, <3>3
    <3> QED BY <3>4 DEF a
  <2> QED BY <2>1, <2>2
<1>6. AfterRead(fd).got = users[fd].got + Readable(fd) /\ AfterRead(fd).out = users[fd].out
  BY <1>1 DEF AfterRead, UserType
<1>7. users \in [Fds -> UserType] BY DEF TypeOK
<1>8. users'[fd] = AfterRead(fd) /\ \A g \in Fds \ {fd} : users'[g] = users[g] BY <1>3, <1>7
<1>9. Peer(fd) = None => Readable(fd) = 0 /\ inbox' = inbox BY <1>3 DEF Readable, ReadInbox
<1>10. Peer(fd) # None => inbox' = [inbox EXCEPT ![Peer(fd)] = @ - Readable(fd)]
  BY <1>3 DEF ReadInbox
<1> QED BY <1>2, <1>5, <1>6, <1>8, <1>9, <1>10

\* write() calls init() exactly when nothing is left to send and there was nothing or the
\* connection is kept.
LEMMA WriteOutcome ==
    ASSUME TypeOK, NEW fd \in Fds, NEW r \in Writes(fd)
    PROVE  /\ r.user \in UserType /\ r.init \in BOOLEAN /\ r.sent \in Nat
           /\ r.user.out \in 0..users[fd].out
           /\ r.init <=> r.user.out = 0 /\ (users[fd].out = 0 \/ users[fd].linger)
           /\ r.user.got = IF r.init THEN 0 ELSE users[fd].got
           /\ r.sent # 0 => users[fd].out # 0 /\ Peer(fd) # None
<1> DEFINE u == users[fd]
           n == Least(u.out, room[Peer(fd)])
<1>1. u \in UserType /\ u.out \in Nat /\ u.linger \in BOOLEAN
      /\ u.sockfd \in Fds \cup {None, Stdin}
  BY DEF TypeOK, UserType
<1>2. /\ Cleared(u) \in UserType /\ Cleared(u).out = 0 /\ Cleared(u).got = 0
  BY <1>1, UserTypes DEF Cleared, UserType
<1>3. Peer(fd) \in Conns \cup {None} BY <1>1 DEF Peer, TypeOK
<1>4. CASE u.out = 0
  <2>1. r = [ok |-> TRUE, user |-> Cleared(u), init |-> TRUE, ev |-> "in", sent |-> 0]
    BY <1>4 DEF Writes
  <2> QED BY <1>1, <1>2, <1>4, <2>1
<1>5. CASE u.out # 0 /\ Peer(fd) = None
  <2>1. CASE r = [ok |-> FALSE, user |-> u, init |-> FALSE, ev |-> "keep", sent |-> 0]
    BY <1>1, <1>5, <2>1
  <2>2. CASE r # [ok |-> FALSE, user |-> u, init |-> FALSE, ev |-> "keep", sent |-> 0]
    <3>1. PICK m \in 0..u.out :
             r = IF m < u.out
                 THEN [ok |-> TRUE, user |-> [u EXCEPT !.out = @ - m], init |-> FALSE,
                       ev |-> "out", sent |-> 0]
                 ELSE [ok |-> u.linger,
                       user |-> IF u.linger THEN Cleared(u) ELSE [u EXCEPT !.out = 0],
                       init |-> u.linger, ev |-> "in", sent |-> 0]
      BY <1>5, <2>2 DEF Writes
    <3>2. PICK v : v = u OBVIOUS
    <3>3. PICK k : k = v.out - m OBVIOUS
    <3>4. /\ v \in UserType /\ v.got = users[fd].got /\ v.out = users[fd].out
          /\ v.linger = users[fd].linger /\ v.out # 0 /\ v.out \in Nat
      BY <1>1, <1>5, <3>2
    <3>5. k \in 0..v.out /\ (m < v.out => k # 0) BY <3>1, <3>2, <3>3, <3>4
    <3>6. /\ [v EXCEPT !.out = k] \in UserType /\ [v EXCEPT !.out = k].out = k
          /\ [v EXCEPT !.out = k].got = v.got
          /\ [v EXCEPT !.out = 0] \in UserType /\ [v EXCEPT !.out = 0].out = 0
          /\ [v EXCEPT !.out = 0].got = v.got
      BY <3>4, <3>5 DEF UserType
    <3>7. r = IF m < v.out
              THEN [ok |-> TRUE, user |-> [v EXCEPT !.out = k], init |-> FALSE,
                    ev |-> "out", sent |-> 0]
              ELSE [ok |-> v.linger,
                    user |-> IF v.linger THEN Cleared(v) ELSE [v EXCEPT !.out = 0],
                    init |-> v.linger, ev |-> "in", sent |-> 0]
      BY <3>1, <3>2, <3>3
    <3>8. Cleared(v) \in UserType /\ Cleared(v).out = 0 /\ Cleared(v).got = 0 BY <1>2, <3>2
    <3>9. v.linger \in BOOLEAN BY <3>4 DEF UserType
    <3> HIDE DEF u
    <3>10. CASE m < v.out
      <4>1. r.user = [v EXCEPT !.out = k] /\ r.init = FALSE /\ r.sent = 0 BY <3>7, <3>10
      <4>2. r.user \in UserType /\ r.user.out = k /\ r.user.got = v.got BY <3>6, <4>1
      <4>3. k \in 0..users[fd].out /\ k # 0 BY <3>4, <3>5, <3>10
      <4>4. r.user.got = users[fd].got /\ r.init = FALSE /\ r.sent = 0 BY <3>4, <4>1, <4>2
      <4>5. r.user.out \in 0..users[fd].out /\ r.user.out # 0 BY <4>2, <4>3
      <4>6. r.init <=> r.user.out = 0 /\ (users[fd].out = 0 \/ users[fd].linger)
        BY <4>4, <4>5, Zenon
      <4>7. r.sent \in Nat /\ ~(r.sent # 0) BY <4>4
      <4>8. r.user.got = IF r.init THEN 0 ELSE users[fd].got BY <4>4, Zenon
      <4> QED BY <4>2, <4>4, <4>5, <4>6, <4>7, <4>8, Zenon
    <3>11. CASE ~(m < v.out)
      <4>1. /\ r.user = IF v.linger THEN Cleared(v) ELSE [v EXCEPT !.out = 0]
            /\ r.init = v.linger /\ r.sent = 0
        BY <3>7, <3>11
      <4>2. r.user \in UserType /\ r.user.out = 0 BY <3>6, <3>8, <4>1
      <4>3. r.user.got = IF r.init THEN 0 ELSE users[fd].got BY <3>4, <3>6, <3>8, <4>1
      <4> QED BY <3>4, <3>9, <4>1, <4>2, <4>3
    <3> QED BY <3>10, <3>11
  <2> QED BY <2>1, <2>2
<1>6. CASE u.out # 0 /\ Peer(fd) # None
  <2>1. n \in 0..u.out /\ n \in Nat
    <3> DEFINE a == u.out
               b == room[Peer(fd)]
    <3>0. room[Peer(fd)] \in {0, 1}
      <4>1. room \in [Conns -> {0, 1}] /\ Peer(fd) \in Conns BY <1>3, <1>6 DEF TypeOK
      <4> QED BY <4>1
    <3>1. a \in Nat /\ b \in Nat BY <1>1, <3>0
    <3> HIDE DEF a, b
    <3>2. Least(a, b) \in 0..a BY <3>1, LeastType
    <3>3. Least(a, b) \in Nat BY <3>2
    <3> QED BY <3>2, <3>3 DEF a, b
  <2>2. r \in {[ok |-> FALSE, user |-> u, init |-> FALSE, ev |-> "keep", sent |-> 0],
               IF n < u.out
               THEN [ok |-> TRUE, user |-> [u EXCEPT !.out = @ - n], init |-> FALSE,
                     ev |-> "out", sent |-> n]
               ELSE [ok |-> u.linger,
                     user |-> IF u.linger THEN Cleared(u) ELSE [u EXCEPT !.out = 0],
                     init |-> u.linger, ev |-> "in", sent |-> n]}
    BY <1>6 DEF Writes
  <2> HIDE DEF n
  <2>3. /\ [u EXCEPT !.out = @ - n] \in UserType /\ [u EXCEPT !.out = @ - n].out = u.out - n
        /\ [u EXCEPT !.out = @ - n].got = u.got
        /\ [u EXCEPT !.out = 0] \in UserType /\ [u EXCEPT !.out = 0].out = 0
        /\ [u EXCEPT !.out = 0].got = u.got
    <3>1. u.out - n \in Nat BY <1>1, <2>1
    <3>2. u \in UserType BY <1>1
    <3> HIDE DEF u
    <3> QED BY <3>1, <3>2 DEF UserType
  <2>4. CASE r = [ok |-> FALSE, user |-> u, init |-> FALSE, ev |-> "keep", sent |-> 0]
    BY <1>1, <1>6, <2>4
  <2>5. CASE n < u.out /\ r = [ok |-> TRUE, user |-> [u EXCEPT !.out = @ - n], init |-> FALSE,
                               ev |-> "out", sent |-> n]
    <3>1. r.user = [u EXCEPT !.out = @ - n] /\ r.init = FALSE /\ r.sent = n BY <2>5
    <3>2. r.user.out = u.out - n /\ r.user.got = u.got /\ r.user \in UserType BY <2>3, <3>1
    <3>3. u.out - n \in 0..u.out /\ u.out - n # 0 BY <1>1, <2>1, <2>5
    <3> QED BY <1>1, <1>6, <2>1, <3>1, <3>2, <3>3
  <2>6. CASE ~(n < u.out) /\ r = [ok |-> u.linger,
                     user |-> IF u.linger THEN Cleared(u) ELSE [u EXCEPT !.out = 0],
                     init |-> u.linger, ev |-> "in", sent |-> n]
    <3>1. CASE u.linger BY <1>1, <1>2, <1>6, <2>1, <2>6, <3>1
    <3>2. CASE ~u.linger
      <4>1. r = [ok |-> FALSE, user |-> [u EXCEPT !.out = 0], init |-> FALSE, ev |-> "in",
                 sent |-> n]
        BY <1>1, <2>6, <3>2
      <4>2. r.user = [u EXCEPT !.out = 0] /\ r.init = FALSE /\ r.sent = n BY <4>1
      <4>3. r.user.out = 0 /\ r.user.got = u.got /\ r.user \in UserType BY <2>3, <4>2
      <4>4. 0 \in 0..u.out BY <1>1
      <4>5. r.init <=> r.user.out = 0 /\ (u.out = 0 \/ u.linger) BY <1>6, <3>2, <4>2, <4>3
      <4>6. r.user.got = IF r.init THEN 0 ELSE u.got BY <4>2, <4>3
      <4> QED BY <1>6, <2>1, <4>2, <4>3, <4>4, <4>5, <4>6
    <3> QED BY <3>1, <3>2
  <2> QED BY <2>2, <2>4, <2>5, <2>6
<1> QED BY <1>4, <1>5, <1>6

-----------------------------------------------------------------------------
(* The counters and the data.                                                *)

LEMMA InitData == C5Init => DataInv
<1> SUFFICES ASSUME C5Init PROVE DataInv OBVIOUS
<1>1. /\ \A c \in Conns : inbox[c] = 0
      /\ \A fd \in Fds : users[fd].got = 0 /\ users[fd].out = 0
  BY DEF C5Init, Init, NewUser
<1>2. \A c \in Conns : plan[c] \in Seq(Request) /\ 0 <= Len(plan[c])
  <2>1. ASSUME NEW c \in Conns PROVE plan[c] \in Seq(Request) BY Chap5Parameters DEF C5Init
  <2> QED BY <2>1
<1>3. /\ plan \in Plans /\ asked \in [Conns -> Nat] /\ given \in [Conns -> Nat]
      /\ \A c \in Conns : asked[c] <= Len(plan[c])
  BY <1>2 DEF C5Init
<1>4. NoFile \in [client : Conns \cup {None}, nth : Nat] BY DEF NoFile
<1>5. /\ wire \in [Conns -> Seq(FromClients)] /\ buf \in [Fds -> Seq(FromClients)]
      /\ checked \in [Fds -> Nat] /\ pieces \in [Fds -> Seq(Piece)]
      /\ made \in [Workers -> Seq(Piece)] /\ told \in [Conns -> Seq(Piece)]
      /\ spoilt \subseteq Conns
      /\ file \in [Fds -> [client : Conns \cup {None}, nth : Nat]]
  BY <1>4 DEF C5Init
<1>6. /\ \A c \in Conns : Len(wire[c]) = inbox[c]
      /\ \A fd \in Fds : Len(buf[fd]) = users[fd].got /\ Len(pieces[fd]) = users[fd].out
  <2>1. /\ \A c \in Conns : wire[c] = <<>>
        /\ \A fd \in Fds : buf[fd] = <<>> /\ pieces[fd] = <<>>
    BY DEF C5Init
  <2> QED BY <1>1, <2>1, EmptySeq
<1> QED BY <1>3, <1>5, <1>6 DEF DataInv

\* Most steps leave the data alone.
LEMMA QuietData ==
    ASSUME DataInv, UNCHANGED <<plan, asked, given, wire, object, made, told>>,
           spoilt' \subseteq Conns, inbox' = inbox, Counts
    PROVE  DataInv'
BY DEF DataInv, FromClients, object, Counts

\* A client sends a segment of a request it makes.
LEMMA SendData ==
    ASSUME TypeOK, DataInv, NEW c \in Conns, SendSegment(c)
    PROVE  DataInv'
<1> DEFINE x == Segment(c, asked'[c])
<1>1. plan[c] \in Seq(Request) /\ Len(plan[c]) \in Nat /\ DOMAIN plan[c] = 1..Len(plan[c])
  BY Chap5Parameters DEF DataInv
<1>2. UNCHANGED <<plan, buf, checked, file, pieces, made, spoilt, users>>
      /\ inbox' = [inbox EXCEPT ![c] = @ + 1] /\ wire' = [wire EXCEPT ![c] = Append(@, x)]
  BY DEF SendSegment, object, Send
<1>3. /\ asked' \in [Conns -> Nat] /\ given' \in [Conns -> Nat] /\ told' \in [Conns -> Seq(Piece)]
      /\ \A d \in Conns : asked'[d] <= Len(plan[d])
      /\ asked'[c] \in 1..Len(plan[c])
  <2>1. CASE asked[c] > 0 /\ given' = [given EXCEPT ![c] = @ + 1] /\ UNCHANGED <<asked, told>>
    BY <1>1, <2>1 DEF DataInv
  <2>2. CASE /\ asked[c] < Len(plan[c])
             /\ asked' = [asked EXCEPT ![c] = @ + 1] /\ given' = [given EXCEPT ![c] = 1]
             /\ told' = [told EXCEPT ![c] = <<>>]
    BY <1>1, <2>2 DEF DataInv
  <2> QED BY <2>1, <2>2 DEF SendSegment, Talk!MayAsk
<1>4. x \in FromClients BY <1>1, <1>3 DEF Segment, FromClients
<1>5. FromClients' = FromClients BY <1>2 DEF FromClients
<1> HIDE DEF x
<1>6. wire[c] \in Seq(FromClients) BY DEF DataInv
<1>7. Append(wire[c], x) \in Seq(FromClients) /\ Len(Append(wire[c], x)) = Len(wire[c]) + 1
  BY <1>4, <1>6
<1>8. wire' \in [Conns -> Seq(FromClients)] BY <1>2, <1>7 DEF DataInv
<1>9. \A d \in Conns : Len(wire'[d]) = inbox'[d]
  <2>1. inbox \in [Conns -> Nat] BY DEF TypeOK
  <2> QED BY <1>2, <1>7, <2>1 DEF DataInv
<1> QED BY <1>2, <1>3, <1>5, <1>8, <1>9 DEF DataInv

\* init() takes the object's bytes away and turns those of the next one to zeros.
LEMMA InitObjectData ==
    ASSUME DataInv, NEW fd \in Fds, InitObject(fd)
    PROVE  /\ buf' \in [Fds -> Seq(FromClients)] /\ checked' \in [Fds -> Nat]
           /\ file' \in [Fds -> [client : Conns \cup {None}, nth : Nat]]
           /\ Len(buf'[fd]) = 0
           /\ \A g \in Fds \ {fd} : Len(buf'[g]) = Len(buf[g])
<1> DEFINE wiped(g) == [i \in DOMAIN buf[g] |-> [buf[g][i] EXCEPT !.wiped = TRUE]]
<1>1. ASSUME NEW g \in Fds
      PROVE  wiped(g) \in Seq(FromClients) /\ Len(wiped(g)) = Len(buf[g])
  <2>1. buf[g] \in Seq(FromClients) BY DEF DataInv
  <2>2. Len(buf[g]) \in Nat /\ DOMAIN buf[g] = 1..Len(buf[g]) BY <2>1
  <2>3. ASSUME NEW i \in 1..Len(buf[g]) PROVE [buf[g][i] EXCEPT !.wiped = TRUE] \in FromClients
    <3>1. buf[g][i] \in FromClients BY <2>1, <2>3
    <3> QED BY <3>1 DEF FromClients
  <2> QED BY <2>2, <2>3, IsASeq
<1>2. buf' = [g \in Fds |-> IF g = fd THEN <<>> ELSE IF g \in Overrun[fd] THEN wiped(g) ELSE buf[g]]
      /\ checked' = [checked EXCEPT ![fd] = 0] /\ file' = [file EXCEPT ![fd] = NoFile]
  BY DEF InitObject
<1> HIDE DEF wiped
<1>3. buf' \in [Fds -> Seq(FromClients)] BY <1>1, <1>2 DEF DataInv
<1>4. checked' \in [Fds -> Nat] /\ file' \in [Fds -> [client : Conns \cup {None}, nth : Nat]]
  BY <1>2 DEF DataInv, NoFile
<1> QED BY <1>1, <1>2, <1>3, <1>4

LEMMA NeighboursAreConns == ASSUME TypeOK, NEW fd \in Fds PROVE Neighbours(fd) \subseteq Conns
<1>1. Overrun[fd] \subseteq Fds BY Parameters
<1> QED BY <1>1 DEF Neighbours, TypeOK

LEMMA AcceptData ==
    ASSUME TypeOK, DataInv, NEW c \in Conns, NEW fd \in Fds, AcceptConnection(c, fd)
    PROVE  DataInv'
<1> DEFINE u == [NewUser EXCEPT !.sockfd = fd]
<1>1. u \in UserType /\ u.got = 0 /\ u.out = 0 BY UserTypes DEF NewUser
<1>2. users' = Put(fd, u, TRUE) /\ inbox' = inbox BY DEF AcceptConnection, Accept
<1> HIDE DEF u
<1>3. /\ users'[fd] = u
      /\ \A g \in Fds \ {fd} : users'[g].got = users[g].got /\ users'[g].out = users[g].out
  BY <1>1, <1>2, PutCounts
<1>4. InitObject(fd) /\ pieces' = [pieces EXCEPT ![fd] = <<>>]
      /\ UNCHANGED <<plan, asked, given, wire, made, told>>
  BY DEF AcceptConnection, asking
<1>5. spoilt' \subseteq Conns BY NeighboursAreConns DEF AcceptConnection, DataInv
<1>6. FromClients' = FromClients BY <1>4 DEF FromClients
<1>7. \A g \in Fds : Len(buf'[g]) = users'[g].got BY <1>1, <1>3, <1>4, InitObjectData DEF DataInv
<1>8. pieces' \in [Fds -> Seq(Piece)] /\ \A g \in Fds : Len(pieces'[g]) = users'[g].out
  <2>1. pieces \in [Fds -> Seq(Piece)] /\ \A g \in Fds : Len(pieces[g]) = users[g].out BY DEF DataInv
  <2>2. pieces' \in [Fds -> Seq(Piece)] BY <1>4, <2>1
  <2>3. pieces'[fd] = <<>> /\ \A g \in Fds \ {fd} : pieces'[g] = pieces[g] BY <1>4, <2>1
  <2>4. Len(pieces'[fd]) = users'[fd].out BY <1>1, <1>3, <2>3
  <2>5. ASSUME NEW g \in Fds \ {fd} PROVE Len(pieces'[g]) = users'[g].out BY <1>3, <2>1, <2>3
  <2> QED BY <2>2, <2>4, <2>5
<1> QED BY <1>2, <1>4, <1>5, <1>6, <1>7, <1>8, InitObjectData DEF DataInv

LEMMA ReadData ==
    ASSUME TypeOK, DataInv, NEW fd \in Fds, ReadRequest(fd)
    PROVE  DataInv'
<1> DEFINE c == Peer(fd)
           n == Readable(fd)
<1>1. UNCHANGED <<plan, asked, given, checked, file, pieces, made, told, spoilt>> /\ ReadProactor(fd)
  BY DEF ReadRequest, asking
<1>2. FromClients' = FromClients BY <1>1 DEF FromClients
<1>3. buf \in [Fds -> Seq(FromClients)] /\ wire \in [Conns -> Seq(FromClients)]
      /\ (\A g \in Fds : Len(buf[g]) = users[g].got /\ Len(pieces[g]) = users[g].out)
      /\ (\A d \in Conns : Len(wire[d]) = inbox[d])
  BY DEF DataInv
<1>4. CASE c = None
  <2>1. UNCHANGED <<wire, buf>> BY <1>4 DEF ReadRequest, ReadOnce
  <2>2. inbox' = inbox /\ Counts
    <3>1. users[fd].got \in Nat BY DEF TypeOK, UserType
    <3> QED BY <1>1, <1>4, <3>1, ReadCounts DEF Counts
  <2> QED BY <1>1, <2>1, <2>2, QuietData DEF DataInv, object
<1>5. CASE c # None
  <2>1. /\ wire' = [wire EXCEPT ![c] = SubSeq(@, n + 1, Len(@))]
        /\ buf' = [buf EXCEPT ![fd] = @ \o SubSeq(wire[c], 1, n)]
    BY <1>5 DEF ReadRequest, ReadOnce
  <2>2. c \in Conns /\ n \in Nat /\ n <= Len(wire[c])
        /\ inbox' = [inbox EXCEPT ![c] = @ - n]
    BY <1>1, <1>3, <1>5, ReadCounts
  <2>3. /\ users'[fd].got = users[fd].got + n /\ users'[fd].out = users[fd].out
        /\ \A g \in Fds \ {fd} : users'[g] = users[g]
    BY <1>1, ReadCounts
  <2> HIDE DEF c, n
  <2>4. wire[c] \in Seq(FromClients) /\ buf[fd] \in Seq(FromClients) BY <1>3, <2>2
  <2>5. SubSeq(wire[c], n + 1, Len(wire[c])) \in Seq(FromClients)
        /\ Len(SubSeq(wire[c], n + 1, Len(wire[c]))) = Len(wire[c]) - n
    BY <2>2, <2>4, SubSeqProperties
  <2>6. SubSeq(wire[c], 1, n) \in Seq(FromClients) /\ Len(SubSeq(wire[c], 1, n)) = n
    BY <2>2, <2>4, SubSeqProperties
  <2>7. buf[fd] \o SubSeq(wire[c], 1, n) \in Seq(FromClients)
        /\ Len(buf[fd] \o SubSeq(wire[c], 1, n)) = Len(buf[fd]) + n
    BY <2>4, <2>6, ConcatProperties
  <2>8. wire' \in [Conns -> Seq(FromClients)] /\ buf' \in [Fds -> Seq(FromClients)]
    BY <1>3, <2>1, <2>5, <2>7
  <2>9. \A d \in Conns : Len(wire'[d]) = inbox'[d]
    <3>1. inbox \in [Conns -> Nat] BY DEF TypeOK
    <3> QED BY <1>3, <2>1, <2>2, <2>5, <3>1
  <2>10. \A g \in Fds : Len(buf'[g]) = users'[g].got /\ Len(pieces'[g]) = users'[g].out
    BY <1>1, <1>3, <2>1, <2>3, <2>7
  <2> QED BY <1>1, <1>2, <2>8, <2>9, <2>10 DEF DataInv
<1> QED BY <1>4, <1>5

LEMMA WriteData ==
    ASSUME TypeOK, DataInv, NEW fd \in Fds, WriteAnswer(fd)
    PROVE  DataInv'
<1> DEFINE c == Peer(fd)
           was == users[fd].out
           is == users'[fd].out
<1>1. PICK r \in Writes(fd) : users' = Put(fd, r.user, r.init) /\ Sent(fd, r.sent)
  BY DEF WriteAnswer, WriteProactor
<1>2. inbox' = inbox /\ UNCHANGED <<plan, asked, given, wire, made>>
  BY DEF WriteAnswer, WriteProactor, asking
<1>3. /\ users'[fd] = r.user
      /\ \A g \in Fds \ {fd} : users'[g].got = users[g].got /\ users'[g].out = users[g].out
  BY <1>1, WriteOutcome, PutCounts
<1>4. was \in Nat /\ is \in 0..was
  BY <1>1, <1>3, WriteOutcome DEF TypeOK, UserType
<1>5. FromClients' = FromClients BY <1>2 DEF FromClients
<1>6. pieces \in [Fds -> Seq(Piece)] /\ \A g \in Fds : Len(pieces[g]) = users[g].out BY DEF DataInv
<1>7. pieces' \in [Fds -> Seq(Piece)] /\ \A g \in Fds : Len(pieces'[g]) = users'[g].out
  <2> DEFINE rest == SubSeq(pieces[fd], was - is + 1, was)
  <2>1. pieces' = [pieces EXCEPT ![fd] = rest] BY DEF WriteAnswer, Write
  <2>2. pieces[fd] \in Seq(Piece) /\ Len(pieces[fd]) = was BY <1>6
  <2>3. rest \in Seq(Piece) /\ Len(rest) = is
    <3> HIDE DEF was, is
    <3> QED BY <1>4, <2>2, SubSeqProperties
  <2> HIDE DEF rest
  <2> QED BY <1>3, <1>6, <2>1, <2>3
<1>8. told' \in [Conns -> Seq(Piece)]
  <2>1. CASE c # None /\ room'[c] < room[c]
    <3>1. r.sent # 0
      <4>1. CASE r.sent = 0
        <5>1. room' = room BY <1>1, <4>1 DEF Sent
        <5>2. room[c] \in Nat
          <6>1. users[fd].sockfd \in Fds \cup {None, Stdin} BY DEF TypeOK, UserType
          <6>2. c \in Conns BY <2>1, <6>1 DEF Peer, TypeOK
          <6> QED BY <6>2 DEF TypeOK
        <5> QED BY <2>1, <5>1, <5>2
      <4> QED BY <4>1
    <3>2. was # 0 BY <1>1, <3>1, WriteOutcome
    <3>3. pieces[fd] \in Seq(Piece) /\ pieces[fd] # <<>> BY <1>6, <3>2
    <3>4. Head(pieces[fd]) \in Piece BY <3>3
    <3>5. Gathered(fd) \in Piece
      <4>1. file[fd] \in [client : Conns \cup {None}, nth : Nat] BY DEF DataInv
      <4> QED BY <3>4, <4>1 DEF Gathered, Piece, Parts
    <3>6. told' = [told EXCEPT ![c] = Append(@, Gathered(fd))] BY <2>1 DEF WriteAnswer, Write
    <3>7. c \in Conns
      <4>1. users[fd].sockfd \in Fds \cup {None, Stdin} BY DEF TypeOK, UserType
      <4> QED BY <2>1, <4>1 DEF Peer, TypeOK
    <3> DEFINE g == Gathered(fd)
    <3>8. told \in [Conns -> Seq(Piece)] BY DEF DataInv
    <3> HIDE DEF c, g
    <3>9. Append(told[c], g) \in Seq(Piece) BY <3>5, <3>7, <3>8 DEF g
    <3> QED BY <3>6, <3>8, <3>9 DEF g
  <2>2. CASE ~(c # None /\ room'[c] < room[c])
    <3>1. told' = told BY <2>2 DEF WriteAnswer, Write
    <3> QED BY <3>1 DEF DataInv
  <2> QED BY <2>1, <2>2
<1>9. /\ buf' \in [Fds -> Seq(FromClients)] /\ checked' \in [Fds -> Nat] /\ spoilt' \subseteq Conns
      /\ file' \in [Fds -> [client : Conns \cup {None}, nth : Nat]]
      /\ \A g \in Fds : Len(buf'[g]) = users'[g].got
  <2>1. CASE is = 0 /\ (was = 0 \/ users[fd].linger)
    <3>1. InitObject(fd) /\ spoilt' = spoilt \cup Neighbours(fd) BY <2>1 DEF WriteAnswer, Write
    <3>2. users'[fd].got = 0 BY <1>1, <1>3, <2>1, WriteOutcome
    <3> QED BY <1>3, <3>1, <3>2, InitObjectData, NeighboursAreConns DEF DataInv
  <2>2. CASE ~(is = 0 /\ (was = 0 \/ users[fd].linger))
    <3>1. UNCHANGED <<buf, checked, spoilt>> BY <2>2 DEF WriteAnswer, Write
    <3>2. file' \in [Fds -> [client : Conns \cup {None}, nth : Nat]]
      <4>1. file' = file \/ file' = [file EXCEPT ![fd] = NoFile]
        BY <2>2 DEF WriteAnswer, Write, Unmap
      <4>2. NoFile \in [client : Conns \cup {None}, nth : Nat] BY DEF NoFile
      <4>3. file \in [Fds -> [client : Conns \cup {None}, nth : Nat]] BY DEF DataInv
      <4> QED BY <4>1, <4>2, <4>3
    <3>3. users'[fd].got = users[fd].got BY <1>1, <1>3, <2>2, WriteOutcome
    <3> QED BY <1>3, <3>1, <3>2, <3>3 DEF DataInv
  <2> QED BY <2>1, <2>2
<1> QED BY <1>2, <1>5, <1>7, <1>8, <1>9 DEF DataInv

\* What process() makes of a request is made of the pieces a client may be told.
LEMMA AnswerPieces ==
    ASSUME DataInv, NEW x \in FromClients
    PROVE  AnswerTo(x) \in Seq(Piece)
<1> DEFINE r == RequestOf(x)
           parts == ProcessWrite(ProcessRead(r), r.page)
<1>1. x.client \in Conns /\ x.nth \in Nat /\ x.nth \in DOMAIN plan[x.client]
  BY DEF FromClients
<1>2. r.page \in Pages
  <2>1. plan[x.client] \in Seq(Request) BY <1>1, Chap5Parameters DEF DataInv
  <2>2. plan[x.client][x.nth] \in Request BY <1>1, <2>1
  <2> QED BY <2>2 DEF RequestOf, Request
<1> HIDE DEF r
<1>3. parts \in {<<"404">>, <<"403">>, <<"400">>, <<>>, <<"header", "content">>}
  BY <1>2 DEF Pages, ProcessWrite, ProcessRead, DoRequest, Malformed
<1> HIDE DEF parts
<1>4. DOMAIN parts = 1..Len(parts) /\ Len(parts) \in Nat /\ \A i \in 1..Len(parts) : parts[i] \in Parts
  BY <1>3 DEF Parts
<1> DEFINE e(i) == [client |-> x.client, nth |-> x.nth, what |-> parts[i]]
<1>5. \A i \in 1..Len(parts) : e(i) \in Piece BY <1>1, <1>4 DEF Piece
<1>6. AnswerTo(x) = [i \in 1..Len(parts) |-> e(i)] BY <1>4 DEF AnswerTo, parts, r
<1> HIDE DEF e
<1> QED BY <1>4, <1>5, <1>6, IsASeq

LEMMA ParseData ==
    ASSUME TypeOK, WorkerHasRequest, DataInv, NEW w \in Workers, ParseRequest(w)
    PROVE  DataInv'
<1> DEFINE fd == worker[w].fd
           x == Head(buf[fd])
<1>1. UNCHANGED <<plan, asked, given, wire, buf, pieces, told, spoilt>> /\ Parse(w)
  BY DEF ParseRequest, asking
<1>2. inbox' = inbox /\ Counts BY <1>1, WorkerCounts
<1>3. fd \in Fds BY <1>1 DEF Parse, WorkerHasRequest
<1>4. FromClients' = FromClients BY <1>1 DEF FromClients
<1>5. /\ checked' \in [Fds -> Nat] /\ made' \in [Workers -> Seq(Piece)]
      /\ file' \in [Fds -> [client : Conns \cup {None}, nth : Nat]]
  <2>1. buf[fd] \in Seq(FromClients) BY <1>3 DEF DataInv
  <2>2. CASE NoRequest(fd)
    <3>1. checked' = [checked EXCEPT ![fd] = Len(buf[fd])] /\ UNCHANGED <<made, file>>
      BY <2>2 DEF ParseRequest
    <3>2. Len(buf[fd]) \in Nat BY <2>1
    <3> QED BY <3>1, <3>2 DEF DataInv
  <2>3. CASE ~NoRequest(fd)
    <3>1. buf[fd] # <<>> BY <2>3 DEF NoRequest
    <3>2. x \in FromClients BY <2>1, <3>1
    <3>3. /\ made' = [made EXCEPT ![w] = AnswerTo(x)]
          /\ file' = [file EXCEPT ![fd] = Whose(x)] \/ file' = file
          /\ UNCHANGED checked
      BY <2>3 DEF ParseRequest
    <3>4. AnswerTo(x) \in Seq(Piece) BY <3>2, AnswerPieces
    <3>5. Whose(x) \in [client : Conns \cup {None}, nth : Nat] BY <3>2 DEF FromClients, Whose
    <3> HIDE DEF x, fd
    <3>6. checked' \in [Fds -> Nat] BY <3>3 DEF DataInv
    <3>7. made' \in [Workers -> Seq(Piece)] BY <3>3, <3>4 DEF DataInv
    <3>8. file' \in [Fds -> [client : Conns \cup {None}, nth : Nat]] BY <3>3, <3>5 DEF DataInv
    <3> QED BY <3>6, <3>7, <3>8
  <2> QED BY <2>2, <2>3
<1> QED BY <1>1, <1>2, <1>4, <1>5 DEF DataInv, Counts

LEMMA FillData ==
    ASSUME TypeOK, WorkerHasRequest, DataInv, NEW w \in Workers, FillAnswer(w)
    PROVE  DataInv'
<1> DEFINE fd == worker[w].fd
<1>1. /\ Fill(w) /\ users'[fd].out = Len(made[w])
      /\ pieces' = [pieces EXCEPT ![fd] = made[w]] /\ made' = [made EXCEPT ![w] = <<>>]
      /\ UNCHANGED <<plan, asked, given, wire, buf, checked, file, told, spoilt>>
  BY DEF FillAnswer, asking
<1>2. fd \in Fds BY <1>1 DEF Fill, WorkerHasRequest
<1>3. FromClients' = FromClients BY <1>1 DEF FromClients
<1>4. inbox' = inbox BY <1>1 DEF Fill, net
<1>5. PICK n \in AnswerSizes :
         users' = [users EXCEPT ![fd].out = n, ![fd].osrc = worker[w].src]
  BY <1>1 DEF Fill
<1>6. /\ users'[fd].got = users[fd].got
      /\ \A g \in Fds \ {fd} : users'[g] = users[g]
  <2>1. users \in [Fds -> UserType] BY DEF TypeOK
  <2>2. users[fd] \in UserType BY <1>2, <2>1
  <2>3. [users[fd] EXCEPT !.out = n, !.osrc = worker[w].src].got = users[fd].got
    BY <2>2 DEF UserType
  <2>4. users' = [users EXCEPT ![fd] = [users[fd] EXCEPT !.out = n, !.osrc = worker[w].src]]
    BY <1>5
  <2> HIDE DEF fd
  <2> QED BY <1>2, <2>1, <2>3, <2>4
<1>7. made' \in [Workers -> Seq(Piece)] /\ pieces' \in [Fds -> Seq(Piece)]
  <2>1. made[w] \in Seq(Piece) /\ <<>> \in Seq(Piece) BY DEF DataInv
  <2>2. made \in [Workers -> Seq(Piece)] /\ pieces \in [Fds -> Seq(Piece)] BY DEF DataInv
  <2> HIDE DEF fd
  <2>3. made' \in [Workers -> Seq(Piece)] BY <1>1, <2>1, <2>2
  <2>4. pieces' \in [Fds -> Seq(Piece)] BY <1>1, <2>1, <2>2
  <2> QED BY <2>3, <2>4
<1>8. \A g \in Fds : Len(buf'[g]) = users'[g].got /\ Len(pieces'[g]) = users'[g].out
  <2> HIDE DEF fd
  <2> QED BY <1>1, <1>2, <1>6 DEF DataInv
<1> QED BY <1>1, <1>3, <1>4, <1>7, <1>8 DEF DataInv

LEMMA DataStep ==
    ASSUME TypeOK, WorkerHasRequest, DataInv, [C5Next]_<<vars, data>>
    PROVE  DataInv'
<1>1. ASSUME OtherClient \/ TimeAndSignals \/ OtherEvent \/ EndOfBatch PROVE DataInv'
  <2>1. inbox' = inbox /\ Counts BY <1>1, OtherCounts DEF Counts
  <2>2. UNCHANGED <<plan, asked, given, wire, object, made, told>>
    BY <1>1 DEF OtherClient, TimeAndSignals, OtherEvent, EndOfBatch, data, asking
  <2>3. spoilt' \subseteq Conns
    <3>1. CASE EndOfBatch BY <3>1 DEF EndOfBatch, Harmed, DataInv
    <3>2. CASE OtherClient \/ TimeAndSignals \/ OtherEvent
      BY <3>2 DEF OtherClient, TimeAndSignals, OtherEvent, data, DataInv
    <3> QED BY <1>1, <3>1, <3>2
  <2> QED BY <2>1, <2>2, <2>3, QuietData
<1>2. ASSUME NEW w \in Workers, OtherWork(w) PROVE DataInv'
  <2>1. inbox' = inbox /\ Counts BY <1>2, WorkerCounts
  <2>2. UNCHANGED data BY <1>2 DEF OtherWork
  <2> QED BY <2>1, <2>2, QuietData DEF data, asking, DataInv
<1>3. ASSUME UNCHANGED <<vars, data>> PROVE DataInv'
  BY <1>3, QuietData DEF vars, net, data, asking, Counts, DataInv
<1> QED BY <1>1, <1>2, <1>3, SendData, AcceptData, ReadData, WriteData, ParseData, FillData
        DEF C5Next, C5Client, C5Main, C5Work

\* In every state m_read_idx and bytes_to_send are the lengths of what m_read_buf and m_iv
\* hold, for any requests, whatever is cut off, closed, used again or written over.
THEOREM CountersAgree == C5Spec => []DataInv
<1>1. MainInv => TypeOK /\ WorkerHasRequest BY DEF MainInv
<1>2. TypeOK /\ WorkerHasRequest /\ DataInv /\ [C5Next]_<<vars, data>> => DataInv' BY DataStep
<1> QED BY <1>1, <1>2, InitData, Inherited, PTL DEF C5Spec

-----------------------------------------------------------------------------
(* Conversations.  For a connection that nothing came in the way of, one thread at a time    *)
(* has its object (OneHand), that thread is where the answer has got to (Steps), and buffer,  *)
(* pieces and what the client was told are those of the last request (Speaks).                *)

Base == MainInv /\ DataInv

Unspoilt(fd) == sock[fd] \notin spoilt \cup {None}

Serves(w, fd) == worker[w].fd = fd
Once(fd) == \A i, j \in DOMAIN m_workqueue : m_workqueue[i] = fd /\ m_workqueue[j] = fd => i = j

OneHand(fd) ==
    /\ users[fd].sockfd = fd
    /\ Armed(fd) => ~InBatch(fd) /\ ~InQueue(fd) /\ \A w \in Workers : ~Serves(w, fd)
    /\ InBatch(fd) => ~InQueue(fd) /\ \A w \in Workers : ~Serves(w, fd)
    /\ InQueue(fd) => \A w \in Workers : ~Serves(w, fd)
    /\ Once(fd)
    /\ \A v, w \in Workers : Serves(v, fd) /\ Serves(w, fd) => v = w

\* Whether the answer has been made follows from where the request is.
Steps(fd) ==
    /\ interest[fd] = "in" => pieces[fd] = <<>>
    /\ interest[fd] = "out" => pieces[fd] # <<>>
    /\ Event("in", fd) \in batch => pieces[fd] = <<>> /\ inbox[sock[fd]] > 0
    /\ Event("out", fd) \in batch => pieces[fd] # <<>>
    /\ Event("hup", fd) \in batch => phase[sock[fd]] = "shut"
    /\ InQueue(fd) => pieces[fd] = <<>>
    /\ \A w \in Workers : Serves(w, fd) =>
          /\ worker[w].pc \in {"parse", "fill", "close", "rearmIn", "rearmOut"}
          /\ worker[w].pc = "rearmOut" => pieces[fd] # <<>>
          /\ worker[w].pc # "rearmOut" => pieces[fd] = <<>>
          /\ worker[w].pc = "close" => /\ asked[sock[fd]] > 0
                                       /\ Talk!Last(sock[fd]).page = "empty"

Whole(c) == Talk!Last(c).head + Talk!Last(c).body
AllOf(c, s) == \A i \in DOMAIN s : s[i] = Segment(c, asked[c])

\* c has its answer and nothing of another request is on the way, or part of one has come,
\* b of it to the object.
Resting(c) ==
    Talk!Answered(c) /\ wire[c] = <<>> /\ (asked[c] > 0 => given[c] = Whole(c))
Asking(c, b) ==
    /\ asked[c] > 0 /\ told[c] = <<>>
    /\ Len(b) + Len(wire[c]) = given[c] /\ given[c] <= Whole(c)
Awaited(c, b) == (b = <<>> /\ Resting(c)) \/ Asking(c, b)

\* The request has come whole and s is what c was not told yet of its answer.
Due(c, fd, s) ==
    /\ asked[c] > 0 /\ wire[c] = <<>> /\ given[c] = Whole(c)
    /\ Len(told[c]) + Len(s) = Len(Talk!Pieces(Talk!Last(c).page))
    /\ \A i \in DOMAIN s : s[i] = Talk!Promised(c, Len(told[c]) + i)
    /\ \A i \in DOMAIN s : s[i].what = "content" => file[fd] = [client |-> c, nth |-> asked[c]]
    /\ users[fd].linger = Talk!Kept(c)

Fills(w, fd) == Serves(w, fd) /\ worker[w].pc = "fill"
Filled(fd) == \E w \in Workers : Fills(w, fd)

Speaks(fd) ==
    /\ AllOf(sock[fd], buf[fd]) /\ AllOf(sock[fd], wire[sock[fd]])
    /\ pieces[fd] # <<>> => Due(sock[fd], fd, pieces[fd])
    /\ \A w \in Workers : Fills(w, fd) =>
          made[w] # <<>> /\ told[sock[fd]] = <<>> /\ Due(sock[fd], fd, made[w])
    /\ pieces[fd] = <<>> /\ ~Filled(fd) => Awaited(sock[fd], buf[fd])

\* Clients that were not accepted yet.
Newcomer(c) == phase[c] = "new" \/ c \in backlog

Newcomers ==
    /\ \A c \in Conns : phase[c] = "new" => c \notin backlog
    /\ \A c \in Conns : Newcomer(c) => c \notin live /\ left[c] = 0 /\ Awaited(c, <<>>)
                                       /\ AllOf(c, wire[c])

OwnNumbers == \A fd \in Fds : users[fd].sockfd \in {fd, None, Stdin}
OwnTimers == \A fd \in Fds : sock[fd] # None => userTimer[fd] = sock[fd]

TalkInv ==
    /\ IdleEmpty /\ OwnNumbers /\ OwnTimers /\ Newcomers
    /\ \A fd \in Fds : Unspoilt(fd) => OneHand(fd) /\ Steps(fd) /\ Speaks(fd)

\* What a step leaves alone.
SameClient(c) == /\ plan' = plan /\ asked'[c] = asked[c] /\ given'[c] = given[c]
                 /\ told'[c] = told[c] /\ wire'[c] = wire[c]
SameObject(fd) == /\ buf'[fd] = buf[fd] /\ pieces'[fd] = pieces[fd] /\ file'[fd] = file[fd]
                  /\ users'[fd].linger = users[fd].linger
SameHands(fd) == \A w \in Workers : Serves(w, fd) \/ Serves(w, fd)' =>
                    worker'[w] = worker[w] /\ made'[w] = made[w]
SamePlace(fd) == /\ users'[fd].sockfd = users[fd].sockfd /\ interest'[fd] = interest[fd]
                 /\ \A e \in batch' : e.fd = fd => e \in batch
                 /\ InQueue(fd)' => InQueue(fd)
                 /\ Once(fd) => Once(fd)'
SameSocket(fd) == sock'[fd] = sock[fd] /\ inbox'[sock[fd]] = inbox[sock[fd]]
                  /\ (phase[sock[fd]] = "shut" => phase'[sock[fd]] = "shut")

LEMMA OneHandKept ==
    ASSUME NEW fd \in Fds, OneHand(fd), SamePlace(fd), SameHands(fd)
    PROVE  OneHand(fd)'
<1>1. InBatch(fd)' => InBatch(fd) BY DEF SamePlace, InBatch
<1>2. Armed(fd)' <=> Armed(fd) BY DEF SamePlace, Armed
<1>3. InQueue(fd)' => InQueue(fd) BY DEF SamePlace
<1>4. \A w \in Workers : Serves(w, fd)' => Serves(w, fd) BY DEF SameHands, Serves
<1>5. Once(fd)' BY DEF SamePlace, OneHand
<1>6. users'[fd].sockfd = fd BY DEF SamePlace, OneHand
<1> QED BY <1>1, <1>2, <1>3, <1>4, <1>5, <1>6 DEF OneHand

LEMMA StepsKept ==
    ASSUME NEW fd \in Fds, Steps(fd), SamePlace(fd), SameHands(fd), SameSocket(fd),
           SameObject(fd), SameClient(sock[fd])
    PROVE  Steps(fd)'
<1>1. \A kind : Event(kind, fd) \in batch' => Event(kind, fd) \in batch
  BY DEF SamePlace, Event
<1>2. sock'[fd] = sock[fd] /\ inbox'[sock[fd]] = inbox[sock[fd]] BY DEF SameSocket
<1>3. pieces'[fd] = pieces[fd] BY DEF SameObject
<1>4. /\ interest'[fd] = "in" => pieces'[fd] = <<>>
      /\ interest'[fd] = "out" => pieces'[fd] # <<>>
      /\ InQueue(fd)' => pieces'[fd] = <<>>
  BY <1>3 DEF SamePlace, Steps
<1>5. /\ Event("in", fd) \in batch' => pieces'[fd] = <<>> /\ inbox'[sock'[fd]] > 0
      /\ Event("out", fd) \in batch' => pieces'[fd] # <<>>
      /\ Event("hup", fd) \in batch' => phase'[sock'[fd]] = "shut"
  BY <1>1, <1>2, <1>3 DEF Steps, SameSocket
<1>6. ASSUME NEW w \in Workers, Serves(w, fd)'
      PROVE  Serves(w, fd) /\ worker'[w] = worker[w]
  BY <1>6 DEF SameHands, Serves
<1>7. /\ (asked[sock[fd]])' = asked[sock[fd]]
      /\ Talk!Last(sock[fd])' = Talk!Last(sock[fd])
  BY <1>2 DEF SameClient, Talk!Last
<1> QED BY <1>2, <1>3, <1>4, <1>5, <1>6, <1>7 DEF Steps

LEMMA AllOfKept ==
    ASSUME NEW c, SameClient(c), NEW s, AllOf(c, s)
    PROVE  AllOf(c, s)'
BY DEF SameClient, AllOf, Segment

LEMMA AwaitedKept ==
    ASSUME NEW c, SameClient(c), NEW s, Awaited(c, s)
    PROVE  Awaited(c, s)'
<1>1. /\ Talk!Last(c)' = Talk!Last(c) /\ Talk!Answered(c)' = Talk!Answered(c)
  BY DEF SameClient, Talk!Last, Talk!Answered
<1>2. Resting(c) => Resting(c)' BY <1>1 DEF SameClient, Resting, Whole
<1>3. Asking(c, s) => Asking(c, s)' BY <1>1 DEF SameClient, Asking, Whole
<1> QED BY <1>2, <1>3 DEF Awaited

LEMMA DueKept ==
    ASSUME NEW c, SameClient(c), NEW fd \in Fds, NEW s, Due(c, fd, s),
           file'[fd] = file[fd], users'[fd].linger = users[fd].linger
    PROVE  Due(c, fd, s)'
<1>1. /\ Talk!Last(c)' = Talk!Last(c) /\ Talk!Kept(c)' = Talk!Kept(c)
  BY DEF SameClient, Talk!Last, Talk!Kept
<1>2. \A n : Talk!Promised(c, n)' = Talk!Promised(c, n)
  BY <1>1 DEF SameClient, Talk!Promised
<1> QED BY <1>1, <1>2 DEF SameClient, Due, Whole

LEMMA SpeaksSame ==
    ASSUME NEW fd \in Fds, Speaks(fd), SameSocket(fd), SameObject(fd), SameClient(sock[fd]),
           \A w \in Workers : Fills(w, fd)' <=> Fills(w, fd),
           \A w \in Workers : Fills(w, fd) => made'[w] = made[w]
    PROVE  Speaks(fd)'
<1>1. PICK c : c = sock[fd] OBVIOUS
<1>2. sock'[fd] = c /\ SameClient(c) BY <1>1 DEF SameSocket
<1>3. PICK b : b = buf[fd] OBVIOUS
<1>4. PICK s : s = pieces[fd] OBVIOUS
<1>5. buf'[fd] = b /\ pieces'[fd] = s BY <1>3, <1>4 DEF SameObject
<1>6. PICK t : t = wire[c] OBVIOUS
<1>7. wire'[c] = t BY <1>2, <1>6 DEF SameClient
<1>8. AllOf(c, b)' /\ AllOf(c, t)' BY <1>1, <1>2, <1>3, <1>6, AllOfKept DEF Speaks
<1>9. s # <<>> => Due(c, fd, s)' BY <1>1, <1>2, <1>4, DueKept DEF Speaks, SameObject
<1>10. \A w \in Workers : (Fills(w, fd)' <=> Fills(w, fd))
  OBVIOUS
<1>11. ASSUME NEW w \in Workers, Fills(w, fd)'
       PROVE  made'[w] # <<>> /\ told'[c] = <<>> /\ Due(c, fd, made[w])'
  <2>1. Fills(w, fd) /\ made'[w] = made[w] BY <1>10, <1>11
  <2>2. made[w] # <<>> /\ told[c] = <<>> /\ Due(c, fd, made[w]) BY <1>1, <2>1 DEF Speaks
  <2>3. PICK m : m = made[w] OBVIOUS
  <2>4. Due(c, fd, m)' BY <1>2, <2>2, <2>3, DueKept DEF SameObject
  <2> QED BY <1>2, <2>1, <2>2, <2>3, <2>4 DEF SameClient
<1>12. Filled(fd)' <=> Filled(fd) BY <1>10 DEF Filled
<1>13. s = <<>> /\ ~Filled(fd)' => Awaited(c, b)'
  BY <1>1, <1>2, <1>3, <1>4, <1>12, AwaitedKept DEF Speaks
<1> QED BY <1>2, <1>5, <1>7, <1>8, <1>9, <1>11, <1>13 DEF Speaks

LEMMA SpeaksKept ==
    ASSUME NEW fd \in Fds, Speaks(fd), SameHands(fd), SameSocket(fd), SameObject(fd),
           SameClient(sock[fd])
    PROVE  Speaks(fd)'
<1>1. /\ \A w \in Workers : Fills(w, fd)' <=> Fills(w, fd)
      /\ \A w \in Workers : Fills(w, fd) => made'[w] = made[w]
  BY DEF SameHands, Fills, Serves
<1> QED BY <1>1, SpeaksSame

Untouched(fd) == /\ SamePlace(fd) /\ SameHands(fd) /\ SameSocket(fd) /\ SameObject(fd)
                 /\ SameClient(sock[fd])

LEMMA UntouchedKept ==
    ASSUME TalkInv, NEW fd \in Fds, Unspoilt(fd)', spoilt \subseteq spoilt', Untouched(fd)
    PROVE  OneHand(fd)' /\ Steps(fd)' /\ Speaks(fd)'
<1>1. Unspoilt(fd) BY DEF Unspoilt, Untouched, SameSocket
<1>2. OneHand(fd) /\ Steps(fd) /\ Speaks(fd) BY <1>1 DEF TalkInv
<1> QED BY <1>2, OneHandKept, StepsKept, SpeaksKept DEF Untouched

LEMMA NewcomersKept ==
    ASSUME Newcomers, \A c \in Conns : phase'[c] = "new" => c \notin backlog',
           \A c \in Conns : Newcomer(c)' =>
               Newcomer(c) /\ c \notin live' /\ left'[c] = 0 /\ SameClient(c)
    PROVE  Newcomers'
<1> SUFFICES ASSUME NEW c \in Conns, Newcomer(c)'
             PROVE  c \notin live' /\ left'[c] = 0 /\ Awaited(c, <<>>)' /\ AllOf(c, wire[c])'
  BY DEF Newcomers
<1>1. Awaited(c, <<>>) /\ AllOf(c, wire[c]) /\ SameClient(c) BY DEF Newcomers
<1>2. PICK t : t = wire[c] OBVIOUS
<1>3. wire'[c] = t BY <1>1, <1>2 DEF SameClient
<1>4. AllOf(c, t)' BY <1>1, <1>2, AllOfKept
<1>5. PICK e : e = <<>> OBVIOUS
<1>6. Awaited(c, e)' BY <1>1, <1>5, AwaitedKept
<1> QED BY <1>3, <1>4, <1>5, <1>6

\* Each connection has one descriptor, and no client one before it is accepted.
LEMMA OneDescriptor ==
    ASSUME MainInv, TalkInv
    PROVE  /\ \A f, g \in Fds : sock[f] = sock[g] /\ sock[f] # None => f = g
           /\ \A c \in Conns, f \in Fds : Newcomer(c) => sock[f] # c
<1>1. ASSUME NEW f \in Fds, sock[f] # None
      PROVE  userTimer[f] = sock[f] /\ sock[f] \in live /\ timerFd[sock[f]] = f
  BY <1>1 DEF MainInv, TimerAlive, TalkInv, OwnTimers
<1>2. \A f, g \in Fds : sock[f] = sock[g] /\ sock[f] # None => f = g BY <1>1
<1>3. ASSUME NEW c \in Conns, NEW f \in Fds, Newcomer(c) PROVE sock[f] # c
  <2>1. c \notin live /\ c # None BY <1>3, Parameters DEF TalkInv, Newcomers
  <2> QED BY <1>1, <2>1
<1> QED BY <1>2, <1>3

\* An object reads and writes through its own descriptor or through none.
LEMMA OwnPeer ==
    ASSUME MainInv, TalkInv, NEW fd \in Fds
    PROVE  /\ Peer(fd) = None \/ Peer(fd) = sock[fd]
           /\ Unspoilt(fd) => Peer(fd) = sock[fd] /\ sock[fd] \in Conns
<1>1. users[fd].sockfd \in {fd, None, Stdin} BY DEF TalkInv, OwnNumbers
<1>2. Unspoilt(fd) => users[fd].sockfd = fd BY DEF TalkInv, OneHand
<1>3. sock[fd] \in Conns \cup {None} BY DEF MainInv, TypeOK
<1>4. Unspoilt(fd) => sock[fd] # None BY DEF Unspoilt
<1>5. None \notin Fds /\ Stdin \notin Fds BY Parameters
<1> QED BY <1>1, <1>2, <1>3, <1>4, <1>5 DEF Peer

-----------------------------------------------------------------------------
(* Steps of a conversation. *)

Excused(c) == \/ phase[c] = "shut"
              \/ left[c] = 0
              \/ asked[c] > 0 /\ plan[c][asked[c]].page = "empty"

\* The connection of c stays as it was, is made, or ends.
LineStep(c) ==
    \/ (phase'[c] = "new" <=> phase[c] = "new") /\ (Connected(c)' <=> Connected(c))
    \/ phase[c] = "new" /\ phase'[c] # "new" /\ Connected(c)'
    \/ /\ phase[c] # "new" /\ phase'[c] # "new" /\ Connected(c) /\ ~Connected(c)'
       /\ Excused(c) \/ (Talk!Answered(c)' /\ ~Talk!Kept(c)')

LEMMA SpeechStep ==
    ASSUME NEW c \in Conns, LineStep(c), plan' = plan,
           Talk!Ask(c) \/ Talk!Reply(c) \/ (asked'[c] = asked[c] /\ told'[c] = told[c])
    PROVE  Talk!Step(c)
BY DEF LineStep, Excused, Talk!Step, Talk!End

LEMMA QuietStep ==
    ASSUME NEW c \in Conns, LineStep(c), SameClient(c)
    PROVE  Talk!Step(c)
BY SpeechStep DEF SameClient

\* Connections that are not closed stay, when sockets change no other way.
LEMMA LineKept ==
    ASSUME NEW c \in Conns, phase'[c] = "new" <=> phase[c] = "new",
           c \in backlog' <=> c \in backlog,
           \A fd \in Fds : sock[fd] = c <=> sock'[fd] = c
    PROVE  LineStep(c)
BY DEF LineStep, Connected

\* Every request fits into m_read_buf: read_once() fails when it is full.
Fits == \A p \in Plans, c \in Conns : \A i \in DOMAIN p[c] :
            p[c][i].head + p[c][i].body <= BufSize

Talks == TalkInv' /\ (Fits => \A c \in Conns : c \notin spoilt' => Talk!Step(c))

\* Clients that connect, shut down or read.
LEMMA ClientTalks ==
    ASSUME Base, TalkInv, OtherClient
    PROVE  Talks
<1>1. /\ UNCHANGED <<plan, asked, given, wire, buf, checked, file, made, pieces, told, spoilt>>
      /\ UNCHANGED <<sock, interest, users, worker, batch, m_workqueue, inbox, live, left,
                     userTimer>>
  BY DEF OtherClient, data, asking, object, Connect, Shut, Drain, epoll, timers, loop
<1>2. PICK d \in Conns : Connect(d) \/ Shut(d) \/ Drain(d) BY DEF OtherClient
<1>3. phase \in [Conns -> {"new", "open", "shut"}] /\ backlog \subseteq Conns
  BY DEF Base, MainInv, TypeOK
<1>4. /\ \A c \in Conns : phase[c] = "shut" => phase'[c] = "shut"
      /\ \A c \in Conns : phase'[c] = "new" => phase[c] = "new"
      /\ \A c \in Conns : c \in backlog' => Newcomer(c)
      /\ \A c \in Conns : phase'[c] = "new" => c \notin backlog'
  BY <1>2, <1>3 DEF Connect, Shut, Drain, Newcomer, TalkInv, Newcomers
<1>5. \A c : SameClient(c) BY <1>1 DEF SameClient
<1>6. Newcomers'
  BY <1>1, <1>4, <1>5, NewcomersKept DEF Newcomer, TalkInv, Newcomers
<1>7. ASSUME NEW fd \in Fds, Unspoilt(fd)' PROVE OneHand(fd)' /\ Steps(fd)' /\ Speaks(fd)'
  <2>1. sock[fd] \in Conns BY <1>1, <1>7 DEF Unspoilt, Base, MainInv, TypeOK
  <2>2. SamePlace(fd) /\ SameHands(fd) /\ SameObject(fd)
    BY <1>1 DEF SamePlace, SameHands, SameObject, InQueue, Once
  <2>3. SameSocket(fd) BY <1>1, <1>4, <2>1 DEF SameSocket
  <2> QED BY <1>1, <1>5, <1>7, <2>2, <2>3, UntouchedKept DEF Untouched
<1>8. IdleEmpty' /\ OwnNumbers' /\ OwnTimers'
  BY <1>1 DEF TalkInv, IdleEmpty, OwnNumbers, OwnTimers
<1>9. ASSUME NEW c \in Conns PROVE Talk!Step(c)
  <2>1. CASE Connect(d)
    <3>1. phase[d] = "new" /\ phase' = [phase EXCEPT ![d] = "open"]
          /\ backlog' = backlog \cup {d}
      BY <2>1 DEF Connect
    <3>2. CASE c = d
      <4>1. LineStep(c) BY <1>3, <3>1, <3>2 DEF LineStep, Connected
      <4> QED BY <1>5, <4>1, QuietStep
    <3>3. CASE c # d
      <4>1. LineStep(c) BY <1>1, <1>3, <3>1, <3>3, LineKept
      <4> QED BY <1>5, <4>1, QuietStep
    <3> QED BY <3>2, <3>3
  <2>2. CASE Shut(d) \/ Drain(d)
    <3>1. /\ phase'[c] = "new" <=> phase[c] = "new"
          /\ backlog' = backlog
      BY <1>3, <2>2 DEF Shut, Drain
    <3>2. LineStep(c) BY <1>1, <3>1, LineKept
    <3> QED BY <1>5, <3>2, QuietStep
  <2> QED BY <1>2, <2>1, <2>2
<1> QED BY <1>6, <1>7, <1>8, <1>9 DEF Talks, TalkInv

-----------------------------------------------------------------------------
\* What the end of an unspoilt connection takes: a cause, and nothing left to say.
Farewell(c) ==
    /\ plan' = plan
    /\ Excused(c) \/ (Talk!Answered(c)' /\ ~Talk!Kept(c)')
    /\ Talk!Reply(c) \/ (asked'[c] = asked[c] /\ told'[c] = told[c])

SameNeighbour(fd) == /\ SamePlace(fd) /\ SameHands(fd) /\ SameObject(fd)
                     /\ inbox'[sock[fd]] = inbox[sock[fd]]

\* A step that closes the sockets of S, or none, and leaves the other conversations alone.
LEMMA Closings ==
    ASSUME Base, TalkInv, NEW S, spoilt \subseteq spoilt', UNCHANGED <<phase, backlog, userTimer>>,
           \A fd \in Fds : sock'[fd] = IF fd \in S THEN None ELSE sock[fd],
           IdleEmpty', OwnNumbers',
           \A fd \in Fds \ S : Unspoilt(fd)' => SameNeighbour(fd),
           \A c \in Conns : Newcomer(c) => c \notin live' /\ left'[c] = 0,
           \A c \in Conns : (\A fd \in Fds \cap S : sock[fd] # c) => SameClient(c),
           Fits => \A fd \in Fds \cap S :
                       Unspoilt(fd) /\ sock[fd] \notin spoilt' => Farewell(sock[fd])
    PROVE  Talks
<1>1. OwnTimers' BY DEF TalkInv, OwnTimers
<1>2. ASSUME NEW c \in Conns, \A fd \in Fds \cap S : sock[fd] # c PROVE SameClient(c)
  BY <1>2
<1>3. Newcomers'
  <2>1. \A c \in Conns : Newcomer(c)' <=> Newcomer(c) BY DEF Newcomer
  <2>2. \A c \in Conns, fd \in Fds : Newcomer(c) => sock[fd] # c BY OneDescriptor DEF Base
  <2>3. \A c \in Conns : Newcomer(c)' => Newcomer(c) /\ SameClient(c) BY <1>2, <2>1, <2>2
  <2> QED BY <2>1, <2>3, NewcomersKept DEF TalkInv, Newcomers
<1>4. ASSUME NEW fd \in Fds, Unspoilt(fd)' PROVE OneHand(fd)' /\ Steps(fd)' /\ Speaks(fd)'
  <2>1. fd \notin S /\ sock'[fd] = sock[fd] /\ sock[fd] # None BY <1>4 DEF Unspoilt
  <2>2. sock[fd] \in Conns BY <2>1 DEF Base, MainInv, TypeOK
  <2>3. \A g \in Fds \cap S : sock[g] # sock[fd] BY <2>1, OneDescriptor DEF Base
  <2>4. SameClient(sock[fd]) BY <1>2, <2>2, <2>3
  <2>5. SameNeighbour(fd) BY <1>4, <2>1
  <2>6. SameSocket(fd) BY <2>1, <2>5 DEF SameSocket, SameNeighbour
  <2> QED BY <1>4, <2>4, <2>5, <2>6, UntouchedKept DEF Untouched, SameNeighbour
<1>5. ASSUME Fits, NEW c \in Conns, c \notin spoilt' PROVE Talk!Step(c)
  <2>1. CASE \A fd \in Fds \cap S : sock[fd] # c
    <3>1. SameClient(c) BY <1>2, <2>1
    <3>2. c # None BY Parameters
    <3>3. LineStep(c) BY <2>1, <3>2, LineKept
    <3> QED BY <3>1, <3>3, QuietStep
  <2>2. ASSUME NEW fd \in Fds \cap S, sock[fd] = c PROVE Talk!Step(c)
    <3>1. c # None BY Parameters
    <3>2. Unspoilt(fd) BY <1>5, <2>2, <3>1 DEF Unspoilt
    <3>3. Farewell(c) BY <1>5, <2>2, <3>2
    <3>4. phase[c] # "new" /\ c \notin backlog
      BY <2>2, OneDescriptor DEF Base, Newcomer
    <3>5. \A g \in Fds : sock'[g] # c BY <2>2, <3>1, OneDescriptor DEF Base
    <3>6. Connected(c) /\ ~Connected(c)' BY <2>2, <3>4, <3>5 DEF Connected
    <3>7. LineStep(c) BY <3>3, <3>4, <3>6 DEF LineStep, Farewell
    <3> QED BY <3>3, <3>7, SpeechStep DEF Farewell
  <2> QED BY <2>1, <2>2
<1> QED BY <1>1, <1>3, <1>4, <1>5 DEF Talks, TalkInv

-----------------------------------------------------------------------------
\* What DealTimer() closes and which timers it leaves.
LEMMA DealTimerCloses ==
    ASSUME Base, TalkInv, NEW fd \in Fds, DealTimer(fd)
    PROVE  /\ \A g \in Fds : sock'[g] = IF g \in {fd} THEN None ELSE sock[g]
           /\ \A g \in Fds \ {fd} : interest'[g] = interest[g]
           /\ userTimer' = userTimer
           /\ \A c \in Conns : Newcomer(c) => c \notin live' /\ left'[c] = 0
<1>1. left \in [Conns -> 0..Life] BY DEF Base, MainInv, TypeOK
<1>2. live' \subseteq live /\ left' = [left EXCEPT ![userTimer[fd]] = 0]
  BY DEF DealTimer, TS!Del
<1>3. \A c \in Conns : Newcomer(c) => c \notin live' /\ left'[c] = 0
  BY <1>1, <1>2 DEF TalkInv, Newcomers
<1> QED BY <1>3 DEF DealTimer, CloseAll

\* The main thread: events without an object, and a client that hung up.
LEMMA NoObjectTalks ==
    ASSUME Base, TalkInv, AcceptFails \/ DealWithSignal \/ TimeAndSignals, UNCHANGED data
    PROVE  Talks
<1>1. /\ UNCHANGED <<plan, asked, given, wire, buf, checked, file, made, pieces, told, spoilt>>
      /\ UNCHANGED <<sock, interest, users, worker, m_workqueue, inbox, live, phase, backlog,
                     userTimer>>
      /\ batch' \subseteq batch
  BY DEF data, asking, object, AcceptFails, DealWithSignal, TimeAndSignals, Clock, SigAlrm,
         SigTerm, net, epoll, timers, loop, TS!Pass
<1>2. \A c : SameClient(c) BY <1>1 DEF SameClient
<1>3. \A fd : SameNeighbour(fd)
  BY <1>1 DEF SameNeighbour, SamePlace, SameHands, SameObject, InQueue, Once
<1>4. IdleEmpty' /\ OwnNumbers' BY <1>1 DEF TalkInv, IdleEmpty, OwnNumbers
<1>5. \A c \in Conns : Newcomer(c) => c \notin live' /\ left'[c] = 0
  <2>1. left' = left \/ left' = [c \in Conns |-> IF left[c] > 0 THEN left[c] - 1 ELSE 0]
    BY DEF AcceptFails, DealWithSignal, TimeAndSignals, Clock, SigAlrm, SigTerm, timers, TS!Pass
  <2> QED BY <1>1, <2>1 DEF TalkInv, Newcomers
<1>6. PICK S : S = {} OBVIOUS
<1>7. /\ \A fd \in Fds : sock'[fd] = IF fd \in S THEN None ELSE sock[fd]
      /\ Fds \cap S = {} /\ spoilt \subseteq spoilt'
  BY <1>1, <1>6
<1> QED BY <1>1, <1>2, <1>3, <1>4, <1>5, <1>7, Closings

LEMMA HangUpTalks ==
    ASSUME Base, TalkInv, NEW fd \in Fds, HangUp(fd), UNCHANGED data
    PROVE  Talks
<1>1. /\ UNCHANGED <<plan, asked, given, wire, buf, checked, file, made, pieces, told, spoilt>>
      /\ UNCHANGED <<users, worker, m_workqueue, inbox, phase, backlog>>
      /\ batch' \subseteq batch /\ DealTimer(fd) /\ Event("hup", fd) \in batch
  BY DEF data, asking, object, HangUp, net
<1>2. \A c : SameClient(c) BY <1>1 DEF SameClient
<1>3. \A g \in Fds \ {fd} : SameNeighbour(g)
  BY <1>1, DealTimerCloses DEF SameNeighbour, SamePlace, SameHands, SameObject, InQueue, Once
<1>4. IdleEmpty' /\ OwnNumbers' BY <1>1 DEF TalkInv, IdleEmpty, OwnNumbers
<1>5. ASSUME NEW g \in Fds \cap {fd}, Unspoilt(g) PROVE Farewell(sock[g])
  <2>1. phase[sock[fd]] = "shut" BY <1>1, <1>5 DEF TalkInv, Steps
  <2> QED BY <1>1, <2>1 DEF Farewell, Excused
<1> QED BY <1>1, <1>2, <1>3, <1>4, <1>5, DealTimerCloses, Closings

\* epoll_wait() moves what was armed to the batch.
LEMMA WaitTalks ==
    ASSUME Base, TalkInv, EpollWait, UNCHANGED data
    PROVE  Talks
<1>1. /\ UNCHANGED <<plan, asked, given, wire, buf, checked, file, made, pieces, told, spoilt>>
      /\ UNCHANGED <<sock, users, worker, m_workqueue, inbox, live, left, phase, backlog,
                     userTimer>>
      /\ batch' = Ready /\ interest' = Oneshot
  BY DEF data, asking, object, EpollWait, timers
<1>2. \A c : SameClient(c) BY <1>1 DEF SameClient
<1>3. /\ IdleEmpty' /\ OwnNumbers' /\ OwnTimers'
      /\ \A c \in Conns : Newcomer(c)' <=> Newcomer(c)
  BY <1>1 DEF TalkInv, IdleEmpty, OwnNumbers, OwnTimers, Newcomer
<1>4. Newcomers' BY <1>1, <1>2, <1>3, NewcomersKept DEF TalkInv, Newcomers
<1>5. ASSUME NEW c \in Conns PROVE Talk!Step(c)
  <2>1. LineStep(c) BY <1>1, LineKept
  <2> QED BY <1>2, <2>1, QuietStep
<1>6. ASSUME NEW fd \in Fds, Unspoilt(fd)' PROVE OneHand(fd)' /\ Steps(fd)' /\ Speaks(fd)'
  <2>1. OneHand(fd) /\ Steps(fd) /\ Speaks(fd) BY <1>1, <1>6 DEF TalkInv, Unspoilt
  <2>2. interest \in [Fds -> {"none", "off", "in", "out"}] BY DEF Base, MainInv, TypeOK
  <2>3. /\ Occurred(fd) => interest[fd] \in {"in", "out"} /\ interest'[fd] = "off"
        /\ ~Occurred(fd) => interest'[fd] = interest[fd]
    BY <1>1, <2>2 DEF Occurred, Oneshot
  <2>4. ASSUME NEW e \in batch', e.fd = fd
        PROVE  /\ Occurred(fd)
               /\ e = Event(IF phase[sock[fd]] = "shut" THEN "hup" ELSE interest[fd], fd)
    <3>1. e # ListenEvent /\ e # SignalEvent
      BY <2>4, Parameters DEF ListenEvent, SignalEvent
    <3>2. PICK g \in {f \in Fds : Occurred(f)} :
             e = Event(IF phase[sock[g]] = "shut" THEN "hup" ELSE interest[g], g)
      BY <1>1, <3>1 DEF Ready
    <3>3. g = fd BY <2>4, <3>2 DEF Event
    <3> QED BY <3>2, <3>3
  <2>5. OneHand(fd)'
    <3>1. InBatch(fd)' => Armed(fd) /\ ~Armed(fd)' BY <2>3, <2>4 DEF InBatch, Armed
    <3>2. Armed(fd)' => Armed(fd) /\ ~InBatch(fd)' BY <2>3, <3>1 DEF Armed
    <3>3. (InQueue(fd)' <=> InQueue(fd)) /\ (Once(fd)' <=> Once(fd)) BY <1>1 DEF InQueue, Once
    <3>4. \A w : Serves(w, fd)' <=> Serves(w, fd) BY <1>1 DEF Serves
    <3>5. users'[fd].sockfd = fd BY <1>1, <2>1 DEF OneHand
    <3> QED BY <2>1, <3>1, <3>2, <3>3, <3>4, <3>5 DEF OneHand
  <2>6. Steps(fd)'
    <3>1. /\ interest'[fd] = "in" => pieces'[fd] = <<>>
          /\ interest'[fd] = "out" => pieces'[fd] # <<>>
      BY <1>1, <2>1, <2>3 DEF Steps
    <3>2. ASSUME NEW kind, Event(kind, fd) \in batch'
          PROVE  kind = IF phase[sock[fd]] = "shut" THEN "hup" ELSE interest[fd]
      <4>1. Event(kind, fd).fd = fd BY DEF Event
      <4>2. Event(kind, fd) = Event(IF phase[sock[fd]] = "shut" THEN "hup" ELSE interest[fd], fd)
        BY <2>4, <3>2, <4>1
      <4> QED BY <4>2 DEF Event
    <3>3. ASSUME NEW kind, Event(kind, fd) \in batch' PROVE Occurred(fd)
      <4>1. Event(kind, fd).fd = fd BY DEF Event
      <4> QED BY <2>4, <3>3, <4>1
    <3>4. Event("in", fd) \in batch' => pieces'[fd] = <<>> /\ inbox'[sock'[fd]] > 0
      <4>1. SUFFICES ASSUME Event("in", fd) \in batch'
                     PROVE  pieces'[fd] = <<>> /\ inbox'[sock'[fd]] > 0
        OBVIOUS
      <4>2. phase[sock[fd]] # "shut" /\ interest[fd] = "in" BY <3>2, <4>1
      <4>3. inbox[sock[fd]] > 0 BY <3>3, <4>1, <4>2 DEF Occurred
      <4> QED BY <1>1, <2>1, <4>2, <4>3 DEF Steps
    <3>5. Event("out", fd) \in batch' => pieces'[fd] # <<>>
      <4>1. Event("out", fd) \in batch' => interest[fd] = "out" BY <3>2
      <4> QED BY <1>1, <2>1, <4>1 DEF Steps
    <3>6. Event("hup", fd) \in batch' => phase'[sock'[fd]] = "shut"
      <4>1. Event("hup", fd) \in batch' => phase[sock[fd]] = "shut"
        BY <2>2, <3>2
      <4> QED BY <1>1, <4>1
    <3>7. InQueue(fd)' => pieces'[fd] = <<>> BY <1>1, <2>1 DEF Steps, InQueue
    <3>8. \A w \in Workers : (Serves(w, fd)' <=> Serves(w, fd)) /\ worker'[w] = worker[w]
      BY <1>1 DEF Serves
    <3>9. (asked[sock[fd]])' = asked[sock[fd]] /\ Talk!Last(sock[fd])' = Talk!Last(sock[fd])
      BY <1>1 DEF Talk!Last
    <3> QED BY <1>1, <2>1, <3>1, <3>4, <3>5, <3>6, <3>7, <3>8, <3>9 DEF Steps
  <2>7. Speaks(fd)'
    <3>1. SameHands(fd) /\ SameObject(fd) /\ SameSocket(fd)
      BY <1>1 DEF SameHands, SameObject, SameSocket
    <3> QED BY <1>2, <2>1, <3>1, SpeaksKept
  <2> QED BY <2>5, <2>6, <2>7
<1> QED BY <1>3, <1>4, <1>5, <1>6 DEF Talks, TalkInv

\* A client is turned away, before it was accepted.
LEMMA BusyTalks ==
    ASSUME Base, TalkInv, ServerBusy, UNCHANGED data
    PROVE  Talks
<1>1. /\ UNCHANGED <<plan, asked, given, wire, buf, checked, file, made, pieces, told, spoilt>>
      /\ UNCHANGED <<sock, interest, users, worker, m_workqueue, inbox, live, left, phase,
                     userTimer>>
      /\ batch' \subseteq batch
  BY DEF data, asking, object, ServerBusy, epoll, timers
<1>2. PICK d \in backlog : backlog' = backlog \ {d} BY DEF ServerBusy
<1>3. d \in Conns BY <1>2 DEF Base, MainInv, TypeOK
<1>4. \A c : SameClient(c) BY <1>1 DEF SameClient
<1>5. /\ IdleEmpty' /\ OwnNumbers' /\ OwnTimers'
      /\ \A c \in Conns : Newcomer(c)' => Newcomer(c)
  BY <1>1, <1>2 DEF TalkInv, IdleEmpty, OwnNumbers, OwnTimers, Newcomer
<1>6. Newcomers' BY <1>1, <1>2, <1>4, <1>5, NewcomersKept DEF TalkInv, Newcomers
<1>7. ASSUME NEW fd \in Fds, Unspoilt(fd)' PROVE OneHand(fd)' /\ Steps(fd)' /\ Speaks(fd)'
  <2>1. SamePlace(fd) /\ SameHands(fd) /\ SameObject(fd) /\ SameSocket(fd)
    BY <1>1 DEF SamePlace, SameHands, SameObject, SameSocket, InQueue, Once
  <2> QED BY <1>1, <1>4, <1>7, <2>1, UntouchedKept DEF Untouched
<1>8. ASSUME NEW c \in Conns PROVE Talk!Step(c)
  <2>1. CASE c = d
    <3>1. Newcomer(c) /\ phase[c] # "new" BY <1>2, <2>1 DEF Newcomer, TalkInv, Newcomers
    <3>2. left[c] = 0 /\ \A fd \in Fds : sock[fd] # c
      BY <3>1, OneDescriptor DEF Base, TalkInv, Newcomers
    <3>3. Connected(c) /\ ~Connected(c)' BY <1>1, <1>2, <2>1, <3>2 DEF Connected
    <3>4. LineStep(c) BY <1>1, <3>1, <3>2, <3>3 DEF LineStep, Excused
    <3> QED BY <1>4, <3>4, QuietStep
  <2>2. CASE c # d
    <3>1. LineStep(c) BY <1>1, <1>2, <2>2, LineKept
    <3> QED BY <1>4, <3>1, QuietStep
  <2> QED BY <2>1, <2>2
<1> QED BY <1>5, <1>6, <1>7, <1>8 DEF Talks, TalkInv

-----------------------------------------------------------------------------
LEMMA PlanRequests ==
    ASSUME DataInv, NEW c \in Conns, NEW n \in Nat, n > 0, n <= Len(plan[c])
    PROVE  /\ plan[c][n] \in Request
           /\ plan[c][n].head \in Nat \ {0} /\ plan[c][n].body \in Nat
           /\ plan[c][n].page \in Pages /\ plan[c][n].linger \in BOOLEAN
<1>1. plan[c] \in Seq(Request) BY Chap5Parameters DEF DataInv
<1>2. n \in DOMAIN plan[c] BY <1>1
<1>3. plan[c][n] \in Request BY <1>1, <1>2, ElementOfSeq
<1> QED BY <1>3 DEF Request

\* Where a request may go on or begin, no answer is under way.
LEMMA SendFits ==
    ASSUME Base, NEW c \in Conns, SendSegment(c), NEW b, Awaited(c, b), AllOf(c, b),
           AllOf(c, wire[c]), Len(b) \in Nat
    PROVE  Awaited(c, b)' /\ AllOf(c, b)' /\ AllOf(c, wire[c])'
<1>1. /\ asked \in [Conns -> Nat] /\ given \in [Conns -> Nat] /\ asked[c] <= Len(plan[c])
      /\ wire \in [Conns -> Seq(FromClients)] /\ plan' = plan
  BY DEF Base, DataInv, SendSegment
<1>2. /\ wire' = [wire EXCEPT ![c] = Append(@, Segment(c, asked'[c]))]
      /\ wire[c] \in Seq(FromClients)
  BY <1>1 DEF SendSegment
<1> DEFINE x == Segment(c, asked'[c])
<1>3. wire'[c] = Append(wire[c], x) BY <1>1, <1>2
<1>4. /\ Len(wire'[c]) = Len(wire[c]) + 1 /\ Len(wire[c]) \in Nat
      /\ \A i \in DOMAIN wire'[c] : wire'[c][i] = x \/ (i \in DOMAIN wire[c] /\ wire'[c][i] = wire[c][i])
  BY <1>2, <1>3
<1>5. CASE /\ asked[c] > 0 /\ given[c] < plan[c][asked[c]].head + plan[c][asked[c]].body
           /\ given' = [given EXCEPT ![c] = @ + 1] /\ UNCHANGED <<asked, told>>
  <2>1. Whole(c) \in Nat /\ Whole(c)' = Whole(c) /\ given[c] < Whole(c)
    BY <1>1, <1>5, PlanRequests DEF Base, Whole, Talk!Last
  <2>2. given'[c] = given[c] + 1 /\ given[c] \in Nat BY <1>1, <1>5
  <2>3. Asking(c, b) BY <1>5, <2>1, <2>2 DEF Awaited, Resting
  <2>4. Asking(c, b)' BY <1>4, <1>5, <2>1, <2>2, <2>3 DEF Asking
  <2>5. AllOf(c, b)' BY <1>5 DEF AllOf, Segment
  <2>6. AllOf(c, wire[c])' BY <1>4, <1>5 DEF AllOf, Segment
  <2> QED BY <2>4, <2>5, <2>6 DEF Awaited
<1>6. CASE /\ Talk!MayAsk(c) /\ asked' = [asked EXCEPT ![c] = @ + 1]
           /\ given' = [given EXCEPT ![c] = 1] /\ told' = [told EXCEPT ![c] = <<>>]
  <2>1. /\ Talk!Answered(c) /\ asked'[c] = asked[c] + 1 /\ asked[c] < Len(plan[c])
        /\ given'[c] = 1 /\ told'[c] = <<>> /\ asked[c] \in Nat
    BY <1>1, <1>6 DEF Talk!MayAsk, Base, DataInv
  <2>2. ~Asking(c, b) BY <2>1 DEF Asking, Talk!Answered
  <2>3. b = <<>> /\ wire[c] = <<>> BY <2>2 DEF Awaited, Resting
  <2>4. 1 <= Whole(c)'
    <3>1. /\ plan[c][asked[c] + 1].head \in Nat \ {0} /\ plan[c][asked[c] + 1].body \in Nat
      BY <1>1, <2>1, PlanRequests DEF Base
    <3> QED BY <1>1, <2>1, <3>1 DEF Whole, Talk!Last
  <2>5. Len(b) = 0 /\ Len(wire'[c]) = 1 BY <1>4, <2>3
  <2>6. Asking(c, b)' BY <2>1, <2>4, <2>5 DEF Asking
  <2>7. AllOf(c, b)' BY <2>3 DEF AllOf
  <2>8. DOMAIN wire[c] = {} BY <2>3
  <2>9. AllOf(c, wire[c])' BY <1>4, <2>8 DEF AllOf
  <2> QED BY <2>6, <2>7, <2>9 DEF Awaited
<1> QED BY <1>5, <1>6 DEF SendSegment

\* A client sends a part of a request.
LEMMA SendTalks ==
    ASSUME Base, TalkInv, NEW c \in Conns, SendSegment(c)
    PROVE  Talks
<1>1. /\ UNCHANGED <<plan, buf, checked, file, made, pieces, spoilt>>
      /\ UNCHANGED <<sock, interest, users, worker, batch, m_workqueue, live, left, phase,
                     backlog, userTimer>>
      /\ inbox' = [inbox EXCEPT ![c] = @ + 1]
      /\ wire' = [wire EXCEPT ![c] = Append(@, Segment(c, asked'[c]))]
  BY DEF SendSegment, object, Send, epoll, timers, loop
<1>2. /\ asked \in [Conns -> Nat] /\ given \in [Conns -> Nat] /\ told \in [Conns -> Seq(Piece)]
      /\ wire \in [Conns -> Seq(FromClients)] /\ inbox \in [Conns -> Nat] /\ c # None
      /\ \A fd \in Fds : buf[fd] \in Seq(FromClients)
  BY Parameters DEF Base, DataInv, MainInv, TypeOK
<1>3. \/ /\ asked[c] > 0 /\ given[c] < Whole(c)
         /\ given' = [given EXCEPT ![c] = @ + 1] /\ UNCHANGED <<asked, told>>
      \/ /\ Talk!MayAsk(c) /\ asked' = [asked EXCEPT ![c] = @ + 1]
         /\ given' = [given EXCEPT ![c] = 1] /\ told' = [told EXCEPT ![c] = <<>>]
  BY DEF SendSegment, Whole, Talk!Last
<1>4. \A d \in Conns : d # c => SameClient(d) BY <1>1, <1>2, <1>3 DEF SameClient
<1>5. IdleEmpty' /\ OwnNumbers' /\ OwnTimers'
  BY <1>1 DEF TalkInv, IdleEmpty, OwnNumbers, OwnTimers
<1>6. Newcomers'
  <2>1. \A d \in Conns : Newcomer(d)' <=> Newcomer(d) BY <1>1 DEF Newcomer
  <2>2. \A d \in Conns : phase'[d] = "new" => d \notin backlog' BY <1>1 DEF TalkInv, Newcomers
  <2> SUFFICES ASSUME NEW d \in Conns, Newcomer(d)
               PROVE  d \notin live' /\ left'[d] = 0 /\ Awaited(d, <<>>)' /\ AllOf(d, wire[d])'
    BY <2>1, <2>2 DEF Newcomers
  <2>3. d \notin live' /\ left'[d] = 0 /\ Awaited(d, <<>>) /\ AllOf(d, wire[d])
    BY <1>1 DEF TalkInv, Newcomers
  <2>4. PICK e : e = <<>> OBVIOUS
  <2>5. CASE d = c
    <3>1. AllOf(d, e) /\ Len(e) \in Nat BY <2>4 DEF AllOf
    <3> QED BY <2>3, <2>4, <2>5, <3>1, SendFits
  <2>6. CASE d # c
    <3>1. SameClient(d) BY <1>4, <2>6
    <3>2. PICK t : t = wire[d] OBVIOUS
    <3>3. wire'[d] = t BY <3>1, <3>2 DEF SameClient
    <3>4. AllOf(d, t)' BY <2>3, <3>1, <3>2, AllOfKept
    <3>5. Awaited(d, e)' BY <2>3, <2>4, <3>1, AwaitedKept
    <3> QED BY <2>3, <2>4, <3>3, <3>4, <3>5
  <2> QED BY <2>5, <2>6
<1>7. ASSUME NEW fd \in Fds, Unspoilt(fd)', sock[fd] # c
      PROVE  OneHand(fd)' /\ Steps(fd)' /\ Speaks(fd)'
  <2>1. sock[fd] \in Conns BY <1>1, <1>7 DEF Unspoilt, Base, MainInv, TypeOK
  <2>2. SamePlace(fd) /\ SameHands(fd) /\ SameObject(fd)
    BY <1>1 DEF SamePlace, SameHands, SameObject, InQueue, Once
  <2>3. SameSocket(fd) BY <1>1, <1>2, <1>7, <2>1 DEF SameSocket
  <2> QED BY <1>1, <1>4, <1>7, <2>1, <2>2, <2>3, UntouchedKept DEF Untouched
<1>8. ASSUME NEW fd \in Fds, Unspoilt(fd)', sock[fd] = c
      PROVE  OneHand(fd)' /\ Steps(fd)' /\ Speaks(fd)'
  <2>1. OneHand(fd) /\ Steps(fd) /\ Speaks(fd) BY <1>1, <1>8 DEF TalkInv, Unspoilt
  <2>2. SamePlace(fd) /\ SameHands(fd)
    BY <1>1 DEF SamePlace, SameHands, InQueue, Once
  <2>3. Talk!MayAsk(c) =>
          /\ asked[c] = 0 \/ (told[c] # <<>> /\ Len(told[c]) = Len(Talk!Pieces(Talk!Last(c).page)))
          /\ asked[c] \in Nat /\ Len(told[c]) \in Nat
    BY <1>2 DEF Talk!MayAsk, Talk!Answered
  <2>4. pieces[fd] = <<>>
    <3> SUFFICES ASSUME pieces[fd] # <<>> PROVE FALSE
      OBVIOUS
    <3>1. pieces[fd] \in Seq(Piece) BY DEF Base, DataInv
    <3>2. /\ asked[c] > 0 /\ given[c] = Whole(c)
          /\ Len(told[c]) + Len(pieces[fd]) = Len(Talk!Pieces(Talk!Last(c).page))
      BY <1>8, <2>1 DEF Speaks, Due
    <3>3. given[c] \in Nat /\ Len(told[c]) \in Nat BY <1>2
    <3>4. Len(pieces[fd]) # 0 /\ Len(pieces[fd]) \in Nat BY <3>1, EmptySeq
    <3>5. ~(given[c] < Whole(c)) BY <3>2, <3>3
    <3>6. Talk!MayAsk(c) BY <1>3, <3>5
    <3>7. asked[c] # 0 BY <3>2
    <3>8. Len(told[c]) = Len(told[c]) + Len(pieces[fd]) BY <2>3, <3>2, <3>6, <3>7
    <3>9. \A m, n \in Nat : m = m + n => n = 0 OBVIOUS
    <3> QED BY <3>3, <3>4, <3>8, <3>9, Zenon
  <2>5. ~Filled(fd)
    <3> SUFFICES ASSUME NEW w \in Workers, Fills(w, fd) PROVE FALSE
      BY DEF Filled
    <3>1. told[c] = <<>> /\ asked[c] > 0 /\ given[c] = Whole(c) BY <1>8, <2>1 DEF Speaks, Due
    <3>2. given[c] \in Nat BY <1>2
    <3> QED BY <1>3, <2>3, <3>1, <3>2
  <2>6. \A w \in Workers : Fills(w, fd)' <=> Fills(w, fd) BY <1>1 DEF Fills, Serves
  <2>7. ~Filled(fd)' BY <2>5, <2>6 DEF Filled
  <2>8. OneHand(fd)' BY <2>1, <2>2, OneHandKept
  <2>9. PICK b : b = buf[fd] OBVIOUS
  <2>10. Awaited(c, b)' /\ AllOf(c, b)' /\ AllOf(c, wire[c])'
    <3>1. Awaited(c, b) /\ AllOf(c, b) /\ AllOf(c, wire[c])
      BY <1>8, <2>1, <2>4, <2>5, <2>9 DEF Speaks
    <3>2. Len(b) \in Nat BY <1>2, <2>9
    <3> QED BY <3>1, <3>2, SendFits
  <2>11. Speaks(fd)' BY <1>1, <1>8, <2>4, <2>6, <2>5, <2>7, <2>9, <2>10 DEF Speaks, Filled
  <2>12. Steps(fd)'
    <3>1. inbox'[c] = inbox[c] + 1 /\ inbox[c] \in Nat BY <1>1, <1>2
    <3>2. (inbox[c] > 0) => inbox'[c] > 0 BY <3>1
    <3>3. ASSUME NEW w \in Workers, Serves(w, fd), worker[w].pc = "close"
          PROVE  asked'[c] > 0 /\ Talk!Last(c)'.page = "empty"
      <4>1. asked[c] > 0 /\ Talk!Last(c).page = "empty" BY <1>8, <2>1, <3>3 DEF Steps
      <4>2. Len(Talk!Pieces(Talk!Last(c).page)) = 0 BY <4>1 DEF Talk!Pieces
      <4>3. ~Talk!MayAsk(c)
        <5> SUFFICES ASSUME Talk!MayAsk(c) PROVE FALSE
          OBVIOUS
        <5>1. told[c] # <<>> /\ Len(told[c]) = 0 BY <2>3, <4>1, <4>2
        <5>2. told[c] \in Seq(Piece) BY <1>2
        <5> QED BY <5>1, <5>2, EmptySeq
      <4>4. asked' = asked BY <1>3, <4>3
      <4> QED BY <1>1, <4>1, <4>4 DEF Talk!Last
    <3>4. /\ interest'[fd] = interest[fd] /\ pieces'[fd] = pieces[fd] /\ batch' = batch
          /\ worker' = worker /\ sock'[fd] = c /\ phase' = phase
          /\ InQueue(fd)' <=> InQueue(fd)
          /\ \A w : Serves(w, fd)' <=> Serves(w, fd)
      BY <1>1, <1>8 DEF InQueue, Serves
    <3> QED BY <1>8, <2>1, <3>2, <3>3, <3>4 DEF Steps
  <2> QED BY <2>8, <2>11, <2>12
<1>9. ASSUME NEW d \in Conns PROVE Talk!Step(d)
  <2>1. LineStep(d) BY <1>1, LineKept
  <2>2. CASE d # c BY <1>4, <2>1, <2>2, QuietStep
  <2>3. CASE d = c
    <3>1. Talk!Ask(c) \/ (asked'[c] = asked[c] /\ told'[c] = told[c])
      BY <1>2, <1>3 DEF Talk!Ask
    <3> QED BY <1>1, <2>1, <2>3, <3>1, SpeechStep
  <2> QED BY <2>2, <2>3
<1> QED BY <1>5, <1>6, <1>7, <1>8, <1>9 DEF Talks, TalkInv

-----------------------------------------------------------------------------
\* A step that handles the connection at fd and leaves the others alone.
LEMMA Handlings ==
    ASSUME Base, TalkInv, NEW fd \in Fds, spoilt \subseteq spoilt',
           UNCHANGED <<plan, phase, backlog, userTimer, sock>>, IdleEmpty', OwnNumbers',
           \A c \in Conns : Newcomer(c) => c \notin live' /\ left'[c] = 0,
           \A g \in Fds \ {fd} : Unspoilt(g)' => SameNeighbour(g),
           \A c \in Conns : c # sock[fd] => SameClient(c),
           Unspoilt(fd)' => /\ OneHand(fd)' /\ Steps(fd)' /\ Speaks(fd)'
                            /\ \/ Talk!Reply(sock[fd])
                               \/ asked'[sock[fd]] = asked[sock[fd]] /\ told'[sock[fd]] = told[sock[fd]]
    PROVE  Talks
<1>1. OwnTimers' BY DEF TalkInv, OwnTimers
<1>2. Newcomers'
  <2>1. \A c \in Conns : Newcomer(c)' <=> Newcomer(c) BY DEF Newcomer
  <2>2. \A c \in Conns : Newcomer(c) => sock[fd] # c BY OneDescriptor DEF Base
  <2>3. \A c \in Conns : Newcomer(c)' => Newcomer(c) /\ SameClient(c) BY <2>1, <2>2
  <2> QED BY <2>1, <2>3, NewcomersKept DEF TalkInv, Newcomers
<1>3. ASSUME NEW g \in Fds, g # fd, Unspoilt(g)'
      PROVE  OneHand(g)' /\ Steps(g)' /\ Speaks(g)'
  <2>1. sock[g] \in Conns /\ sock[g] # None BY <1>3 DEF Unspoilt, Base, MainInv, TypeOK
  <2>2. sock[g] # sock[fd] BY <1>3, <2>1, OneDescriptor DEF Base
  <2>3. SameClient(sock[g]) BY <2>1, <2>2
  <2>4. SameNeighbour(g) BY <1>3
  <2>5. SameSocket(g) BY <2>4 DEF SameSocket, SameNeighbour
  <2> QED BY <1>3, <2>3, <2>4, <2>5, UntouchedKept DEF Untouched, SameNeighbour
<1>4. ASSUME NEW c \in Conns, c \notin spoilt' PROVE Talk!Step(c)
  <2>1. LineStep(c) BY LineKept
  <2>2. CASE c # sock[fd] BY <2>1, <2>2, QuietStep
  <2>3. CASE c = sock[fd]
    <3>1. c # None BY Parameters
    <3>2. Unspoilt(fd)' BY <1>4, <2>3, <3>1 DEF Unspoilt
    <3>3. Talk!Reply(c) \/ (asked'[c] = asked[c] /\ told'[c] = told[c]) BY <2>3, <3>2
    <3> QED BY <2>1, <3>3, SpeechStep
  <2> QED BY <2>2, <2>3
<1> QED BY <1>1, <1>2, <1>3, <1>4 DEF Talks, TalkInv

-----------------------------------------------------------------------------
(* The workers. *)

LEMMA WorkerHolds ==
    ASSUME Base, NEW w \in Workers
    PROVE  worker[w] \in WorkerType /\ (worker[w].pc # "idle" => worker[w].fd \in Fds)
BY DEF Base, MainInv, TypeOK, WorkerHasRequest, WorkerType

\* A worker that has fd, or takes or leaves it, is at no other descriptor.
LEMMA Elsewhere ==
    ASSUME NEW w \in Workers, NEW fd \in Fds, NEW g \in Fds \ {fd},
           worker[w].fd \in {fd, None}, worker'[w].fd \in {fd, None},
           \A v \in Workers \ {w} : worker'[v] = worker[v] /\ made'[v] = made[v]
    PROVE  SameHands(g)
<1>1. None \notin Fds BY Parameters
<1> QED BY <1>1 DEF SameHands, Serves

\* What a step of a worker outside process() leaves alone.
LEMMA WorkLeaves ==
    ASSUME Base, TalkInv, NEW w \in Workers, OtherWork(w)
    PROVE  /\ UNCHANGED <<plan, asked, given, wire, buf, checked, file, made, pieces, told, spoilt>>
           /\ UNCHANGED <<batch, inbox, live, left, phase, backlog, userTimer>>
           /\ \A c \in Conns : SameClient(c)
           /\ \A c \in Conns : Newcomer(c) => c \notin live' /\ left'[c] = 0
<1>1. /\ UNCHANGED <<plan, asked, given, wire, buf, checked, file, made, pieces, told, spoilt>>
      /\ UNCHANGED <<batch, inbox, live, left, phase, backlog, userTimer>>
  BY DEF OtherWork, data, asking, object, Take, CloseConn, Forget, LoadCount, StoreCount, Rearm,
         net, timers, loop
<1> QED BY <1>1 DEF SameClient, TalkInv, Newcomers

LEMMA TakeTalks ==
    ASSUME Base, TalkInv, NEW w \in Workers, Take(w), UNCHANGED data
    PROVE  Talks
<1>1. /\ UNCHANGED <<plan, asked, given, wire, buf, checked, file, made, pieces, told, spoilt>>
      /\ UNCHANGED <<batch, inbox, live, left, phase, backlog, userTimer>>
      /\ \A c \in Conns : SameClient(c)
      /\ \A c \in Conns : Newcomer(c) => c \notin live' /\ left'[c] = 0
  BY WorkLeaves DEF OtherWork
<1>0. PICK q : q = m_workqueue OBVIOUS
<1>2. q \in Seq(Fds) /\ q # <<>> /\ m_workqueue = q /\ m_workqueue' = Tail(q)
  BY <1>0 DEF Base, MainInv, TypeOK, Take
<1>3. PICK fd \in Fds : fd = Head(q) /\ InQueue(fd) BY <1>2, QueueTake DEF InQueue
<1>4. worker[w].pc = "idle" /\ worker[w].fd = None BY DEF Take, TalkInv, IdleEmpty
<1>5. /\ \A v \in Workers \ {w} : worker'[v] = worker[v]
      /\ worker'[w].fd = fd /\ worker'[w].pc = "parse"
  <2>1. ~Reactor BY Chap5Parameters DEF Base, MainInv, TypeOK, Reactor
  <2>2. worker' = [worker EXCEPT ![w] = [Idle EXCEPT !.fd = fd, !.pc = "parse"]]
    BY <1>2, <1>3, <2>1 DEF Take
  <2>3. worker \in [Workers -> WorkerType] BY DEF Base, MainInv, TypeOK, WorkerType
  <2> QED BY <2>2, <2>3 DEF Idle
<1>6. UNCHANGED <<sock, interest, users>> BY DEF Take, epoll
<1>7. \A g \in Fds \ {fd} : SameNeighbour(g)
  <2> SUFFICES ASSUME NEW g \in Fds \ {fd} PROVE SameNeighbour(g)
    OBVIOUS
  <2>1. SameHands(g) BY <1>1, <1>3, <1>4, <1>5, Elsewhere
  <2>2. InQueue(g)' => InQueue(g) BY <1>2, QueueTake DEF InQueue
  <2>3. Once(g) => Once(g)'
    <3>1. \A i \in DOMAIN Tail(q) : i + 1 \in DOMAIN q /\ Tail(q)[i] = q[i + 1] /\ i \in Nat
      BY <1>2
    <3> QED BY <1>2, <3>1 DEF Once
  <2> QED BY <1>1, <1>6, <2>1, <2>2, <2>3 DEF SameNeighbour, SamePlace, SameObject
<1>8. IdleEmpty' /\ OwnNumbers'
  BY <1>5, <1>6 DEF TalkInv, IdleEmpty, OwnNumbers
<1>9. ASSUME Unspoilt(fd)' PROVE OneHand(fd)' /\ Steps(fd)' /\ Speaks(fd)'
  <2>1. OneHand(fd) /\ Steps(fd) /\ Speaks(fd)
    BY <1>1, <1>3, <1>6, <1>9 DEF TalkInv, Unspoilt
  <2>2. ~Armed(fd) /\ ~InBatch(fd) /\ \A v \in Workers : ~Serves(v, fd)
    BY <1>3, <2>1 DEF OneHand
  <2>3. Once(fd) BY <2>1 DEF OneHand
  <2>4. ~InQueue(fd)'
    <3>1. \A i \in DOMAIN Tail(q) : i + 1 \in DOMAIN q /\ Tail(q)[i] = q[i + 1] /\ i \in Nat \ {0}
      BY <1>2
    <3>2. 1 \in DOMAIN q /\ q[1] = fd BY <1>2, <1>3
    <3>3. \A i \in DOMAIN Tail(q) : q[i + 1] = fd => i + 1 = 1
      BY <1>2, <2>3, <3>1, <3>2 DEF Once
    <3> QED BY <1>2, <3>1, <3>3 DEF InQueue
  <2>5. ~Armed(fd)' /\ ~InBatch(fd)' BY <1>1, <1>6, <2>2 DEF Armed, InBatch
  <2>6. \A v \in Workers : Serves(v, fd)' => v = w BY <1>5, <2>2 DEF Serves
  <2>7. OneHand(fd)' BY <1>6, <2>1, <2>4, <2>5, <2>6 DEF OneHand, Once, InQueue
  <2>8. SameObject(fd) /\ SameSocket(fd) BY <1>1, <1>6 DEF SameObject, SameSocket
  <2>9. sock[fd] \in Conns
    BY <1>1, <1>3, <1>6, <1>9 DEF Unspoilt, Base, MainInv, TypeOK
  <2>10. Speaks(fd)'
    <3>1. \A v \in Workers : ~Fills(v, fd) /\ ~Fills(v, fd)'
      BY <1>5, <2>2, <2>6 DEF Fills
    <3> QED BY <1>1, <1>3, <2>1, <2>8, <2>9, <3>1, SpeaksSame
  <2>11. Steps(fd)'
    <3>1. pieces[fd] = <<>> BY <1>3, <2>1 DEF Steps
    <3>2. \A e \in batch' : e.fd # fd BY <2>5 DEF InBatch
    <3>3. \A kind : Event(kind, fd) \notin batch' BY <3>2 DEF Event
    <3>4. interest'[fd] \notin {"in", "out"} BY <2>5 DEF Armed
    <3> QED BY <1>1, <1>5, <2>4, <2>6, <3>1, <3>3, <3>4 DEF Steps
  <2> QED BY <2>7, <2>10, <2>11
<1> QED BY <1>1, <1>3, <1>6, <1>7, <1>8, <1>9, Handlings

LEMMA CloseTalks ==
    ASSUME Base, TalkInv, NEW w \in Workers, CloseConn(w), UNCHANGED data
    PROVE  Talks
<1>1. /\ UNCHANGED <<plan, asked, given, wire, buf, checked, file, made, pieces, told, spoilt>>
      /\ UNCHANGED <<batch, inbox, live, left, phase, backlog, userTimer>>
      /\ \A c \in Conns : SameClient(c)
      /\ \A c \in Conns : Newcomer(c) => c \notin live' /\ left'[c] = 0
  BY WorkLeaves DEF OtherWork
<1>2. UNCHANGED <<users, m_workqueue>> /\ worker[w].pc = "close" BY DEF CloseConn
<1>3. worker[w].fd \in Fds /\ worker[w] \in WorkerType BY <1>2, WorkerHolds
<1>4. PICK fd \in Fds : fd = worker[w].fd BY <1>3
<1>5. PICK s : s = users[fd].sockfd OBVIOUS
<1>6. s \in {fd, None, Stdin} BY <1>5 DEF TalkInv, OwnNumbers
<1>7. /\ \A v \in Workers \ {w} : worker'[v] = worker[v]
      /\ worker'[w].fd = fd /\ worker'[w].pc # "idle"
  <2>1. worker \in [Workers -> WorkerType] BY DEF Base, MainInv, TypeOK, WorkerType
  <2>2. PICK pc \in {"rearmOut", "forget"} : worker' = [worker EXCEPT ![w].pc = pc]
    BY DEF CloseConn, Goto
  <2>3. worker'[w] = [worker[w] EXCEPT !.pc = pc] BY <2>1, <2>2
  <2>4. pc \in WorkerPCs BY DEF WorkerPCs
  <2> QED BY <1>3, <1>4, <2>1, <2>2, <2>3, <2>4, WorkerFields
<1>8. IdleEmpty' /\ OwnNumbers' BY <1>2, <1>7 DEF TalkInv, IdleEmpty, OwnNumbers
<1>9. \A g \in Fds \ {fd} : SameHands(g) BY <1>1, <1>4, <1>7, Elsewhere
<1>10. \A g \in Fds \ {fd} : interest'[g] = interest[g] => SameNeighbour(g)
  BY <1>1, <1>2, <1>9 DEF SameNeighbour, SamePlace, SameObject, InQueue, Once
<1>11. Unspoilt(fd) => s = fd BY <1>5 DEF TalkInv, OneHand
<1>12. CASE s = None
  <2>1. UNCHANGED <<sock, interest>> BY <1>4, <1>5, <1>12 DEF CloseConn, epoll
  <2>2. ~Unspoilt(fd)' BY <1>1, <1>11, <1>12, <2>1, Parameters DEF Unspoilt
  <2> QED BY <1>1, <1>8, <1>10, <2>1, <2>2, Handlings
<1>13. CASE s # None
  <2>1. CloseAll({s}) BY <1>4, <1>5, <1>13 DEF CloseConn
  <2>2. \A g \in Fds \ {s} : Unspoilt(g)' => SameNeighbour(g)
    <3> SUFFICES ASSUME NEW g \in Fds \ {s}, Unspoilt(g)' PROVE SameNeighbour(g)
      OBVIOUS
    <3>1. interest \in [Fds -> {"none", "off", "in", "out"}] BY DEF Base, MainInv, TypeOK
    <3>2. interest'[g] = interest[g] /\ sock'[g] = sock[g] BY <2>1, <3>1 DEF CloseAll
    <3>3. g # fd BY <1>1, <1>11, <3>2 DEF Unspoilt
    <3> QED BY <1>10, <3>2, <3>3
  <2>3. \A g \in Fds \cap {s} : Unspoilt(g) => Farewell(sock[g])
    <3> SUFFICES ASSUME s \in Fds, Unspoilt(s) PROVE Farewell(sock[s])
      OBVIOUS
    <3>1. s = fd BY <1>6, Parameters
    <3>2. Steps(fd) /\ Serves(w, fd) BY <1>4, <3>1 DEF TalkInv, Serves
    <3>3. asked[sock[fd]] > 0 /\ Talk!Last(sock[fd]).page = "empty" BY <1>2, <3>2 DEF Steps
    <3> QED BY <1>1, <3>1, <3>3 DEF Farewell, Excused, Talk!Last
  <2>4. \A g \in Fds : sock'[g] = IF g \in {s} THEN None ELSE sock[g] BY <2>1 DEF CloseAll
  <2> QED BY <1>1, <1>8, <2>2, <2>3, <2>4, Closings
<1> QED BY <1>12, <1>13

\* The rest of close_conn(): the connection of this worker has ended, or is spoilt.
LEMMA ClosedTalks ==
    ASSUME Base, TalkInv, NEW w \in Workers, Forget(w) \/ LoadCount(w) \/ StoreCount(w),
           UNCHANGED data
    PROVE  Talks
<1>1. /\ UNCHANGED <<plan, asked, given, wire, buf, checked, file, made, pieces, told, spoilt>>
      /\ UNCHANGED <<batch, inbox, live, left, phase, backlog, userTimer>>
      /\ \A c \in Conns : SameClient(c)
      /\ \A c \in Conns : Newcomer(c) => c \notin live' /\ left'[c] = 0
  BY WorkLeaves DEF OtherWork
<1>2. /\ UNCHANGED <<sock, interest, m_workqueue>>
      /\ worker[w].pc \in {"forget", "load", "store"}
  BY DEF Forget, LoadCount, StoreCount, epoll
<1>3. worker[w].fd \in Fds /\ worker[w] \in WorkerType BY <1>2, WorkerHolds
<1>4. PICK fd \in Fds : fd = worker[w].fd BY <1>3
<1>5. users \in [Fds -> UserType] /\ worker \in [Workers -> WorkerType] /\ m_user_count \in Int
  BY DEF Base, MainInv, TypeOK, WorkerType
<1>6. /\ \A v \in Workers \ {w} : worker'[v] = worker[v]
      /\ worker'[w].fd = fd /\ worker'[w].pc # "idle"
  <2>1. CASE \E pc \in {"load", "rearmOut"} : worker' = [worker EXCEPT ![w].pc = pc]
    <3>1. PICK pc \in {"load", "rearmOut"} : worker' = [worker EXCEPT ![w].pc = pc] BY <2>1
    <3>2. worker'[w] = [worker[w] EXCEPT !.pc = pc] BY <1>5, <3>1
    <3>3. pc \in WorkerPCs BY DEF WorkerPCs
    <3> QED BY <1>3, <1>4, <1>5, <3>1, <3>2, <3>3, WorkerFields
  <2>2. CASE worker' = [worker EXCEPT ![w].pc = "store", ![w].load = m_user_count]
    <3>1. worker'[w] = [worker[w] EXCEPT !.pc = "store", !.load = m_user_count] BY <1>5, <2>2
    <3>2. worker'[w] = [pc |-> "store", fd |-> worker[w].fd, src |-> worker[w].src,
                        load |-> m_user_count]
      <4>1. "store" \in WorkerPCs BY DEF WorkerPCs
      <4> QED BY <1>3, <1>5, <3>1, <4>1, WorkerReadsCount
    <3> QED BY <1>4, <1>5, <2>2, <3>2
  <2> QED BY <2>1, <2>2 DEF Forget, LoadCount, StoreCount, Goto
<1>7. /\ \A g \in Fds \ {fd} : users'[g] = users[g]
      /\ users'[fd].sockfd \in {users[fd].sockfd, None}
  BY <1>4, <1>5 DEF Forget, LoadCount, StoreCount, UserType
<1>8. IdleEmpty' /\ OwnNumbers' BY <1>6, <1>7 DEF TalkInv, IdleEmpty, OwnNumbers
<1>9. \A g \in Fds \ {fd} : SameHands(g) BY <1>1, <1>4, <1>6, Elsewhere
<1>10. \A g \in Fds \ {fd} : SameNeighbour(g)
  BY <1>1, <1>2, <1>7, <1>9 DEF SameNeighbour, SamePlace, SameObject, InQueue, Once
<1>11. ~Unspoilt(fd)'
  <2>1. ~Unspoilt(fd) BY <1>2, <1>4 DEF TalkInv, Steps, Serves
  <2> QED BY <1>1, <1>2, <2>1 DEF Unspoilt
<1> QED BY <1>1, <1>2, <1>8, <1>10, <1>11, Handlings

\* modfd(), the end of process().
LEMMA RearmTalks ==
    ASSUME Base, TalkInv, NEW w \in Workers, Rearm(w), UNCHANGED data
    PROVE  Talks
<1>1. /\ UNCHANGED <<plan, asked, given, wire, buf, checked, file, made, pieces, told, spoilt>>
      /\ UNCHANGED <<batch, inbox, live, left, phase, backlog, userTimer>>
      /\ \A c \in Conns : SameClient(c)
      /\ \A c \in Conns : Newcomer(c) => c \notin live' /\ left'[c] = 0
  BY WorkLeaves DEF OtherWork
<1>2. /\ UNCHANGED <<sock, users, m_workqueue>>
      /\ worker[w].pc \in {"rearmIn", "rearmOut"}
  BY DEF Rearm
<1>3. worker[w].fd \in Fds /\ worker[w] \in WorkerType BY <1>2, WorkerHolds
<1>4. PICK fd \in Fds : fd = worker[w].fd BY <1>3
<1>5. PICK s : s = users[fd].sockfd OBVIOUS
<1>6. s \in {fd, None, Stdin} BY <1>5 DEF TalkInv, OwnNumbers
<1>7. PICK ev \in {"in", "out"} : /\ ev = IF worker[w].pc = "rearmIn" THEN "in" ELSE "out"
                                  /\ interest' = Modfd(interest, s, ev)
  BY <1>4, <1>5 DEF Rearm
<1>8. interest \in [Fds -> {"none", "off", "in", "out"}] /\ worker \in [Workers -> WorkerType]
  BY DEF Base, MainInv, TypeOK, WorkerType
<1>9. /\ \A v \in Workers \ {w} : worker'[v] = worker[v]
      /\ worker'[w] = Idle /\ worker'[w].fd = None /\ worker'[w].pc = "idle"
  BY <1>8 DEF Rearm, Idle
<1>10. /\ \A g \in Fds \ {fd} : interest'[g] = interest[g]
       /\ interest'[fd] \in {interest[fd], ev}
  BY <1>6, <1>7, <1>8, Parameters DEF Modfd
<1>11. IdleEmpty' /\ OwnNumbers' BY <1>2, <1>9 DEF TalkInv, IdleEmpty, OwnNumbers
<1>12. \A g \in Fds \ {fd} : SameHands(g) BY <1>1, <1>4, <1>9, Elsewhere
<1>13. \A g \in Fds \ {fd} : SameNeighbour(g)
  BY <1>1, <1>2, <1>10, <1>12 DEF SameNeighbour, SamePlace, SameObject, InQueue, Once
<1>14. ASSUME Unspoilt(fd)' PROVE OneHand(fd)' /\ Steps(fd)' /\ Speaks(fd)'
  <2>1. OneHand(fd) /\ Steps(fd) /\ Speaks(fd) BY <1>1, <1>2, <1>14 DEF TalkInv, Unspoilt
  <2>2. Serves(w, fd) BY <1>4 DEF Serves
  <2>3. ~Armed(fd) /\ ~InBatch(fd) /\ ~InQueue(fd) /\ \A v \in Workers : Serves(v, fd) => v = w
    BY <2>1, <2>2 DEF OneHand
  <2>4. \A v \in Workers : ~Serves(v, fd)' BY <1>9, <2>3, Parameters DEF Serves
  <2>5. ~InBatch(fd)' /\ ~InQueue(fd)' BY <1>1, <1>2, <2>3 DEF InBatch, InQueue
  <2>6. OneHand(fd)' BY <1>2, <2>1, <2>4, <2>5 DEF OneHand, Once
  <2>7. \A v \in Workers : ~Fills(v, fd) /\ ~Fills(v, fd)' BY <1>2, <2>3, <2>4 DEF Fills
  <2>8. SameObject(fd) /\ SameSocket(fd) BY <1>1, <1>2 DEF SameObject, SameSocket
  <2>9. sock[fd] \in Conns BY <1>1, <1>2, <1>14 DEF Unspoilt, Base, MainInv, TypeOK
  <2>10. Speaks(fd)' BY <1>1, <2>1, <2>7, <2>8, <2>9, SpeaksSame
  <2>11. Steps(fd)'
    <3>1. \A kind : Event(kind, fd) \notin batch' BY <2>5 DEF InBatch, Event
    <3>2. /\ ev = "in" => pieces'[fd] = <<>>
          /\ ev = "out" => pieces'[fd] # <<>>
      BY <1>1, <1>2, <1>7, <2>1, <2>2 DEF Steps
    <3>3. /\ interest'[fd] = "in" => pieces'[fd] = <<>>
          /\ interest'[fd] = "out" => pieces'[fd] # <<>>
      BY <1>10, <2>3, <3>2 DEF Armed
    <3> QED BY <2>4, <2>5, <3>1, <3>3 DEF Steps
  <2> QED BY <2>6, <2>10, <2>11
<1> QED BY <1>1, <1>2, <1>11, <1>13, <1>14, Handlings

LEMMA OtherWorkTalks ==
    ASSUME Base, TalkInv, NEW w \in Workers, OtherWork(w)
    PROVE  Talks
BY TakeTalks, CloseTalks, ClosedTalks, RearmTalks DEF OtherWork

\* The answer process_write() makes is the one the request was promised.
LEMMA AnswerPromised ==
    ASSUME Base, NEW c \in Conns, asked[c] > 0, NEW x, x = Segment(c, asked[c])
    PROVE  /\ RequestOf(x) = Talk!Last(c) /\ Whose(x) = [client |-> c, nth |-> asked[c]]
           /\ AnswerTo(x) \in Seq(Piece)
           /\ Len(AnswerTo(x)) = Len(Talk!Pieces(Talk!Last(c).page))
           /\ \A i \in DOMAIN AnswerTo(x) : AnswerTo(x)[i] = Talk!Promised(c, i)
           /\ \A i \in DOMAIN AnswerTo(x) :
                 AnswerTo(x)[i].what = "content" => ProcessRead(RequestOf(x)) = "FILE_REQUEST"
           /\ AnswerTo(x) = <<>> => Talk!Last(c).page = "empty"
           /\ KeepsAlive(RequestOf(x)) <=> Talk!Kept(c)
<1> DEFINE r == Talk!Last(c)
           parts == ProcessWrite(ProcessRead(r), r.page)
<1>1. RequestOf(x) = r /\ x.client = c /\ x.nth = asked[c]
  BY DEF RequestOf, Segment, Talk!Last
<1>2. asked[c] \in Nat /\ asked[c] <= Len(plan[c]) BY DEF Base, DataInv
<1>3. r \in Request /\ r.page \in Pages
  BY <1>2, PlanRequests DEF Base, Talk!Last
<1>4. x \in FromClients
  <2>1. plan[c] \in Seq(Request) BY Chap5Parameters DEF Base, DataInv
  <2>2. asked[c] \in DOMAIN plan[c] BY <1>2, <2>1
  <2> QED BY <1>2, <2>2 DEF FromClients, Segment
<1>5. AnswerTo(x) \in Seq(Piece) BY <1>4, AnswerPieces DEF Base
<1> HIDE DEF r
<1>6. /\ parts = Talk!Pieces(r.page)
      /\ parts \in {<<>>, <<"404">>, <<"403">>, <<"400">>, <<"header", "content">>}
      /\ r.page = "empty" <=> parts = <<>>
      /\ parts = <<"header", "content">> => ProcessRead(r) = "FILE_REQUEST"
  BY <1>3 DEF Pages, ProcessWrite, ProcessRead, Malformed, DoRequest, Talk!Pieces
<1> HIDE DEF parts
<1>7. AnswerTo(x) = [i \in DOMAIN parts |-> [client |-> c, nth |-> asked[c], what |-> parts[i]]]
  BY <1>1 DEF AnswerTo, parts
<1>8. Len(parts) = 0 => parts = <<>> BY <1>6
<1>9. DOMAIN parts = 1..Len(parts) /\ Len(parts) \in Nat BY <1>6
<1>10. Len(AnswerTo(x)) = Len(parts) BY <1>5, <1>7, <1>9
<1>11. \A i \in DOMAIN AnswerTo(x) : AnswerTo(x)[i] = Talk!Promised(c, i)
  BY <1>6, <1>7 DEF Talk!Promised, r
<1>12. \A i \in DOMAIN AnswerTo(x) : AnswerTo(x)[i].what = "content" => ProcessRead(r) = "FILE_REQUEST"
  <2> SUFFICES ASSUME NEW i \in DOMAIN parts, parts[i] = "content"
               PROVE  parts = <<"header", "content">>
    BY <1>6, <1>7
  <2> QED BY <1>6
<1>13. AnswerTo(x) = <<>> => r.page = "empty"
  <2> SUFFICES ASSUME AnswerTo(x) = <<>> PROVE r.page = "empty"
    OBVIOUS
  <2>1. Len(parts) = 0 BY <1>10
  <2> QED BY <1>6, <1>8, <2>1
<1>14. KeepsAlive(r) <=> Talk!Kept(c) BY DEF KeepsAlive, Malformed, Talk!Kept, r
<1> QED BY <1>1, <1>5, <1>6, <1>10, <1>11, <1>12, <1>13, <1>14 DEF Whose, r

\* The fields of the object that process_read() and process_write() assign, and the worker's
\* step.
LEMMA ProcessSteps ==
    ASSUME Base, NEW w \in Workers, Parse(w) \/ Fill(w)
    PROVE  /\ worker[w].fd \in Fds /\ worker'[w].fd = worker[w].fd
           /\ worker'[w].pc \in {"rearmIn", "rearmOut", "fill", "close"}
           /\ Fill(w) => worker'[w].pc = "rearmOut"
           /\ \A v \in Workers \ {w} : worker'[v] = worker[v]
           /\ \A g \in Fds \ {worker[w].fd} : users'[g] = users[g]
           /\ users'[worker[w].fd].sockfd = users[worker[w].fd].sockfd
           /\ worker'[w].pc # "fill" => users'[worker[w].fd].linger = users[worker[w].fd].linger
           /\ UNCHANGED <<sock, interest, batch, inbox, live, left, phase, backlog, userTimer,
                          m_workqueue>>
<1>1. UNCHANGED <<sock, interest, batch, inbox, live, left, phase, backlog, userTimer,
                  m_workqueue>>
  BY DEF Parse, Fill, net, epoll, timers, loop
<1>2. worker[w].fd \in Fds /\ worker[w] \in WorkerType
  <2>1. worker[w].pc # "idle" BY DEF Parse, Fill
  <2> QED BY <2>1, WorkerHolds
<1>3. PICK fd \in Fds : fd = worker[w].fd BY <1>2
<1>4. users \in [Fds -> UserType] /\ worker \in [Workers -> WorkerType]
  BY DEF Base, MainInv, TypeOK, WorkerType
<1>5. users[fd] \in UserType BY <1>4
<1>6. /\ \A g \in Fds \ {fd} : users'[g] = users[g]
      /\ users'[fd].sockfd = users[fd].sockfd
  <2>1. CASE \E keep \in KeepAlive : users' = [users EXCEPT ![fd].linger = keep]
    BY <1>4, <1>5, <2>1 DEF UserType
  <2>2. CASE \E n, c : users' = [users EXCEPT ![fd].out = n, ![fd].osrc = c]
    BY <1>4, <1>5, <2>2, SMTT(30) DEF UserType
  <2>3. users' = users \/ (\E keep \in KeepAlive : users' = [users EXCEPT ![fd].linger = keep])
           \/ \E n, c : users' = [users EXCEPT ![fd].out = n, ![fd].osrc = c]
    BY <1>3 DEF Parse, Fill
  <2> QED BY <2>1, <2>2, <2>3
<1>7. /\ \A v \in Workers \ {w} : worker'[v] = worker[v]
      /\ worker'[w].fd = fd /\ worker'[w].pc \in {"rearmIn", "rearmOut", "fill", "close"}
      /\ Fill(w) => worker'[w].pc = "rearmOut"
      /\ worker'[w].pc # "fill" /\ Parse(w) => users' = users
  <2>1. ASSUME NEW pc \in {"rearmIn", "rearmOut", "close"}, worker' = [worker EXCEPT ![w].pc = pc]
        PROVE  /\ \A v \in Workers \ {w} : worker'[v] = worker[v]
               /\ worker'[w].fd = fd /\ worker'[w].pc = pc
    <3>1. worker'[w] = [worker[w] EXCEPT !.pc = pc] BY <1>4, <2>1
    <3>2. pc \in WorkerPCs BY DEF WorkerPCs
    <3> QED BY <1>2, <1>3, <1>4, <2>1, <3>1, <3>2, WorkerFields
  <2>2. ASSUME NEW c \in Conns \cup {None}, worker' = [worker EXCEPT ![w].pc = "fill", ![w].src = c]
        PROVE  /\ \A v \in Workers \ {w} : worker'[v] = worker[v]
               /\ worker'[w].fd = fd /\ worker'[w].pc = "fill"
    <3>1. worker'[w] = [worker[w] EXCEPT !.pc = "fill", !.src = c] BY <1>4, <2>2
    <3>2. "fill" \in WorkerPCs BY DEF WorkerPCs
    <3>3. worker'[w] = [pc |-> "fill", fd |-> worker[w].fd, src |-> c, load |-> worker[w].load]
      BY <1>2, <3>1, <3>2, WorkerReadsSource
    <3> QED BY <1>3, <1>4, <2>2, <3>3
  <2>3. users[fd].src \in Conns \cup {None} BY <1>5 DEF UserType
  <2>4. Fill(w) => worker' = [worker EXCEPT ![w].pc = "rearmOut"] BY DEF Fill, Goto
  <2>5. Parse(w) =>
          \/ worker' = [worker EXCEPT ![w].pc = "rearmIn"] /\ users' = users
          \/ worker' = [worker EXCEPT ![w].pc = "close"] /\ users' = users
          \/ worker' = [worker EXCEPT ![w].pc = "fill", ![w].src = users[fd].src]
    BY <1>3 DEF Parse, Goto
  <2> QED BY <2>1, <2>2, <2>3, <2>4, <2>5
<1>8. Fill(w) => users'[fd].linger = users[fd].linger
  BY <1>3, <1>4, <1>5 DEF Fill, UserType
<1> QED BY <1>1, <1>3, <1>6, <1>7, <1>8

\* m_write_buf and m_iv are filled with the answer that was made.
LEMMA FillTalks ==
    ASSUME Base, TalkInv, NEW w \in Workers, FillAnswer(w)
    PROVE  Talks
<1>1. /\ UNCHANGED <<plan, asked, given, wire, buf, checked, file, told, spoilt>>
      /\ Fill(w) /\ worker[w].pc = "fill"
  BY DEF FillAnswer, asking, Fill
<1>2. PICK fd \in Fds : fd = worker[w].fd BY <1>1, ProcessSteps
<1>3. /\ worker'[w].fd = fd /\ worker'[w].pc = "rearmOut"
      /\ \A v \in Workers \ {w} : worker'[v] = worker[v]
      /\ \A g \in Fds \ {fd} : users'[g] = users[g]
      /\ users'[fd].sockfd = users[fd].sockfd /\ users'[fd].linger = users[fd].linger
      /\ UNCHANGED <<sock, interest, batch, inbox, live, left, phase, backlog, userTimer,
                     m_workqueue>>
  BY <1>1, <1>2, ProcessSteps
<1>4. PICK m : m = made[w] OBVIOUS
<1>5. /\ pieces'[fd] = m /\ \A g \in Fds \ {fd} : pieces'[g] = pieces[g]
      /\ \A v \in Workers \ {w} : made'[v] = made[v]
  BY <1>2, <1>4 DEF FillAnswer, Base, DataInv
<1>6. \A c \in Conns : SameClient(c) BY <1>1 DEF SameClient
<1>7. \A c \in Conns : Newcomer(c) => c \notin live' /\ left'[c] = 0
  BY <1>3 DEF TalkInv, Newcomers
<1>8. IdleEmpty' /\ OwnNumbers' BY <1>3 DEF TalkInv, IdleEmpty, OwnNumbers
<1>9. \A g \in Fds \ {fd} : SameHands(g) BY <1>2, <1>3, <1>5, Elsewhere
<1>10. \A g \in Fds \ {fd} : SameNeighbour(g)
  BY <1>1, <1>3, <1>5, <1>9 DEF SameNeighbour, SamePlace, SameObject, InQueue, Once
<1>11. ASSUME Unspoilt(fd)' PROVE OneHand(fd)' /\ Steps(fd)' /\ Speaks(fd)'
  <2>1. OneHand(fd) /\ Steps(fd) /\ Speaks(fd) BY <1>1, <1>3, <1>11 DEF TalkInv, Unspoilt
  <2>2. Serves(w, fd) /\ Fills(w, fd) BY <1>1, <1>2 DEF Serves, Fills
  <2>3. \A v \in Workers : Serves(v, fd)' <=> v = w
    BY <1>3, <2>1, <2>2 DEF OneHand, Serves
  <2>4. ~Armed(fd)' /\ ~InBatch(fd)' /\ ~InQueue(fd)'
    BY <1>3, <2>1, <2>2 DEF OneHand, Armed, InBatch, InQueue
  <2>5. OneHand(fd)' BY <1>3, <2>1, <2>3, <2>4 DEF OneHand, Once
  <2>6. PICK c \in Conns : c = sock[fd]
    BY <1>1, <1>3, <1>11 DEF Unspoilt, Base, MainInv, TypeOK
  <2>7. m # <<>> /\ Due(c, fd, m) /\ AllOf(c, buf[fd]) /\ AllOf(c, wire[c])
    BY <1>4, <2>1, <2>2, <2>6 DEF Speaks
  <2>8. Due(c, fd, m)' BY <1>1, <1>3, <1>6, <2>6, <2>7, DueKept
  <2>9. AllOf(c, buf[fd])' /\ AllOf(c, wire[c])' BY <1>1, <2>7 DEF AllOf, Segment
  <2>10. ~Filled(fd)' BY <1>3, <2>3 DEF Filled, Fills
  <2>11. Speaks(fd)' BY <1>3, <1>5, <2>6, <2>7, <2>8, <2>9, <2>10 DEF Speaks, Filled
  <2>12. Steps(fd)'
    <3>1. \A kind : Event(kind, fd) \notin batch' BY <2>4 DEF InBatch, Event
    <3>2. interest'[fd] \notin {"in", "out"} BY <2>4 DEF Armed
    <3> QED BY <1>3, <1>5, <2>3, <2>4, <2>7, <3>1, <3>2 DEF Steps
  <2> QED BY <2>5, <2>11, <2>12
<1> QED BY <1>1, <1>3, <1>6, <1>7, <1>8, <1>10, <1>11, Handlings

\* What process() finds in an unspoilt object: a part of the request that c makes, and when
\* it goes on to an answer, all of it.
LEMMA RequestFound ==
    ASSUME Base, TalkInv, NEW w \in Workers, worker[w].pc = "parse", NEW fd \in Fds,
           fd = worker[w].fd, Unspoilt(fd), NEW c \in Conns, c = sock[fd]
    PROVE  /\ pieces[fd] = <<>> /\ ~Filled(fd) /\ Awaited(c, buf[fd])
           /\ ~NoRequest(fd) => /\ Asking(c, buf[fd]) /\ wire[c] = <<>> /\ given[c] = Whole(c)
                                /\ Head(buf[fd]) = Segment(c, asked[c])
<1>1. OneHand(fd) /\ Steps(fd) /\ Speaks(fd) BY DEF TalkInv
<1>2. Serves(w, fd) BY DEF Serves
<1>3. pieces[fd] = <<>> /\ ~Filled(fd) BY <1>1, <1>2 DEF OneHand, Steps, Filled, Fills
<1>4. Awaited(c, buf[fd]) BY <1>1, <1>3 DEF Speaks
<1> SUFFICES ASSUME ~NoRequest(fd)
             PROVE  /\ Asking(c, buf[fd]) /\ wire[c] = <<>> /\ given[c] = Whole(c)
                    /\ Head(buf[fd]) = Segment(c, asked[c])
  BY <1>3, <1>4
<1>5. buf[fd] \in Seq(FromClients) /\ wire[c] \in Seq(FromClients) /\ buf[fd] # <<>>
  BY DEF Base, DataInv, NoRequest
<1>6. Asking(c, buf[fd]) BY <1>4, <1>5 DEF Awaited
<1>7. Head(buf[fd]) = Segment(c, asked[c])
  <2>1. 1 \in DOMAIN buf[fd] /\ Head(buf[fd]) = buf[fd][1] BY <1>5, EmptySeq
  <2> QED BY <1>1, <2>1 DEF Speaks, AllOf
<1>8. RequestOf(Head(buf[fd])) = Talk!Last(c) BY <1>7 DEF RequestOf, Segment, Talk!Last
<1>9. /\ Talk!Last(c).head \in Nat /\ Talk!Last(c).body \in Nat /\ given[c] \in Nat
      /\ checked[fd] \in Nat
  <2>1. /\ asked[c] \in Nat /\ asked[c] > 0 /\ asked[c] <= Len(plan[c])
        /\ given[c] \in Nat /\ checked[fd] \in Nat
    BY <1>6 DEF Base, DataInv, Asking
  <2> QED BY <2>1, PlanRequests DEF Base, Talk!Last
<1>10. Len(buf[fd]) \in Nat /\ Len(wire[c]) \in Nat BY <1>5
<1>11. ~(Len(buf[fd]) < BodyStart(fd, Talk!Last(c)) + Talk!Last(c).body)
  BY <1>8 DEF NoRequest
<1>12. BodyStart(fd, Talk!Last(c)) >= Talk!Last(c).head /\ BodyStart(fd, Talk!Last(c)) \in Nat
  BY <1>9 DEF BodyStart
<1>13. Len(buf[fd]) + Len(wire[c]) = given[c] /\ given[c] <= Whole(c) BY <1>6 DEF Asking
<1> DEFINE l == Len(buf[fd])
           k == Len(wire[c])
           s == BodyStart(fd, Talk!Last(c))
           h == Talk!Last(c).head
           b == Talk!Last(c).body
           g == given[c]
<1>14. l + k = g /\ g <= h + b BY <1>13 DEF Whole
<1>15. l \in Nat /\ k \in Nat /\ s \in Nat /\ h \in Nat /\ b \in Nat /\ g \in Nat
  BY <1>9, <1>10, <1>12
<1>16. ~(l < s + b) /\ s >= h BY <1>11, <1>12
<1> HIDE DEF l, k, s, h, b, g
<1>17. k = 0 /\ g = h + b BY <1>14, <1>15, <1>16
<1>18. wire[c] = <<>> BY <1>5, <1>17, EmptySeq DEF k
<1> QED BY <1>6, <1>7, <1>17, <1>18 DEF g, h, b, Whole

\* A worker looks at what has come, and makes the answer when that is a request.
LEMMA ParseTalks ==
    ASSUME Base, TalkInv, NEW w \in Workers, ParseRequest(w)
    PROVE  Talks
<1>1. /\ UNCHANGED <<plan, asked, given, wire, buf, pieces, told, spoilt>>
      /\ Parse(w) /\ worker[w].pc = "parse"
  BY DEF ParseRequest, asking, Parse
<1>2. PICK fd \in Fds : fd = worker[w].fd BY <1>1, ProcessSteps
<1>3. /\ worker'[w].fd = fd /\ worker'[w].pc \in {"rearmIn", "rearmOut", "fill", "close"}
      /\ \A v \in Workers \ {w} : worker'[v] = worker[v]
      /\ \A g \in Fds \ {fd} : users'[g] = users[g]
      /\ users'[fd].sockfd = users[fd].sockfd
      /\ worker'[w].pc # "fill" => users'[fd].linger = users[fd].linger
      /\ UNCHANGED <<sock, interest, batch, inbox, live, left, phase, backlog, userTimer,
                     m_workqueue>>
  BY <1>1, <1>2, ProcessSteps
<1>4. PICK x : x = Head(buf[fd]) OBVIOUS
<1>5. PICK a : a = AnswerTo(x) OBVIOUS
<1>6. \/ NoRequest(fd) /\ worker'[w].pc = "rearmIn" /\ UNCHANGED <<made, file>>
      \/ /\ ~NoRequest(fd)
         /\ worker'[w].pc = IF a = <<>> THEN "close" ELSE "fill"
         /\ worker'[w].pc = "fill" => users'[fd].linger = KeepsAlive(RequestOf(x))
         /\ made' = [made EXCEPT ![w] = a]
         /\ file' = IF ProcessRead(RequestOf(x)) = "FILE_REQUEST"
                    THEN [file EXCEPT ![fd] = Whose(x)] ELSE file
  BY <1>2, <1>4, <1>5 DEF ParseRequest
<1>7. /\ made \in [Workers -> Seq(Piece)]
      /\ file \in [Fds -> [client : Conns \cup {None}, nth : Nat]]
  BY DEF Base, DataInv
<1>8. /\ \A v \in Workers \ {w} : made'[v] = made[v]
      /\ \A g \in Fds \ {fd} : file'[g] = file[g]
  BY <1>6, <1>7
<1>9. \A c \in Conns : SameClient(c) BY <1>1 DEF SameClient
<1>10. \A c \in Conns : Newcomer(c) => c \notin live' /\ left'[c] = 0
  BY <1>3 DEF TalkInv, Newcomers
<1>11. IdleEmpty' /\ OwnNumbers' BY <1>3 DEF TalkInv, IdleEmpty, OwnNumbers
<1>12. \A g \in Fds \ {fd} : SameHands(g) BY <1>2, <1>3, <1>8, Elsewhere
<1>13. \A g \in Fds \ {fd} : SameNeighbour(g)
  BY <1>1, <1>3, <1>8, <1>12 DEF SameNeighbour, SamePlace, SameObject, InQueue, Once
<1>14. ASSUME Unspoilt(fd)' PROVE OneHand(fd)' /\ Steps(fd)' /\ Speaks(fd)'
  <2>1. Unspoilt(fd) BY <1>1, <1>3, <1>14 DEF Unspoilt
  <2>2. OneHand(fd) /\ Steps(fd) /\ Speaks(fd) BY <2>1 DEF TalkInv
  <2>3. PICK c \in Conns : c = sock[fd] BY <2>1 DEF Unspoilt, Base, MainInv, TypeOK
  <2>4. Serves(w, fd) BY <1>2 DEF Serves
  <2>5. \A v \in Workers : Serves(v, fd)' <=> v = w
    BY <1>3, <2>2, <2>4 DEF OneHand, Serves
  <2>6. ~Armed(fd)' /\ ~InBatch(fd)' /\ ~InQueue(fd)'
    BY <1>3, <2>2, <2>4 DEF OneHand, Armed, InBatch, InQueue
  <2>7. OneHand(fd)' BY <1>3, <2>2, <2>5, <2>6 DEF OneHand, Once
  <2>8. PICK b : b = buf[fd] OBVIOUS
  <2>9. /\ pieces[fd] = <<>> /\ ~Filled(fd) /\ Awaited(c, b)
        /\ ~NoRequest(fd) => /\ Asking(c, b) /\ wire[c] = <<>> /\ given[c] = Whole(c)
                             /\ x = Segment(c, asked[c])
    BY <1>1, <1>2, <1>4, <2>1, <2>3, <2>8, RequestFound
  <2>10. AllOf(c, b)' /\ AllOf(c, wire[c])' /\ Awaited(c, b)'
    <3>1. AllOf(c, b) /\ AllOf(c, wire[c]) BY <2>2, <2>3, <2>8 DEF Speaks
    <3>2. AllOf(c, b)' /\ AllOf(c, wire[c])' BY <1>1, <3>1 DEF AllOf, Segment
    <3> QED BY <1>9, <2>9, <3>2, AwaitedKept
  <2>11. ~NoRequest(fd) =>
           /\ asked[c] > 0 /\ told[c] = <<>>
           /\ RequestOf(x) = Talk!Last(c) /\ Whose(x) = [client |-> c, nth |-> asked[c]]
           /\ Len(a) = Len(Talk!Pieces(Talk!Last(c).page)) /\ Len(a) \in Nat
           /\ \A i \in DOMAIN a : i \in Nat
           /\ \A i \in DOMAIN a : a[i] = Talk!Promised(c, i)
           /\ \A i \in DOMAIN a : a[i].what = "content" => ProcessRead(RequestOf(x)) = "FILE_REQUEST"
           /\ a = <<>> => Talk!Last(c).page = "empty"
           /\ KeepsAlive(RequestOf(x)) <=> Talk!Kept(c)
    <3> SUFFICES ASSUME ~NoRequest(fd)
                 PROVE  /\ asked[c] > 0 /\ told[c] = <<>>
                        /\ RequestOf(x) = Talk!Last(c) /\ Whose(x) = [client |-> c, nth |-> asked[c]]
                        /\ a \in Seq(Piece) /\ Len(a) = Len(Talk!Pieces(Talk!Last(c).page))
                        /\ \A i \in DOMAIN a : a[i] = Talk!Promised(c, i)
                        /\ \A i \in DOMAIN a :
                              a[i].what = "content" => ProcessRead(RequestOf(x)) = "FILE_REQUEST"
                        /\ a = <<>> => Talk!Last(c).page = "empty"
                        /\ KeepsAlive(RequestOf(x)) <=> Talk!Kept(c)
      OBVIOUS
    <3>1. asked[c] > 0 /\ told[c] = <<>> /\ x = Segment(c, asked[c]) BY <2>9 DEF Asking
    <3> QED BY <1>5, <3>1, AnswerPromised
  <2>12. Steps(fd)'
    <3>1. \A kind : Event(kind, fd) \notin batch' BY <2>6 DEF InBatch, Event
    <3>2. interest'[fd] \notin {"in", "out"} BY <2>6 DEF Armed
    <3>3. worker'[w].pc # "rearmOut" BY <1>6
    <3>4. worker'[w].pc = "close" => asked'[c] > 0 /\ Talk!Last(c)'.page = "empty"
      BY <1>1, <1>6, <2>11 DEF Talk!Last
    <3> QED BY <1>1, <1>3, <2>3, <2>5, <2>6, <2>9, <3>1, <3>2, <3>3, <3>4 DEF Steps
  <2>13. ASSUME worker'[w].pc = "fill" PROVE Due(c, fd, a)' /\ a # <<>> /\ made'[w] = a /\ told'[c] = <<>>
    <3>1. /\ ~NoRequest(fd) /\ a # <<>> /\ made'[w] = a
          /\ users'[fd].linger = KeepsAlive(RequestOf(x))
          /\ ProcessRead(RequestOf(x)) = "FILE_REQUEST" => file'[fd] = Whose(x)
      BY <1>6, <1>7, <2>13
    <3>2. asked[c] > 0 /\ told[c] = <<>> /\ wire[c] = <<>> /\ given[c] = Whole(c)
      BY <2>9, <2>11, <3>1
    <3>3. Len(told[c]) = 0 BY <3>2
    <3>4. Talk!Last(c)' = Talk!Last(c) /\ Whole(c)' = Whole(c) BY <1>1 DEF Talk!Last, Whole
    <3>5. \A n : Talk!Promised(c, n)' = Talk!Promised(c, n) BY <1>1, <3>4 DEF Talk!Promised
    <3>7. \A i \in DOMAIN a : Len(told[c]) + i = i BY <2>11, <3>1, <3>3
    <3>8. Len(told[c]) + Len(a) = Len(Talk!Pieces(Talk!Last(c).page)) BY <2>11, <3>1, <3>3
    <3>9. \A i \in DOMAIN a : a[i] = Talk!Promised(c, Len(told[c]) + i) BY <2>11, <3>1, <3>7
    <3>10. \A i \in DOMAIN a : a[i].what = "content" => file'[fd] = [client |-> c, nth |-> asked[c]]
      BY <2>11, <3>1
    <3>11. users'[fd].linger = Talk!Kept(c)
      <4>1. KeepsAlive(RequestOf(x)) \in BOOLEAN /\ Talk!Kept(c) \in BOOLEAN
        <5>1. Talk!Last(c).linger \in BOOLEAN
          <6>1. asked[c] \in Nat /\ asked[c] > 0 /\ asked[c] <= Len(plan[c])
            BY <3>2 DEF Base, DataInv
          <6> QED BY <6>1, PlanRequests DEF Base, Talk!Last
        <5> QED BY <2>11, <3>1, <5>1 DEF KeepsAlive, Talk!Kept
      <4> QED BY <2>11, <3>1, <4>1, Zenon
    <3>12. Talk!Kept(c)' = Talk!Kept(c) BY <1>1, <3>4 DEF Talk!Kept
    <3>13. users'[fd].linger = Talk!Kept(c)' BY <3>11, <3>12, Zenon
    <3>14. PICK t : t = told[c] OBVIOUS
    <3>15. PICK n : n = asked[c] OBVIOUS
    <3>16. told'[c] = t /\ asked'[c] = n BY <1>1, <3>14, <3>15
    <3>17. /\ n > 0 /\ wire'[c] = <<>> /\ given'[c] = Whole(c)'
           /\ Len(t) + Len(a) = Len(Talk!Pieces(Talk!Last(c)'.page))
           /\ \A i \in DOMAIN a : a[i].what = "content" => file'[fd] = [client |-> c, nth |-> n]
      BY <1>1, <3>2, <3>4, <3>8, <3>10, <3>14, <3>15
    <3>18. \A i \in DOMAIN a : a[i] = Talk!Promised(c, Len(t) + i)'
      BY <3>5, <3>9, <3>14
    <3>19. Due(c, fd, a)' BY <3>13, <3>16, <3>17, <3>18 DEF Due
    <3> QED BY <1>1, <3>1, <3>2, <3>19
  <2>14. Speaks(fd)'
    <3>1. \A v \in Workers : Fills(v, fd)' => v = w /\ worker'[w].pc = "fill"
      BY <2>5 DEF Fills
    <3>2. pieces'[fd] = <<>> /\ sock'[fd] = c /\ buf'[fd] = b BY <1>1, <1>3, <2>3, <2>8, <2>9
    <3> QED BY <2>10, <2>13, <3>1, <3>2 DEF Speaks
  <2> QED BY <2>7, <2>12, <2>14
<1> QED BY <1>1, <1>3, <1>9, <1>10, <1>11, <1>13, <1>14, Handlings

-----------------------------------------------------------------------------
(* The main thread. *)

\* tick() closes connections whose own timer has run out, and harms those of others.
LEMMA TickTalks ==
    ASSUME Base, TalkInv, EndOfBatch
    PROVE  Talks
<1>1. /\ UNCHANGED <<plan, asked, given, wire, buf, checked, file, made, pieces, told>>
      /\ UNCHANGED <<phase, backlog, inbox, userTimer, users, m_workqueue, worker, batch>>
      /\ spoilt \subseteq spoilt' /\ (timeout => Harmed \subseteq spoilt')
  BY DEF EndOfBatch, EndBatch, asking, object, net
<1>2. PICK S : S = IF timeout THEN {timerFd[c] : c \in TS!Expired} ELSE {} OBVIOUS
<1>3. sock \in [Fds -> Conns \cup {None}] /\ interest \in [Fds -> {"none", "off", "in", "out"}]
  BY DEF Base, MainInv, TypeOK
<1>4. /\ \A g \in Fds : sock'[g] = IF g \in S THEN None ELSE sock[g]
      /\ \A g \in Fds \ S : interest'[g] = interest[g]
      /\ live' \subseteq live /\ left' = left
  BY <1>2, <1>3 DEF EndOfBatch, EndBatch, TimerHandler, CloseAll, TS!Tick, epoll
<1>5. IdleEmpty' /\ OwnNumbers' BY <1>1 DEF TalkInv, IdleEmpty, OwnNumbers
<1>6. \A c \in Conns : SameClient(c) BY <1>1 DEF SameClient
<1>7. \A g \in Fds \ S : SameNeighbour(g)
  BY <1>1, <1>4 DEF SameNeighbour, SamePlace, SameHands, SameObject, InQueue, Once
<1>8. \A c \in Conns : Newcomer(c) => c \notin live' /\ left'[c] = 0
  BY <1>4 DEF TalkInv, Newcomers
<1>9. ASSUME NEW g \in Fds \cap S, Unspoilt(g), sock[g] \notin spoilt' PROVE Farewell(sock[g])
  <2>1. timeout BY <1>2, <1>9
  <2>2. PICK t \in TS!Expired : timerFd[t] = g BY <1>2, <1>9
  <2>3. sock[g] \in Conns /\ sock[g] \notin Harmed BY <1>1, <1>3, <1>9, <2>1 DEF Unspoilt
  <2>4. t = sock[g] BY <2>2, <2>3 DEF Harmed
  <2>5. left[sock[g]] = 0 BY <2>4 DEF TS!Expired
  <2> QED BY <1>1, <2>5 DEF Farewell, Excused
<1> QED BY <1>1, <1>4, <1>5, <1>6, <1>7, <1>8, <1>9, Closings

\* accept(), init() and a timer.
LEMMA AcceptTalks ==
    ASSUME Base, TalkInv, NEW c \in Conns, NEW fd \in Fds, AcceptConnection(c, fd)
    PROVE  Talks
<1>1. /\ UNCHANGED <<plan, asked, given, wire, made, told>>
      /\ UNCHANGED <<phase, inbox, m_workqueue, worker>>
      /\ spoilt \subseteq spoilt' /\ Neighbours(fd) \subseteq spoilt'
      /\ Reused(fd) => c \in spoilt'
      /\ batch' = batch \ {ListenEvent}
  BY DEF AcceptConnection, Accept, asking
<1>2. /\ sock \in [Fds -> Conns \cup {None}] /\ interest \in [Fds -> {"none", "off", "in", "out"}]
      /\ userTimer \in [Fds -> Conns \cup {None}] /\ left \in [Conns -> 0..Life]
      /\ buf \in [Fds -> Seq(FromClients)] /\ pieces \in [Fds -> Seq(Piece)]
      /\ file \in [Fds -> [client : Conns \cup {None}, nth : Nat]]
  BY DEF Base, DataInv, MainInv, TypeOK
<1>3. /\ c \in backlog /\ backlog' = backlog \ {c} /\ sock[fd] = None
      /\ sock'[fd] = c /\ interest'[fd] = "in" /\ userTimer'[fd] = c
      /\ \A g \in Fds \ {fd} : /\ sock'[g] = sock[g] /\ interest'[g] = interest[g]
                               /\ userTimer'[g] = userTimer[g]
      /\ live' = live \cup {c} /\ \A d \in Conns \ {c} : left'[d] = left[d]
  BY <1>2 DEF AcceptConnection, Accept, FreeFds, TS!Add
<1>4. /\ users'[fd].sockfd = fd
      /\ \A g \in Fds \ {fd} : /\ g \notin Overrun[fd] => users'[g] = users[g]
                               /\ users'[g].sockfd \in {users[g].sockfd, Stdin}
  <2>1. users' = Put(fd, [NewUser EXCEPT !.sockfd = fd], TRUE)
    BY DEF AcceptConnection, Accept
  <2>2. [NewUser EXCEPT !.sockfd = fd].sockfd = fd BY DEF NewUser
  <2>3. \A g \in Fds : users[g] \in UserType BY DEF Base, MainInv, TypeOK
  <2>4. \A g \in Fds : [users[g] EXCEPT !.sockfd = Stdin].sockfd = Stdin BY <2>3 DEF UserType
  <2> QED BY <2>1, <2>2, <2>4 DEF Put
<1>5. /\ buf'[fd] = <<>> /\ pieces'[fd] = <<>>
      /\ \A g \in Fds \ {fd} : /\ g \notin Overrun[fd] => buf'[g] = buf[g]
                               /\ pieces'[g] = pieces[g] /\ file'[g] = file[g]
  BY <1>2 DEF AcceptConnection, InitObject
<1>6. \A d \in Conns : SameClient(d) BY <1>1 DEF SameClient
<1>7. IdleEmpty' BY <1>1 DEF TalkInv, IdleEmpty
<1>8. OwnNumbers' BY <1>4 DEF TalkInv, OwnNumbers
<1>9. OwnTimers' BY <1>3 DEF TalkInv, OwnTimers
<1>10. phase[c] # "new" BY <1>3 DEF TalkInv, Newcomers
<1>11. Newcomers'
  <2>1. \A d \in Conns : phase'[d] = "new" => d \notin backlog'
    BY <1>1, <1>3 DEF TalkInv, Newcomers
  <2>2. \A d \in Conns : Newcomer(d)' => Newcomer(d) /\ d # c
    BY <1>1, <1>3, <1>10 DEF Newcomer
  <2>3. \A d \in Conns : Newcomer(d)' => d \notin live' /\ left'[d] = 0
    BY <1>3, <2>2 DEF TalkInv, Newcomers
  <2> QED BY <1>6, <2>1, <2>2, <2>3, NewcomersKept DEF TalkInv
<1>12. ASSUME NEW g \in Fds \ {fd}, Unspoilt(g)'
       PROVE  OneHand(g)' /\ Steps(g)' /\ Speaks(g)'
  <2>1. sock[g] \in Conns /\ sock[g] # None /\ sock[g] \notin spoilt'
    BY <1>2, <1>3, <1>12 DEF Unspoilt
  <2>2. g \notin Overrun[fd] BY <1>1, <2>1 DEF Neighbours
  <2>3. SamePlace(g) /\ SameHands(g) /\ SameSocket(g) /\ SameObject(g)
    BY <1>1, <1>3, <1>4, <1>5, <2>2
       DEF SamePlace, SameHands, SameSocket, SameObject, InQueue, Once
  <2> QED BY <1>1, <1>6, <1>12, <2>1, <2>3, UntouchedKept DEF Untouched
<1>13. ASSUME Unspoilt(fd)' PROVE OneHand(fd)' /\ Steps(fd)' /\ Speaks(fd)'
  <2>1. ~Reused(fd) BY <1>1, <1>3, <1>13 DEF Unspoilt
  <2>2. /\ \A w \in Workers : ~Serves(w, fd)'
        /\ ~InQueue(fd)' /\ ~InBatch(fd)'
    BY <1>1, <2>1 DEF Reused, Serves, InQueue, InBatch
  <2>3. Once(fd)' BY <2>2 DEF Once, InQueue
  <2>4. OneHand(fd)' BY <1>4, <2>2, <2>3 DEF OneHand
  <2>5. \A kind : Event(kind, fd) \notin batch' BY <2>2 DEF InBatch, Event
  <2>6. Steps(fd)' BY <1>3, <1>5, <2>2, <2>5 DEF Steps
  <2>7. Awaited(c, <<>>) /\ AllOf(c, wire[c]) BY <1>3 DEF TalkInv, Newcomers, Newcomer
  <2>8. PICK e : e = <<>> OBVIOUS
  <2>9. Awaited(c, e)' BY <1>6, <2>7, <2>8, AwaitedKept
  <2>10. AllOf(c, wire[c])' BY <1>1, <2>7 DEF AllOf, Segment
  <2>11. AllOf(c, e)' BY <2>8 DEF AllOf
  <2>12. ~Filled(fd)' BY <2>2 DEF Filled, Fills
  <2>13. buf'[fd] = e /\ pieces'[fd] = <<>> BY <1>5, <2>8
  <2> QED BY <1>3, <2>4, <2>6, <2>8, <2>9, <2>10, <2>11, <2>12, <2>13 DEF Speaks, Filled
<1>14. ASSUME NEW d \in Conns PROVE Talk!Step(d)
  <2>1. Connected(d)' <=> Connected(d)
    <3>1. d # None BY Parameters
    <3>2. CASE d = c BY <1>3, <3>2 DEF Connected
    <3>3. CASE d # c
      <4>1. \A g \in Fds : sock'[g] = d <=> sock[g] = d BY <1>3, <3>1, <3>3
      <4>2. d \in backlog' <=> d \in backlog BY <1>3, <3>3
      <4> QED BY <4>1, <4>2 DEF Connected
    <3> QED BY <3>2, <3>3
  <2>2. LineStep(d) BY <1>1, <2>1 DEF LineStep
  <2> QED BY <1>6, <2>2, QuietStep
<1> QED BY <1>7, <1>8, <1>9, <1>11, <1>12, <1>13, <1>14 DEF Talks, TalkInv

\* The queue after append(), which may have been refused.
LEMMA QueueJoin ==
    ASSUME NEW q \in Seq(Fds), NEW fd \in Fds, NEW r \in {q, Append(q, fd)}
    PROVE  /\ \A g : g # fd /\ (\E i \in DOMAIN r : r[i] = g) => \E i \in DOMAIN q : q[i] = g
           /\ \A g : /\ g # fd \/ \A i \in DOMAIN q : q[i] # fd
                     /\ \A i, j \in DOMAIN q : q[i] = g /\ q[j] = g => i = j
                     => \A i, j \in DOMAIN r : r[i] = g /\ r[j] = g => i = j
<1>1. CASE r = q BY <1>1
<1>2. CASE r = Append(q, fd)
  <2>1. /\ DOMAIN r = 1..(Len(q) + 1) /\ DOMAIN q = 1..Len(q) /\ Len(q) \in Nat
        /\ r[Len(q) + 1] = fd /\ \A i \in 1..Len(q) : r[i] = q[i]
    BY <1>2
  <2>2. \A i \in DOMAIN r : i \in DOMAIN q \/ i = Len(q) + 1 BY <2>1
  <2> QED BY <2>1, <2>2
<1> QED BY <1>1, <1>2

\* What handling an event of fd leaves of the others, and of the event itself.
LEMMA EventHandled ==
    ASSUME Base, TalkInv, NEW fd \in Fds, NEW kind, Event(kind, fd) \in batch,
           batch' = batch \ {Event(kind, fd)}, Unspoilt(fd)
    PROVE  /\ ~InBatch(fd)' /\ ~Armed(fd) /\ ~InQueue(fd)
           /\ \A w \in Workers : ~Serves(w, fd)
<1>1. Event(kind, fd).fd = fd BY DEF Event
<1>2. \A e \in batch : e.fd = fd => e = Event(kind, fd)
  BY <1>1 DEF Base, MainInv, OneEventEach
<1>3. ~InBatch(fd)' BY <1>2 DEF InBatch
<1>4. InBatch(fd) BY <1>1 DEF InBatch
<1> QED BY <1>3, <1>4 DEF TalkInv, OneHand

\* read_once() moves segments from the socket to the object.
LEMMA ReadMoves ==
    ASSUME Base, TalkInv, NEW fd \in Fds, ReadRequest(fd)
    PROVE  /\ UNCHANGED <<plan, asked, given, checked, file, pieces, made, told, spoilt>>
           /\ UNCHANGED <<phase, backlog, worker>>
           /\ Event("in", fd) \in batch /\ batch' = batch \ {Event("in", fd)}
           /\ \A c \in Conns : c # sock[fd] => inbox'[c] = inbox[c] /\ wire'[c] = wire[c]
           /\ \A g \in Fds \ {fd} : buf'[g] = buf[g] /\ users'[g] = users[g]
           /\ users'[fd].sockfd = users[fd].sockfd /\ users'[fd].linger = users[fd].linger
           /\ Unspoilt(fd) => \E n \in Nat :
                 /\ n <= Len(wire[sock[fd]])
                 /\ n = Least(inbox[sock[fd]], BufSize - users[fd].got)
                 /\ wire'[sock[fd]] = SubSeq(wire[sock[fd]], n + 1, Len(wire[sock[fd]]))
                 /\ buf'[fd] = buf[fd] \o SubSeq(wire[sock[fd]], 1, n)
<1>1. /\ UNCHANGED <<plan, asked, given, checked, file, pieces, made, told, spoilt>>
      /\ UNCHANGED <<phase, backlog, worker>>
      /\ Event("in", fd) \in batch /\ batch' = batch \ {Event("in", fd)}
  BY DEF ReadRequest, ReadProactor, asking
<1>2. TypeOK /\ DataInv BY DEF Base, MainInv
<1>3. /\ Readable(fd) \in Nat
      /\ Peer(fd) = None => inbox' = inbox
      /\ Peer(fd) # None => /\ Peer(fd) \in Conns /\ Readable(fd) <= inbox[Peer(fd)]
                            /\ inbox' = [inbox EXCEPT ![Peer(fd)] = @ - Readable(fd)]
  BY <1>2, ReadCounts DEF ReadRequest
<1>4. /\ Peer(fd) = None => UNCHANGED <<wire, buf>>
      /\ Peer(fd) # None =>
            /\ wire' = [wire EXCEPT ![Peer(fd)] = SubSeq(@, Readable(fd) + 1, Len(@))]
            /\ buf' = [buf EXCEPT ![fd] = @ \o SubSeq(wire[Peer(fd)], 1, Readable(fd))]
  BY DEF ReadRequest, ReadOnce
<1>5. /\ inbox \in [Conns -> Nat] /\ wire \in [Conns -> Seq(FromClients)]
      /\ buf \in [Fds -> Seq(FromClients)] /\ users \in [Fds -> UserType]
      /\ \A c \in Conns : Len(wire[c]) = inbox[c] /\ c # None
  BY <1>2, Parameters DEF TypeOK, DataInv
<1>6. Peer(fd) = None \/ Peer(fd) = sock[fd] BY OwnPeer DEF Base
<1>7. \A c \in Conns : c # sock[fd] => inbox'[c] = inbox[c] /\ wire'[c] = wire[c]
  BY <1>3, <1>4, <1>5, <1>6
<1>8. /\ \A g \in Fds \ {fd} : users'[g] = users[g]
      /\ users'[fd].sockfd = users[fd].sockfd /\ users'[fd].linger = users[fd].linger
  <2>1. users' = [users EXCEPT ![fd] = AfterRead(fd)] BY DEF ReadRequest, ReadProactor
  <2>2. /\ AfterRead(fd).sockfd = users[fd].sockfd /\ AfterRead(fd).linger = users[fd].linger
    <3>1. users[fd] \in UserType BY <1>5
    <3> QED BY <3>1 DEF AfterRead, UserType
  <2> QED BY <1>5, <2>1, <2>2
<1>9. \A g \in Fds \ {fd} : buf'[g] = buf[g] BY <1>4, <1>5
<1>10. ASSUME Unspoilt(fd)
       PROVE  LET n == Readable(fd)
              IN  /\ n <= Len(wire[sock[fd]])
                  /\ n = Least(inbox[sock[fd]], BufSize - users[fd].got)
                  /\ wire'[sock[fd]] = SubSeq(wire[sock[fd]], n + 1, Len(wire[sock[fd]]))
                  /\ buf'[fd] = buf[fd] \o SubSeq(wire[sock[fd]], 1, n)
  <2>1. Peer(fd) = sock[fd] /\ sock[fd] \in Conns /\ Peer(fd) # None
    BY <1>5, <1>10, OwnPeer DEF Base
  <2>2. Readable(fd) = Least(inbox[sock[fd]], BufSize - users[fd].got) BY <2>1 DEF Readable
  <2> QED BY <1>3, <1>4, <1>5, <2>1, <2>2
<1> QED BY <1>1, <1>3, <1>7, <1>8, <1>9, <1>10

\* The first n of a sequence go to the end of another.
Poured(b, t, b2, t2) ==
    /\ Len(b2) + Len(t2) = Len(b) + Len(t)
    /\ \A i \in DOMAIN b2 : (\E j \in DOMAIN b : b2[i] = b[j]) \/ \E j \in DOMAIN t : b2[i] = t[j]
    /\ \A i \in DOMAIN t2 : \E j \in DOMAIN t : t2[i] = t[j]

LEMMA SegmentsMove ==
    ASSUME NEW X, NEW b \in Seq(X), NEW t \in Seq(X), NEW n \in Nat, n <= Len(t),
           NEW b2, b2 = b \o SubSeq(t, 1, n), NEW t2, t2 = SubSeq(t, n + 1, Len(t))
    PROVE  Poured(b, t, b2, t2)
<1>1. PICK h : h = SubSeq(t, 1, n) OBVIOUS
<1>2. /\ h \in Seq(X) /\ Len(h) = n /\ \A i \in 1..n : h[i] = t[i]
  BY <1>1, SubSeqProperties
<1>3. /\ b2 = b \o h /\ Len(b2) = Len(b) + n /\ DOMAIN b2 = 1..(Len(b) + n)
      /\ \A i \in 1..Len(b) : b2[i] = b[i]
      /\ \A i \in 1..(Len(b) + n) : i > Len(b) => b2[i] = h[i - Len(b)]
  BY <1>1, <1>2, ConcatProperties
<1>4. /\ Len(t2) = Len(t) - n /\ DOMAIN t2 = 1..(Len(t) - n)
      /\ \A i \in 1..(Len(t) - n) : t2[i] = t[i + n]
  BY SubSeqProperties
<1>5. Len(b) \in Nat /\ Len(t) \in Nat /\ DOMAIN b = 1..Len(b) /\ DOMAIN t = 1..Len(t)
  OBVIOUS
<1>6. Len(b2) + Len(t2) = Len(b) + Len(t)
  <2>1. PICK l \in Nat : l = Len(b) BY <1>5
  <2>2. PICK k \in Nat : k = Len(t) BY <1>5
  <2>3. (l + n) + (k - n) = l + k OBVIOUS
  <2> QED BY <1>3, <1>4, <2>1, <2>2, <2>3
<1>7. ASSUME NEW i \in DOMAIN b2
      PROVE  (\E j \in DOMAIN b : b2[i] = b[j]) \/ \E j \in DOMAIN t : b2[i] = t[j]
  <2>1. CASE i <= Len(b) BY <1>3, <1>5, <1>7, <2>1
  <2>2. CASE i > Len(b)
    <3>1. i - Len(b) \in 1..n /\ i - Len(b) \in DOMAIN t BY <1>3, <1>5, <1>7, <2>2
    <3>2. b2[i] = t[i - Len(b)] BY <1>2, <1>3, <1>7, <2>2, <3>1
    <3> QED BY <3>1, <3>2
  <2> QED BY <1>3, <1>5, <1>7, <2>1, <2>2
<1>8. ASSUME NEW i \in DOMAIN t2 PROVE \E j \in DOMAIN t : t2[i] = t[j]
  <2>1. i + n \in DOMAIN t /\ t2[i] = t[i + n] BY <1>4, <1>5, <1>8
  <2> QED BY <2>1
<1> QED BY <1>6, <1>7, <1>8 DEF Poured

\* A request that fits is read.
LEMMA ReadFits ==
    ASSUME Base, TalkInv, Fits, NEW fd \in Fds, Unspoilt(fd), Event("in", fd) \in batch
    PROVE  ReadSucceeds(fd)
<1>1. PICK c \in Conns : c = sock[fd] /\ Peer(fd) = c /\ c # None
  BY Parameters, OwnPeer DEF Base
<1>2. Steps(fd) /\ Speaks(fd) /\ OneHand(fd) BY DEF TalkInv
<1>3. pieces[fd] = <<>> /\ inbox[c] > 0 /\ inbox[c] \in Nat
  BY <1>1, <1>2 DEF Steps, Base, MainInv, TypeOK
<1>4. InBatch(fd) BY DEF InBatch, Event
<1>5. ~Filled(fd) BY <1>2, <1>4 DEF OneHand, Filled, Fills
<1>6. Awaited(c, buf[fd]) BY <1>1, <1>2, <1>3, <1>5 DEF Speaks
<1>7. Len(wire[c]) = inbox[c] /\ Len(buf[fd]) = users[fd].got BY DEF Base, DataInv
<1>8. wire[c] # <<>> BY <1>3, <1>7
<1>9. Asking(c, buf[fd]) BY <1>6, <1>8 DEF Awaited, Resting
<1>10. /\ asked[c] \in Nat /\ asked[c] > 0 /\ asked[c] <= Len(plan[c]) /\ given[c] \in Nat
       /\ users[fd].got \in Nat
  BY <1>7, <1>9 DEF Base, DataInv, Asking
<1>11. Whole(c) <= BufSize /\ Whole(c) \in Nat
  <2>1. /\ Talk!Last(c).head \in Nat /\ Talk!Last(c).body \in Nat
        /\ Talk!Last(c) = plan[c][asked[c]]
    BY <1>10, PlanRequests DEF Base, Talk!Last
  <2>2. plan[c] \in Seq(Request) /\ plan \in Plans BY Chap5Parameters DEF Base, DataInv
  <2>3. asked[c] \in DOMAIN plan[c] BY <1>10, <2>2
  <2> QED BY <2>1, <2>2, <2>3 DEF Fits, Whole
<1>12. users[fd].got + inbox[c] <= BufSize
  <2>1. PICK u \in Nat : u = Len(buf[fd]) /\ u = users[fd].got BY <1>7, <1>10
  <2>2. PICK v \in Nat : v = Len(wire[c]) /\ v = inbox[c] BY <1>3, <1>7
  <2>3. u + v = given[c] /\ given[c] <= Whole(c) BY <1>9, <2>1, <2>2 DEF Asking
  <2>4. BufSize \in Nat BY Parameters
  <2>5. u + v <= BufSize BY <1>10, <1>11, <2>3, <2>4
  <2> QED BY <2>1, <2>2, <2>5
<1>13. BufSize \in Nat BY Parameters
<1>14. users[fd].got < BufSize BY <1>3, <1>10, <1>12, <1>13
<1>15. Readable(fd) > 0
  <2>1. Readable(fd) = Least(inbox[c], BufSize - users[fd].got) BY <1>1 DEF Readable
  <2>2. BufSize - users[fd].got > 0 BY <1>10, <1>13, <1>14
  <2> QED BY <1>3, <2>1, <2>2 DEF Least
<1>16. ~ConnET BY Chap5Parameters DEF ConnET, Base, MainInv, TypeOK
<1> QED BY <1>1, <1>14, <1>15, <1>16 DEF ReadSucceeds

\* read_once(), then append() or the end of the connection.
LEMMA ReadTalks ==
    ASSUME Base, TalkInv, NEW fd \in Fds, ReadRequest(fd)
    PROVE  Talks
<1>1. /\ UNCHANGED <<plan, asked, given, checked, file, pieces, made, told, spoilt>>
      /\ UNCHANGED <<phase, backlog, worker>>
      /\ Event("in", fd) \in batch /\ batch' = batch \ {Event("in", fd)}
      /\ \A c \in Conns : c # sock[fd] => inbox'[c] = inbox[c] /\ wire'[c] = wire[c]
      /\ \A g \in Fds \ {fd} : buf'[g] = buf[g] /\ users'[g] = users[g]
      /\ users'[fd].sockfd = users[fd].sockfd /\ users'[fd].linger = users[fd].linger
  BY ReadMoves
<1>2. IdleEmpty' /\ OwnNumbers' BY <1>1 DEF TalkInv, IdleEmpty, OwnNumbers
<1>3. \A c \in Conns : c # sock[fd] => SameClient(c) BY <1>1 DEF SameClient
<1>4. \A g \in Fds : SameHands(g) BY <1>1 DEF SameHands
<1>5. ASSUME NEW g \in Fds \ {fd}, Unspoilt(g) PROVE inbox'[sock[g]] = inbox[sock[g]]
  <2>1. sock[g] # None /\ sock[g] \in Conns BY <1>5 DEF Unspoilt, Base, MainInv, TypeOK
  <2>2. sock[g] # sock[fd] BY <1>5, <2>1, OneDescriptor DEF Base
  <2> QED BY <1>1, <2>1, <2>2
<1>6. CASE ReadSucceeds(fd)
  <2>1. UNCHANGED <<sock, interest, userTimer>> /\ AdjustTimer(fd) /\ Enqueue(fd)
    BY <1>6 DEF ReadRequest, ReadProactor, epoll, AdjustTimer
  <2>2. \A c \in Conns : Newcomer(c) => c \notin live' /\ left'[c] = 0
    <3>1. left \in [Conns -> 0..Life] BY DEF Base, MainInv, TypeOK
    <3>2. live' = live /\ left' = [left EXCEPT ![userTimer[fd]] = Life] /\ userTimer[fd] \in live
      BY <2>1 DEF AdjustTimer, TS!Adjust
    <3> QED BY <3>1, <3>2 DEF TalkInv, Newcomers
  <2>3. m_workqueue \in Seq(Fds) /\ m_workqueue' \in {m_workqueue, Append(m_workqueue, fd)}
    BY <2>1 DEF Enqueue, Base, MainInv, TypeOK
  <2>4. PICK q : q = m_workqueue OBVIOUS
  <2>5. PICK r : r = m_workqueue' OBVIOUS
  <2>6. /\ \A g : g # fd /\ (\E i \in DOMAIN r : r[i] = g) => \E i \in DOMAIN q : q[i] = g
        /\ \A g : /\ g # fd \/ \A i \in DOMAIN q : q[i] # fd
                  /\ \A i, j \in DOMAIN q : q[i] = g /\ q[j] = g => i = j
                  => \A i, j \in DOMAIN r : r[i] = g /\ r[j] = g => i = j
    BY <2>3, <2>4, <2>5, QueueJoin
  <2>7. /\ \A g \in Fds \ {fd} : InQueue(g)' => InQueue(g)
        /\ \A g \in Fds : (g # fd \/ ~InQueue(fd)) /\ Once(g) => Once(g)'
    BY <2>4, <2>5, <2>6 DEF InQueue, Once
  <2>8. ASSUME NEW g \in Fds \ {fd}, Unspoilt(g)' PROVE SameNeighbour(g)
    <3>1. Unspoilt(g) BY <1>1, <2>1, <2>8 DEF Unspoilt
    <3> QED BY <1>1, <1>4, <1>5, <2>1, <2>7, <3>1 DEF SameNeighbour, SamePlace, SameObject
  <2>9. ASSUME Unspoilt(fd)' PROVE OneHand(fd)' /\ Steps(fd)' /\ Speaks(fd)'
    <3>1. Unspoilt(fd) BY <1>1, <2>1, <2>9 DEF Unspoilt
    <3>2. OneHand(fd) /\ Steps(fd) /\ Speaks(fd) BY <3>1 DEF TalkInv
    <3>3. /\ ~InBatch(fd)' /\ ~Armed(fd) /\ ~InQueue(fd)
          /\ \A w \in Workers : ~Serves(w, fd)
      BY <1>1, <3>1, EventHandled
    <3>4. ~Armed(fd)' /\ \A w \in Workers : ~Serves(w, fd)'
      BY <1>1, <2>1, <3>3 DEF Armed, Serves
    <3>5. OneHand(fd)' BY <1>1, <2>7, <3>2, <3>3, <3>4 DEF OneHand
    <3>6. pieces[fd] = <<>> BY <1>1, <3>2 DEF Steps
    <3>7. Steps(fd)'
      <4>1. \A kind : Event(kind, fd) \notin batch' BY <3>3 DEF InBatch, Event
      <4> QED BY <1>1, <3>4, <3>6, <4>1 DEF Steps, Armed
    <3>8. PICK c \in Conns : c = sock[fd] /\ sock'[fd] = c
      BY <2>1, <3>1 DEF Unspoilt, Base, MainInv, TypeOK
    <3>9. ~Filled(fd) /\ ~Filled(fd)' BY <3>3, <3>4 DEF Filled, Fills
    <3>10. PICK b : b = buf[fd] OBVIOUS
    <3>11. PICK t : t = wire[c] OBVIOUS
    <3>12. b \in Seq(FromClients) /\ t \in Seq(FromClients) BY <3>10, <3>11 DEF Base, DataInv
    <3>13. PICK n \in Nat : /\ n <= Len(t) /\ wire'[c] = SubSeq(t, n + 1, Len(t))
                            /\ buf'[fd] = b \o SubSeq(t, 1, n)
      BY <3>1, <3>8, <3>10, <3>11, ReadMoves
    <3>14. PICK b2 : b2 = buf'[fd] OBVIOUS
    <3>15. PICK t2 : t2 = wire'[c] OBVIOUS
    <3>16. Poured(b, t, b2, t2)
      <4>1. b2 = b \o SubSeq(t, 1, n) /\ t2 = SubSeq(t, n + 1, Len(t)) /\ n <= Len(t)
        BY <3>13, <3>14, <3>15
      <4>2. PICK X : X = FromClients OBVIOUS
      <4>3. b \in Seq(X) /\ t \in Seq(X) BY <3>12, <4>2
      <4> QED BY ONLY <4>1, <4>3, n \in Nat, SegmentsMove
    <3>17. AllOf(c, b) /\ AllOf(c, t) BY <3>2, <3>8, <3>10, <3>11 DEF Speaks
    <3>18. AllOf(c, b2)' /\ AllOf(c, t2)' BY <1>1, <3>16, <3>17 DEF AllOf, Segment, Poured
    <3>19. Asking(c, b)
      <4>1. Awaited(c, b) BY <3>2, <3>6, <3>8, <3>9, <3>10 DEF Speaks
      <4>2. inbox[c] > 0 /\ Len(wire[c]) = inbox[c]
        BY <1>1, <3>2, <3>8 DEF Steps, Base, DataInv
      <4>3. wire[c] # <<>> BY <4>2
      <4> QED BY <4>1, <4>3 DEF Awaited, Resting
    <3>20. Asking(c, b2)'
      <4>1. Whole(c)' = Whole(c) BY <1>1 DEF Whole, Talk!Last
      <4> QED BY <1>1, <3>11, <3>15, <3>16, <3>19, <4>1 DEF Asking, Poured
    <3>21. Speaks(fd)' BY <1>1, <3>6, <3>8, <3>9, <3>14, <3>15, <3>18, <3>20 DEF Speaks, Filled, Awaited
    <3> QED BY <3>5, <3>7, <3>21
  <2> QED BY <1>1, <1>2, <1>3, <2>1, <2>2, <2>8, <2>9, Handlings
<1>7. CASE ~ReadSucceeds(fd)
  <2>1. DealTimer(fd) /\ UNCHANGED m_workqueue BY <1>7 DEF ReadRequest, ReadProactor
  <2>2. ASSUME NEW g \in Fds \ {fd}, Unspoilt(g)' PROVE SameNeighbour(g)
    <3>1. sock'[g] = sock[g] /\ interest'[g] = interest[g] BY <2>1, DealTimerCloses
    <3>2. Unspoilt(g) BY <1>1, <2>2, <3>1 DEF Unspoilt
    <3> QED BY <1>1, <1>4, <1>5, <2>1, <3>1, <3>2
         DEF SameNeighbour, SamePlace, SameObject, InQueue, Once
  <2>3. Fits => ~Unspoilt(fd) BY <1>1, <1>7, ReadFits
  <2>4. \A c \in Conns : (\A g \in Fds \cap {fd} : sock[g] # c) => SameClient(c) BY <1>3
  <2>5. /\ \A g \in Fds : sock'[g] = IF g \in {fd} THEN None ELSE sock[g]
        /\ userTimer' = userTimer
        /\ \A c \in Conns : Newcomer(c) => c \notin live' /\ left'[c] = 0
    BY <2>1, DealTimerCloses
  <2>6. Fits => \A g \in Fds \cap {fd} : Unspoilt(g) /\ sock[g] \notin spoilt' => Farewell(sock[g])
    BY <2>3
  <2> QED BY <1>1, <1>2, <2>2, <2>4, <2>5, <2>6, Closings
<1> QED BY <1>6, <1>7

-----------------------------------------------------------------------------
(* Writing an answer. *)

\* With something to send and a peer: writev() fails, sends a part, or the rest.
LEMMA WriteChoices ==
    ASSUME TypeOK, NEW fd \in Fds, users[fd].out > 0, Peer(fd) # None, NEW r \in Writes(fd)
    PROVE  /\ r.sent \in {0, 1}
           /\ \/ /\ phase[Peer(fd)] = "shut" /\ ~r.ok /\ ~r.init /\ r.sent = 0
                 /\ r.user.out = users[fd].out
              \/ /\ r.ok /\ ~r.init /\ r.ev = "out" /\ r.user.linger = users[fd].linger
                 /\ r.user.out = users[fd].out - r.sent /\ r.user.out > 0
              \/ /\ r.sent = 1 /\ users[fd].out = 1 /\ r.user.out = 0 /\ r.ev = "in"
                 /\ r.ok <=> users[fd].linger
                 /\ r.init <=> users[fd].linger
<1>1. users[fd] \in UserType BY DEF TypeOK
<1>2. users[fd].out \in Nat /\ users[fd].linger \in BOOLEAN
      /\ users[fd].sockfd \in Fds \cup {None, Stdin}
  BY <1>1 DEF UserType
<1>3. Peer(fd) \in Conns BY <1>2 DEF Peer, TypeOK
<1>4. room[Peer(fd)] \in {0, 1} BY <1>3 DEF TypeOK
<1>5. PICK u : u = users[fd] OBVIOUS
<1>6. PICK n : n = Least(users[fd].out, room[Peer(fd)]) OBVIOUS
<1>7. n \in {0, 1} /\ n <= u.out /\ u.out \in Nat /\ u.out > 0
  BY <1>2, <1>4, <1>5, <1>6 DEF Least
<1>8. \/ /\ phase[Peer(fd)] = "shut"
         /\ r = [ok |-> FALSE, user |-> u, init |-> FALSE, ev |-> "keep", sent |-> 0]
      \/ r = IF n < u.out
             THEN [ok |-> TRUE, user |-> [u EXCEPT !.out = @ - n], init |-> FALSE,
                   ev |-> "out", sent |-> n]
             ELSE [ok |-> u.linger,
                   user |-> IF u.linger THEN Cleared(u) ELSE [u EXCEPT !.out = 0],
                   init |-> u.linger, ev |-> "in", sent |-> n]
  BY <1>2, <1>5, <1>6 DEF Writes
<1>9. CASE phase[Peer(fd)] = "shut"
           /\ r = [ok |-> FALSE, user |-> u, init |-> FALSE, ev |-> "keep", sent |-> 0]
  BY <1>5, <1>9
<1>10. CASE /\ n < u.out
            /\ r = [ok |-> TRUE, user |-> [u EXCEPT !.out = @ - n], init |-> FALSE,
                    ev |-> "out", sent |-> n]
  <2>1. r.user = [u EXCEPT !.out = @ - n] /\ r.sent = n /\ r.ok = TRUE /\ r.init = FALSE
        /\ r.ev = "out"
    BY <1>10
  <2>2. r.user.out = u.out - n /\ r.user.linger = u.linger BY <1>1, <1>5, <2>1 DEF UserType
  <2>3. u.out - n > 0 BY <1>7, <1>10
  <2> QED BY <1>5, <1>7, <2>1, <2>2, <2>3
<1>11. CASE /\ ~(n < u.out)
            /\ r = [ok |-> u.linger,
                    user |-> IF u.linger THEN Cleared(u) ELSE [u EXCEPT !.out = 0],
                    init |-> u.linger, ev |-> "in", sent |-> n]
  <2>1. r.sent = n /\ r.ok = u.linger /\ r.init = u.linger /\ r.ev = "in"
        /\ r.user = IF u.linger THEN Cleared(u) ELSE [u EXCEPT !.out = 0]
    BY <1>11
  <2>2. Cleared(u).out = 0 /\ [u EXCEPT !.out = 0].out = 0
    BY <1>1, <1>5 DEF Cleared, UserType
  <2>3. n = 1 /\ u.out = 1 BY <1>7, <1>11
  <2>4. r.user.out = 0 BY <2>1, <2>2
  <2> QED BY <1>5, <2>1, <2>3, <2>4
<1> QED BY <1>8, <1>9, <1>10, <1>11

\* What writing for fd leaves alone, whoever it is for.
LEMMA WriteLeaves ==
    ASSUME Base, TalkInv, NEW fd \in Fds, WriteAnswer(fd)
    PROVE  /\ UNCHANGED <<plan, asked, given, wire, made>>
           /\ UNCHANGED <<phase, backlog, inbox, m_workqueue, worker, userTimer>>
           /\ spoilt \subseteq spoilt'
           /\ Event("out", fd) \in batch /\ batch' = batch \ {Event("out", fd)}
           /\ \A c \in Conns : c # sock[fd] => SameClient(c)
           /\ \A c \in Conns : Newcomer(c) => c \notin live' /\ left'[c] = 0
           /\ IdleEmpty' /\ OwnNumbers' /\ users'[fd].sockfd = users[fd].sockfd
           /\ \A g \in Fds \ {fd} : sock'[g] = sock[g]
           /\ \A g \in Fds \ {fd} : Unspoilt(g)' => SameNeighbour(g)
<1>1. /\ UNCHANGED <<plan, asked, given, wire, made>>
      /\ UNCHANGED <<phase, backlog, inbox, m_workqueue, worker>>
      /\ Event("out", fd) \in batch /\ batch' = batch \ {Event("out", fd)}
  BY DEF WriteAnswer, WriteProactor, asking
<1>2. PICK r \in Writes(fd) :
        /\ users' = Put(fd, r.user, r.init)
        /\ IF r.ok THEN /\ interest' = AfterWrite(fd, r.ev) /\ AdjustTimer(fd) /\ sock' = sock
                   ELSE DealTimer(fd)
  BY DEF WriteAnswer, WriteProactor
<1>3. TypeOK /\ BaseTypes BY DEF Base, MainInv, TypeOK, BaseTypes
<1>4. userTimer' = userTimer BY <1>2 DEF AdjustTimer, DealTimer
<1>5. \A c \in Conns : Newcomer(c) => c \notin live' /\ left'[c] = 0
  <2>1. left \in [Conns -> 0..Life] BY <1>3 DEF TypeOK
  <2>2. AdjustTimer(fd) => live' = live /\ left' = [left EXCEPT ![userTimer[fd]] = Life]
                           /\ userTimer[fd] \in live
    BY DEF AdjustTimer, TS!Adjust
  <2>3. AdjustTimer(fd) => \A c \in Conns : Newcomer(c) => c \notin live' /\ left'[c] = 0
    BY <2>1, <2>2 DEF TalkInv, Newcomers
  <2> QED BY <1>2, <2>3, DealTimerCloses
<1>6. users[fd].sockfd \in {fd, None, Stdin} BY DEF TalkInv, OwnNumbers
<1>7. interest \in [Fds -> {"none", "off", "in", "out"}] BY <1>3 DEF TypeOK
<1>8. \A g \in Fds \ {fd} : sock'[g] = sock[g] /\ interest'[g] = interest[g]
  <2>1. CASE r.ok
    <3>1. sock' = sock /\ (interest' = interest \/ interest' = Modfd(interest, users[fd].sockfd, r.ev))
      BY <1>2, <2>1 DEF AfterWrite
    <3>2. \A g \in Fds \ {fd} : Modfd(interest, users[fd].sockfd, r.ev)[g] = interest[g]
      BY <1>6, <1>7, Parameters DEF Modfd
    <3> QED BY <3>1, <3>2
  <2>2. CASE ~r.ok BY <1>2, <2>2, DealTimerCloses
  <2> QED BY <2>1, <2>2
<1>9. /\ users'[fd] = r.user /\ r.user.sockfd = users[fd].sockfd
      /\ \A g \in Fds \ {fd} : /\ ~r.init \/ g \notin Overrun[fd] => users'[g] = users[g]
                               /\ users'[g].sockfd \in {users[g].sockfd, Stdin}
  <2>1. \A g \in Fds : [users[g] EXCEPT !.sockfd = Stdin].sockfd = Stdin
    BY <1>3 DEF TypeOK, UserType
  <2>2. r.user.sockfd = users[fd].sockfd BY <1>3, WriteKeeps
  <2> QED BY <1>2, <2>1, <2>2 DEF Put
<1>10. OwnNumbers' BY <1>6, <1>9 DEF TalkInv, OwnNumbers
<1>11. IdleEmpty' BY <1>1 DEF TalkInv, IdleEmpty
<1>12. r.init <=> users'[fd].out = 0 /\ (users[fd].out = 0 \/ users[fd].linger)
  BY <1>3, <1>9, WriteOutcome
<1>13. /\ buf \in [Fds -> Seq(FromClients)] /\ pieces \in [Fds -> Seq(Piece)]
       /\ file \in [Fds -> [client : Conns \cup {None}, nth : Nat]] /\ told \in [Conns -> Seq(Piece)]
  BY DEF Base, DataInv
<1>14. /\ \A g \in Fds \ {fd} : pieces'[g] = pieces[g] /\ file'[g] = file[g]
       /\ spoilt \subseteq spoilt'
       /\ r.init => Neighbours(fd) \subseteq spoilt'
       /\ \A g \in Fds \ {fd} : ~r.init \/ g \notin Overrun[fd] => buf'[g] = buf[g]
  <2>1. \A g \in Fds \ {fd} : pieces'[g] = pieces[g] BY <1>13 DEF WriteAnswer, Write
  <2>2. CASE r.init
    <3>1. InitObject(fd) /\ spoilt' = spoilt \cup Neighbours(fd)
      BY <1>12, <2>2 DEF WriteAnswer, Write
    <3> QED BY <1>13, <2>1, <2>2, <3>1 DEF InitObject
  <2>3. CASE ~r.init
    <3>1. UNCHANGED <<buf, spoilt>> /\ (file' = file \/ file' = [file EXCEPT ![fd] = NoFile])
      BY <1>12, <2>3 DEF WriteAnswer, Write, Unmap
    <3> QED BY <1>13, <2>1, <2>3, <3>1
  <2> QED BY <2>2, <2>3
<1>15. \A c \in Conns : c # sock[fd] => SameClient(c)
  <2>1. Peer(fd) = None \/ Peer(fd) = sock[fd] BY OwnPeer DEF Base
  <2>2. told' = told \/ (Peer(fd) # None /\ told' = [told EXCEPT ![Peer(fd)] = Append(@, Gathered(fd))])
    BY DEF WriteAnswer, Write
  <2>3. \A c \in Conns : c # sock[fd] => told'[c] = told[c] BY <1>13, <2>1, <2>2
  <2> QED BY <1>1, <2>3 DEF SameClient
<1>16. ASSUME NEW g \in Fds \ {fd}, Unspoilt(g)' PROVE SameNeighbour(g)
  <2>1. sock[g] \notin spoilt' \cup {None} BY <1>8, <1>16 DEF Unspoilt
  <2>2. ~r.init \/ g \notin Overrun[fd] BY <1>14, <2>1 DEF Neighbours
  <2> QED BY <1>1, <1>8, <1>9, <1>14, <2>2
       DEF SameNeighbour, SamePlace, SameHands, SameObject, InQueue, Once
<1> QED BY <1>1, <1>4, <1>5, <1>8, <1>9, <1>10, <1>11, <1>14, <1>15, <1>16
Tells(fd) == told' = [told EXCEPT ![sock[fd]] = Append(@, Gathered(fd))]

\* writev() failed; it sent n pieces of more; or it sent the last one, and the connection
\* is kept or not.
Unwritten(fd) == DealTimer(fd) /\ phase[sock[fd]] = "shut" /\ told' = told
WrittenPart(fd, n) ==
    /\ n < Len(pieces[fd]) /\ pieces'[fd] = SubSeq(pieces[fd], n + 1, Len(pieces[fd]))
    /\ IF n = 0 THEN told' = told ELSE Tells(fd)
    /\ UNCHANGED <<sock, buf, file, spoilt>> /\ users'[fd].linger = users[fd].linger
    /\ interest'[fd] # "in"
Written(fd) == Len(pieces[fd]) = 1 /\ Tells(fd)
WrittenKept(fd) ==
    /\ Written(fd) /\ users[fd].linger /\ sock' = sock
    /\ pieces'[fd] = <<>> /\ buf'[fd] = <<>> /\ interest'[fd] # "out"
WrittenClosed(fd) == Written(fd) /\ ~users[fd].linger /\ DealTimer(fd)

\* Through an unspoilt object its own client is written to.
LEMMA WriteCases ==
    ASSUME Base, TalkInv, NEW fd \in Fds, WriteAnswer(fd), Unspoilt(fd)
    PROVE  /\ sock[fd] \in Conns /\ pieces[fd] # <<>>
           /\ \/ Unwritten(fd) \/ WrittenKept(fd) \/ WrittenClosed(fd)
              \/ \E n \in {0, 1} : WrittenPart(fd, n)
<1>1. PICK c \in Conns : c = sock[fd] /\ Peer(fd) = c /\ c # None
  BY Parameters, OwnPeer DEF Base
<1>2. OneHand(fd) /\ Steps(fd) BY DEF TalkInv
<1>3. pieces[fd] # <<>> /\ ~Armed(fd) /\ users[fd].sockfd = fd
  BY <1>2, WriteLeaves, EventHandled DEF Steps, OneHand
<1>4. /\ pieces[fd] \in Seq(Piece) /\ Len(pieces[fd]) = users[fd].out
      /\ pieces \in [Fds -> Seq(Piece)] /\ buf \in [Fds -> Seq(FromClients)]
      /\ TypeOK /\ interest \in [Fds -> {"none", "off", "in", "out"}] /\ room[c] \in {0, 1}
      /\ room \in [Conns -> {0, 1}]
  BY DEF Base, DataInv, MainInv, TypeOK
<1>5. PICK k \in Nat : k = Len(pieces[fd]) /\ k = users[fd].out /\ k > 0
  <2>1. Len(pieces[fd]) \in Nat /\ Len(pieces[fd]) # 0 BY <1>3, <1>4, EmptySeq
  <2> QED BY <1>4, <2>1
<1>6. PICK r \in Writes(fd) :
        /\ users' = Put(fd, r.user, r.init) /\ Sent(fd, r.sent)
        /\ IF r.ok THEN /\ interest' = AfterWrite(fd, r.ev) /\ sock' = sock
                   ELSE DealTimer(fd)
  BY DEF WriteAnswer, WriteProactor
<1>7. users'[fd] = r.user BY <1>6 DEF Put
<1>8. r.sent = 1 => (c # None /\ room'[c] < room[c])
  <2>1. r.sent = 1 => r.sent # 0 /\ room' = [room EXCEPT ![c] = @ - 1] BY <1>1, <1>6 DEF Sent
  <2>2. r.sent = 1 => room'[c] = room[c] - 1 BY <1>4, <2>1
  <2> QED BY <1>1, <1>4, <2>2
<1>9. r.sent = 0 => ~(room'[c] < room[c])
  <2>1. r.sent = 0 => room' = room BY <1>6 DEF Sent
  <2> QED BY <1>4, <2>1
<1>10. /\ (c # None /\ room'[c] < room[c]) => Tells(fd)
       /\ ~(c # None /\ room'[c] < room[c]) => told' = told
  BY <1>1 DEF WriteAnswer, Write, Tells
<1>11. PICK s : s = pieces[fd] OBVIOUS
<1>12. pieces'[fd] = SubSeq(s, k - r.user.out + 1, k)
  BY <1>4, <1>5, <1>7, <1>11 DEF WriteAnswer, Write
<1>13. interest'[fd] = interest[fd] \/ interest'[fd] = r.ev \/ ~r.ok
  <2>1. r.ok => interest' = interest \/ interest' = Modfd(interest, fd, r.ev)
    BY <1>3, <1>6 DEF AfterWrite
  <2> QED BY <1>4, <2>1 DEF Modfd
<1>14. CASE /\ phase[Peer(fd)] = "shut" /\ ~r.ok /\ ~r.init /\ r.sent = 0
            /\ r.user.out = users[fd].out
  BY <1>1, <1>3, <1>6, <1>9, <1>10, <1>14 DEF Unwritten
<1>15. CASE /\ r.ok /\ ~r.init /\ r.ev = "out" /\ r.user.linger = users[fd].linger
            /\ r.user.out = users[fd].out - r.sent /\ r.user.out > 0 /\ r.sent \in {0, 1}
  <2>1. PICK n \in {0, 1} : n = r.sent BY <1>15
  <2>2. r.user.out = k - n /\ k - n > 0 BY <1>5, <1>15, <2>1
  <2>3. n < k /\ k - (k - n) + 1 = n + 1 BY <1>5, <2>1, <2>2
  <2>4. pieces'[fd] = SubSeq(s, n + 1, k) BY <1>12, <2>2, <2>3
  <2>5. interest'[fd] # "in" BY <1>3, <1>13, <1>15 DEF Armed
  <2>6. UNCHANGED <<buf, file, spoilt>>
    <3>1. users'[fd].out # 0 BY <1>5, <1>7, <2>2
    <3>2. sock'[fd] # None BY <1>1, <1>6, <1>15
    <3> QED BY <3>1, <3>2 DEF WriteAnswer, Write
  <2>7. IF n = 0 THEN told' = told ELSE Tells(fd) BY <1>8, <1>9, <1>10, <2>1
  <2>8. WrittenPart(fd, n)
    BY <1>5, <1>6, <1>7, <1>11, <1>15, <2>3, <2>4, <2>5, <2>6, <2>7 DEF WrittenPart
  <2> QED BY <1>1, <1>3, <2>1, <2>8
<1>16. CASE /\ r.sent = 1 /\ users[fd].out = 1 /\ r.user.out = 0 /\ r.ev = "in"
            /\ r.ok <=> users[fd].linger
  <2>1. Written(fd) BY <1>4, <1>8, <1>10, <1>16 DEF Written
  <2>2. CASE users[fd].linger
    <3>1. InitObject(fd) BY <1>7, <1>16, <2>2 DEF WriteAnswer, Write
    <3>2. buf'[fd] = <<>> BY <1>4, <3>1 DEF InitObject
    <3>3. pieces'[fd] = <<>>
      <4>1. k - r.user.out + 1 = 2 /\ k = 1 BY <1>5, <1>16
      <4>2. pieces'[fd] = SubSeq(s, 2, 1) BY <1>12, <4>1
      <4>3. SubSeq(s, 2, 1) \in Seq(Piece) /\ Len(SubSeq(s, 2, 1)) = 0
        BY <1>4, <1>11, SubSeqProperties
      <4> QED BY <4>2, <4>3, EmptySeq
    <3>4. interest'[fd] # "out" BY <1>3, <1>13, <1>16, <2>2 DEF Armed
    <3>5. sock' = sock BY <1>6, <1>16, <2>2
    <3>6. WrittenKept(fd) BY <2>1, <2>2, <3>2, <3>3, <3>4, <3>5 DEF WrittenKept
    <3> QED BY <1>1, <1>3, <3>6
  <2>3. CASE ~users[fd].linger
    <3>1. WrittenClosed(fd) BY <1>6, <1>16, <2>1, <2>3 DEF WrittenClosed
    <3> QED BY <1>1, <1>3, <3>1
  <2> QED BY <2>2, <2>3
<1>17. \/ /\ phase[Peer(fd)] = "shut" /\ ~r.ok /\ ~r.init /\ r.sent = 0
          /\ r.user.out = users[fd].out
       \/ /\ r.ok /\ ~r.init /\ r.ev = "out" /\ r.user.linger = users[fd].linger
          /\ r.user.out = users[fd].out - r.sent /\ r.user.out > 0 /\ r.sent \in {0, 1}
       \/ /\ r.sent = 1 /\ users[fd].out = 1 /\ r.user.out = 0 /\ r.ev = "in"
          /\ r.ok <=> users[fd].linger
  BY <1>1, <1>4, <1>5, WriteChoices
<1> QED BY <1>14, <1>15, <1>16, <1>17

\* What is sent first is the piece that comes next.
LEMMA Spoken ==
    ASSUME Base, TalkInv, NEW fd \in Fds, Unspoilt(fd), pieces[fd] # <<>>, Tells(fd),
           asked' = asked, NEW c \in Conns, c = sock[fd]
    PROVE  /\ Talk!Reply(c) /\ told'[c] # <<>> /\ Len(told'[c]) = Len(told[c]) + 1
           /\ Due(c, fd, pieces[fd])
<1>1. Due(c, fd, pieces[fd]) BY DEF TalkInv, Speaks
<1>2. pieces[fd] \in Seq(Piece) /\ told \in [Conns -> Seq(Piece)] BY DEF Base, DataInv
<1>3. Len(pieces[fd]) \in Nat \ {0} /\ 1 \in DOMAIN pieces[fd] /\ Head(pieces[fd]) = pieces[fd][1]
  BY <1>2, EmptySeq
<1>4. PICK k \in Nat : k = Len(told[c]) BY <1>2
<1>5. Head(pieces[fd]) = Talk!Promised(c, k + 1)
  BY <1>1, <1>3, <1>4 DEF Due
<1>6. Gathered(fd) = Head(pieces[fd])
  <2>1. CASE Head(pieces[fd]).what = "content"
    <3>1. file[fd] = [client |-> c, nth |-> asked[c]] BY <1>1, <1>3, <2>1 DEF Due
    <3>2. Head(pieces[fd]) = [client |-> c, nth |-> asked[c], what |-> "content"]
      BY <1>5, <2>1 DEF Talk!Promised
    <3> QED BY <2>1, <3>1, <3>2 DEF Gathered
  <2>2. CASE Head(pieces[fd]).what # "content" BY <2>2 DEF Gathered
  <2> QED BY <2>1, <2>2
<1>7. PICK x : x = Gathered(fd) OBVIOUS
<1>8. told'[c] = Append(told[c], x) BY <1>2, <1>7 DEF Tells
<1>9. x \in Piece BY <1>2, <1>3, <1>6, <1>7, ElementOfSeq
<1>10. Len(told'[c]) = k + 1 /\ told'[c] # <<>>
  <2>1. PICK s : s = told[c] OBVIOUS
  <2>2. s \in Seq(Piece) /\ told'[c] = Append(s, x) /\ k = Len(s) BY <1>2, <1>4, <1>8, <2>1
  <2>3. Len(Append(s, x)) = Len(s) + 1 /\ Append(s, x) # <<>> BY <1>9, <2>2
  <2> QED BY <2>2, <2>3
<1>11. Len(told[c]) < Len(Talk!Pieces(Talk!Last(c).page))
  <2>1. PICK m \in Nat : m = Len(pieces[fd]) /\ m # 0 BY <1>3
  <2>2. k + m = Len(Talk!Pieces(Talk!Last(c).page)) BY <1>1, <1>4, <2>1 DEF Due
  <2>3. k < k + m BY <2>1
  <2> QED BY <1>4, <2>2, <2>3
<1>12. phase[c] # "new" /\ Connected(c)
  BY OneDescriptor DEF Base, Newcomer, Connected
<1> QED BY <1>1, <1>4, <1>5, <1>6, <1>7, <1>8, <1>10, <1>11, <1>12 DEF Talk!Reply, Due

\* The rest of the answer is still to be told when n pieces of it were.
LEMMA DueRest ==
    ASSUME NEW c \in Conns, NEW fd \in Fds, NEW s \in Seq(Piece), NEW n \in Nat, n <= Len(s),
           Due(c, fd, s), Len(told[c]) \in Nat, Len(told'[c]) = Len(told[c]) + n,
           UNCHANGED <<plan, asked, given, wire, file>>,
           users'[fd].linger = users[fd].linger, NEW t, t = SubSeq(s, n + 1, Len(s))
    PROVE  Due(c, fd, t)'
<1>1. /\ Talk!Last(c)' = Talk!Last(c) /\ Talk!Kept(c)' = Talk!Kept(c)
      /\ \A i : Talk!Promised(c, i)' = Talk!Promised(c, i)
      /\ Whole(c)' = Whole(c)
  BY DEF Talk!Last, Talk!Kept, Talk!Promised, Whole
<1>2. PICK k \in Nat : k = Len(told[c]) OBVIOUS
<1>3. PICK l \in Nat : l = Len(s) OBVIOUS
<1>4. /\ Len(t) = l - n /\ DOMAIN t = 1..(l - n) /\ DOMAIN s = 1..l
      /\ \A i \in 1..(l - n) : t[i] = s[i + n]
  BY <1>3, SubSeqProperties
<1>5. Len(told'[c]) + Len(t) = Len(Talk!Pieces(Talk!Last(c).page))
  <2>1. k + l = Len(Talk!Pieces(Talk!Last(c).page)) BY <1>2, <1>3 DEF Due
  <2>2. (k + n) + (l - n) = k + l OBVIOUS
  <2>3. Len(told'[c]) = k + n BY <1>2
  <2> QED BY <1>4, <2>1, <2>2, <2>3
<1>6. ASSUME NEW i \in DOMAIN t
      PROVE  /\ t[i] = Talk!Promised(c, Len(told'[c]) + i)
             /\ t[i].what = "content" => file[fd] = [client |-> c, nth |-> asked[c]]
  <2>1. i \in 1..(l - n) /\ i + n \in DOMAIN s /\ t[i] = s[i + n]
    <3>1. i \in 1..(l - n) BY <1>4, <1>6
    <3>2. i + n \in 1..l BY <3>1
    <3> QED BY <1>4, <3>1, <3>2
  <2>2. Len(told'[c]) + i = Len(told[c]) + (i + n) BY <1>2, <2>1
  <2> QED BY <2>1, <2>2 DEF Due
<1> QED BY <1>1, <1>5, <1>6 DEF Due

\* write(), then three more TIMESLOTs or the end of the connection.
LEMMA WriteTalks ==
    ASSUME Base, TalkInv, NEW fd \in Fds, WriteAnswer(fd)
    PROVE  Talks
<1>1. /\ UNCHANGED <<plan, asked, given, wire, made>>
      /\ UNCHANGED <<phase, backlog, inbox, m_workqueue, worker, userTimer>>
      /\ spoilt \subseteq spoilt'
      /\ Event("out", fd) \in batch /\ batch' = batch \ {Event("out", fd)}
      /\ \A c \in Conns : c # sock[fd] => SameClient(c)
      /\ \A c \in Conns : Newcomer(c) => c \notin live' /\ left'[c] = 0
      /\ IdleEmpty' /\ OwnNumbers' /\ users'[fd].sockfd = users[fd].sockfd
      /\ \A g \in Fds \ {fd} : Unspoilt(g)' => SameNeighbour(g)
  BY WriteLeaves
<1>2. sock' = sock \/ DealTimer(fd) BY DEF WriteAnswer, WriteProactor
<1>3. ASSUME DealTimer(fd), Fits /\ Unspoilt(fd) => Farewell(sock[fd]) PROVE Talks
  <2>1. /\ \A g \in Fds : sock'[g] = IF g \in {fd} THEN None ELSE sock[g]
        /\ userTimer' = userTimer
    BY <1>3, DealTimerCloses
  <2>2. \A c \in Conns : (\A g \in Fds \cap {fd} : sock[g] # c) => SameClient(c) BY <1>1
  <2>3. Fits => \A g \in Fds \cap {fd} :
                    Unspoilt(g) /\ sock[g] \notin spoilt' => Farewell(sock[g])
    BY <1>3
  <2> QED BY <1>1, <2>1, <2>2, <2>3, Closings
<1>4. ASSUME sock' = sock,
             Unspoilt(fd)' => /\ OneHand(fd)' /\ Steps(fd)' /\ Speaks(fd)'
                              /\ \/ Talk!Reply(sock[fd])
                                 \/ asked'[sock[fd]] = asked[sock[fd]] /\ told'[sock[fd]] = told[sock[fd]]
      PROVE  Talks
  BY <1>1, <1>4, Handlings
<1>5. CASE ~Unspoilt(fd)
  <2>1. sock' = sock => ~Unspoilt(fd)' BY <1>1, <1>5 DEF Unspoilt
  <2> QED BY <1>2, <1>3, <1>4, <1>5, <2>1
<1>6. CASE Unspoilt(fd)
  <2>1. PICK c \in Conns : c = sock[fd] BY <1>6, WriteCases
  <2>2. pieces[fd] # <<>> /\ pieces[fd] \in Seq(Piece) BY <1>6, WriteCases DEF Base, DataInv
  <2>3. OneHand(fd) /\ Steps(fd) /\ Speaks(fd) BY <1>6 DEF TalkInv
  <2>4. /\ ~InBatch(fd)' /\ ~InQueue(fd) /\ \A w \in Workers : ~Serves(w, fd)
    BY <1>1, <1>6, EventHandled
  <2>5. /\ ~InQueue(fd)' /\ \A w \in Workers : ~Serves(w, fd)'
        /\ \A kind : Event(kind, fd) \notin batch'
    BY <1>1, <2>4 DEF InQueue, Serves, InBatch, Event
  <2>6. OneHand(fd)' BY <1>1, <2>3, <2>4, <2>5 DEF OneHand, InQueue, Once
  <2>7. ~Filled(fd)' BY <2>5 DEF Filled, Fills
  <2>8. \A b : AllOf(c, b)' <=> AllOf(c, b) BY <1>1 DEF AllOf, Segment
  <2>9. Tells(fd) => /\ Talk!Reply(c) /\ told'[c] # <<>> /\ Len(told'[c]) = Len(told[c]) + 1
                     /\ Due(c, fd, pieces[fd])
    BY <1>1, <1>6, <2>1, <2>2, Spoken
  <2>10. AllOf(c, buf[fd]) /\ AllOf(c, wire[c]) /\ Due(c, fd, pieces[fd])
    BY <2>1, <2>2, <2>3 DEF Speaks
  <2>11. told \in [Conns -> Seq(Piece)] /\ Len(told[c]) \in Nat BY DEF Base, DataInv
  <2>12. /\ Talk!Last(c)' = Talk!Last(c) /\ (Talk!Kept(c)' <=> Talk!Kept(c))
         /\ Whole(c)' = Whole(c)
    BY <1>1 DEF Talk!Last, Talk!Kept, Whole
  <2>13. Written(fd) => Talk!Answered(c)'
    <3> SUFFICES ASSUME Written(fd) PROVE Talk!Answered(c)'
      OBVIOUS
    <3>1. told'[c] # <<>> /\ Len(told'[c]) = Len(told[c]) + 1 BY <2>9 DEF Written
    <3>2. Len(told[c]) + 1 = Len(Talk!Pieces(Talk!Last(c).page)) BY <2>10 DEF Written, Due
    <3> QED BY <2>12, <3>1, <3>2 DEF Talk!Answered
  <2>14. CASE Unwritten(fd)
    <3>1. Farewell(c) BY <1>1, <2>1, <2>14 DEF Unwritten, Farewell, Excused
    <3> QED BY <1>3, <2>1, <2>14, <3>1 DEF Unwritten
  <2>15. CASE WrittenClosed(fd)
    <3>1. ~Talk!Kept(c)' BY <2>10, <2>12, <2>15 DEF WrittenClosed, Due
    <3>2. Farewell(c) BY <1>1, <2>9, <2>13, <2>15, <3>1 DEF WrittenClosed, Written, Farewell
    <3> QED BY <1>3, <2>1, <2>15, <3>2 DEF WrittenClosed
  <2>16. CASE WrittenKept(fd)
    <3>1. /\ sock' = sock /\ pieces'[fd] = <<>> /\ buf'[fd] = <<>> /\ interest'[fd] # "out"
      BY <2>16 DEF WrittenKept
    <3>2. Steps(fd)' BY <2>5, <3>1 DEF Steps
    <3>3. Resting(c)'
      <4>1. wire[c] = <<>> /\ given[c] = Whole(c) BY <2>10 DEF Due
      <4> QED BY <1>1, <2>12, <2>13, <2>16, <4>1 DEF Resting, WrittenKept
    <3>4. PICK e : e = <<>> OBVIOUS
    <3>5. Awaited(c, e)' /\ AllOf(c, e)' BY <3>3, <3>4 DEF Awaited, AllOf
    <3>6. AllOf(c, wire[c])' BY <1>1, <2>8, <2>10
    <3>7. Speaks(fd)' BY <2>1, <2>5, <2>7, <3>1, <3>4, <3>5, <3>6 DEF Speaks, Fills
    <3> QED BY <1>4, <2>1, <2>6, <2>9, <2>16, <3>1, <3>2, <3>7 DEF WrittenKept, Written
  <2>17. ASSUME NEW n \in {0, 1}, WrittenPart(fd, n) PROVE Talks
    <3>1. PICK s : s = pieces[fd] OBVIOUS
    <3>2. PICK t : t = pieces'[fd] OBVIOUS
    <3>3. PICK b : b = buf[fd] OBVIOUS
    <3>4. /\ sock' = sock /\ buf'[fd] = b /\ file' = file /\ interest'[fd] # "in"
          /\ users'[fd].linger = users[fd].linger
          /\ n < Len(s) /\ t = SubSeq(s, n + 1, Len(s))
          /\ IF n = 0 THEN told' = told ELSE Tells(fd)
      BY <2>17, <3>1, <3>2, <3>3 DEF WrittenPart
    <3>5. Len(told'[c]) = Len(told[c]) + n
      <4>1. CASE n = 0 BY <2>11, <3>4, <4>1
      <4>2. CASE n = 1 BY <2>9, <3>4, <4>2
      <4> QED BY <4>1, <4>2
    <3>6. s \in Seq(Piece) /\ Len(s) \in Nat /\ n \in Nat /\ n <= Len(s) BY <2>2, <3>1, <3>4
    <3>7. Due(c, fd, s) BY <2>10, <3>1
    <3>8. Due(c, fd, t)' BY <1>1, <2>11, <3>4, <3>5, <3>6, <3>7, DueRest
    <3>9. t # <<>>
      <4>1. Len(t) = Len(s) - n BY <3>4, <3>6, SubSeqProperties
      <4>2. Len(t) # 0 BY <3>4, <3>6, <4>1
      <4> QED BY <4>2
    <3>10. Steps(fd)' BY <2>5, <3>2, <3>4, <3>9 DEF Steps
    <3>11. AllOf(c, b)' /\ AllOf(c, wire[c])' BY <1>1, <2>8, <2>10, <3>3
    <3>12. Speaks(fd)' BY <2>1, <2>5, <3>2, <3>4, <3>8, <3>9, <3>11 DEF Speaks, Fills
    <3>13. Talk!Reply(c) \/ (asked'[c] = asked[c] /\ told'[c] = told[c])
      BY <1>1, <2>9, <3>4
    <3> QED BY <1>4, <2>1, <2>6, <3>4, <3>10, <3>12, <3>13
  <2> QED BY <1>6, <2>14, <2>15, <2>16, <2>17, WriteCases
<1> QED BY <1>5, <1>6

-----------------------------------------------------------------------------
(* The conversations as a whole. *)

LEMMA InitTalks ==
    ASSUME C5Init
    PROVE  TalkInv
<1>1. /\ \A fd \in Fds : sock[fd] = None /\ users[fd].sockfd = None
      /\ \A w \in Workers : worker[w].fd = None
      /\ backlog = {} /\ live = {}
      /\ \A c \in Conns : asked[c] = 0 /\ wire[c] = <<>> /\ left[c] = 0
  BY DEF C5Init, Init, TS!Init, NewUser, Idle
<1>2. \A fd \in Fds : ~Unspoilt(fd) BY <1>1 DEF Unspoilt
<1>3. ASSUME NEW c \in Conns PROVE Awaited(c, <<>>) /\ AllOf(c, wire[c])
  <2>1. asked[c] = 0 /\ wire[c] = <<>> BY <1>1
  <2>2. Resting(c) BY <2>1 DEF Resting, Talk!Answered
  <2>3. AllOf(c, wire[c]) BY <2>1 DEF AllOf
  <2> QED BY <2>2, <2>3 DEF Awaited
<1>4. Newcomers BY <1>1, <1>3 DEF Newcomers
<1>5. IdleEmpty /\ OwnNumbers /\ OwnTimers BY <1>1 DEF IdleEmpty, OwnNumbers, OwnTimers
<1> QED BY <1>2, <1>4, <1>5 DEF TalkInv

LEMMA StillTalks ==
    ASSUME Base, TalkInv, UNCHANGED <<vars, data>>
    PROVE  Talks
<1>1. /\ UNCHANGED <<plan, asked, given, wire, buf, checked, file, made, pieces, told, spoilt>>
      /\ UNCHANGED <<sock, interest, users, worker, batch, m_workqueue, inbox, live, left, phase,
                     backlog, userTimer>>
  BY DEF data, asking, object, vars, net, epoll, timers, loop
<1>2. \A c \in Conns : SameClient(c) BY <1>1 DEF SameClient
<1>3. \A fd \in Fds : SameNeighbour(fd)
  BY <1>1 DEF SameNeighbour, SamePlace, SameHands, SameObject, InQueue, Once
<1>4. IdleEmpty' /\ OwnNumbers' BY <1>1 DEF TalkInv, IdleEmpty, OwnNumbers
<1>5. \A c \in Conns : Newcomer(c) => c \notin live' /\ left'[c] = 0
  BY <1>1 DEF TalkInv, Newcomers
<1>6. PICK S : S = {} OBVIOUS
<1>7. /\ \A fd \in Fds : sock'[fd] = IF fd \in S THEN None ELSE sock[fd]
      /\ Fds \cap S = {} /\ spoilt \subseteq spoilt'
  BY <1>1, <1>6
<1> QED BY <1>1, <1>2, <1>3, <1>4, <1>5, <1>7, Closings

LEMMA TalksStep ==
    ASSUME Base, TalkInv, [C5Next]_<<vars, data>>
    PROVE  Talks
<1>1. CASE C5Client BY <1>1, ClientTalks, SendTalks DEF C5Client
<1>2. CASE OtherEvent
  <2>1. UNCHANGED data BY <1>2 DEF OtherEvent
  <2>2. EpollWait \/ AcceptFails \/ ServerBusy \/ DealWithSignal \/ \E fd \in Fds : HangUp(fd)
    BY <1>2 DEF OtherEvent
  <2> QED BY <2>1, <2>2, WaitTalks, NoObjectTalks, BusyTalks, HangUpTalks
<1>3. CASE \E c \in Conns, fd \in Fds : AcceptConnection(c, fd) BY <1>3, AcceptTalks
<1>4. CASE \E fd \in Fds : ReadRequest(fd) \/ WriteAnswer(fd) BY <1>4, ReadTalks, WriteTalks
<1>5. CASE EndOfBatch BY <1>5, TickTalks
<1>6. CASE TimeAndSignals
  <2>1. UNCHANGED data BY <1>6 DEF TimeAndSignals
  <2> QED BY <1>6, <2>1, NoObjectTalks
<1>7. ASSUME NEW w \in Workers, C5Work(w) PROVE Talks
  BY <1>7, OtherWorkTalks, ParseTalks, FillTalks DEF C5Work
<1>8. CASE UNCHANGED <<vars, data>> BY <1>8, StillTalks
<1> QED BY <1>1, <1>2, <1>3, <1>4, <1>5, <1>6, <1>7, <1>8 DEF C5Next, C5Main

\* In every state, for every connection that nothing came in the way of, one thread at a
\* time has its object, the place of the object says how far its answer has got, and what
\* the buffer, m_iv and the client have are parts of one request and one answer.
THEOREM ConversationsInvariant == C5Spec => []TalkInv
<1>1. Base /\ TalkInv /\ [C5Next]_<<vars, data>> => TalkInv' BY TalksStep DEF Talks
<1>2. MainInv /\ DataInv => Base BY DEF Base
<1> QED BY <1>1, <1>2, InitTalks, Inherited, CountersAgree, PTL DEF C5Spec

\* read_once() never puts two requests, or those of two clients, into one m_read_buf:
\* whatever the clients ask for, in whatever pieces it comes.
THEOREM OneRequestAtATime == C5Spec => []OneRequestInBuffer
<1>1. TalkInv => OneRequestInBuffer
  BY DEF TalkInv, Unspoilt, Speaks, AllOf, OneRequestInBuffer
<1> QED BY <1>1, ConversationsInvariant, PTL

\* Whatever threads, timers and other clients do, the server answers each client as
\* Conversation.tla promises, when no request is longer than m_read_buf (for such a one
\* read_once() fails and the connection ends).
THEOREM ConversationsKept ==
    ASSUME Fits
    PROVE  C5Spec => KeepsConversations
<1>1. Base /\ TalkInv /\ [C5Next]_<<vars, data>> =>
          [\A c \in Conns : c \notin spoilt' => Talk!Step(c)]_<<plan, asked, told, phase, backlog, sock>>
  BY TalksStep DEF Talks
<1>2. MainInv /\ DataInv => Base BY DEF Base
<1> QED BY <1>1, <1>2, ConversationsInvariant, Inherited, CountersAgree, PTL
        DEF C5Spec, KeepsConversations
=============================================================================
