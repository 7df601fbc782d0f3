# Formal model of TinyWebServer

TLA+ modules for the web server of this repository, the TLC configurations that
model-check them, and proofs for TLAPS.  The repository holds three versions of
the server: `Webserver/` (epoll, a thread pool, timers on SIGALRM), the one modelled
in most detail; `Webserver_asio/`, its successor on boost::asio; and `chap.5/`, an
earlier version of the first, which is modelled with what its buffers hold.

To parse, check and prove a module:

    tlasany WebServer.tla
    tlc -workers 2 -config Server.cfg MCWebServer.tla
    tlapm ThreadPoolProofs.tla

`PROJECT.json` lists the runs, the source lines each definition models, the hazards
the properties are for, and, for every property, a mutant of the model - a mistake
one could make in that line of the code - that makes it fail.

Contents: [1 The system](#1-the-system) ·
[2 The modules](#2-the-modules) ·
[3 The runs](#3-the-runs) ·
[4 Where the code's promises end](#4-where-the-codes-promises-end) ·
[5 Fairness](#5-fairness) ·
[6 Proofs](#6-proofs) ·
[7 What is not modelled](#7-what-is-not-modelled) ·
[8 Plan](#8-plan)


## 1 The system

### Webserver/

| Component | State | Operations | Who calls them |
|---|---|---|---|
| Main loop, `webserver.cpp` | `users[fd]`, `users_timer[fd]`, `m_pipefd`, `m_epollfd` | `eventLoop`, `dealclientdata`, `dealwithread`, `dealwithwrite`, `dealwithsignal`, `deal_timer`, `adjust_timer`, `timer` | the main thread only |
| Signals, `lst_timer.cpp` | the signal pipe, `alarm()` | `sig_handler`, `timer_handler`, `cb_func` | the kernel; the main thread |
| Timers, `lst_timer.cpp` | a doubly linked list in order of `expire` | `add_timer`, `adjust_timer`, `del_timer`, `tick` | the main thread only |
| Thread pool, `threadpool.h` | `m_workqueue`, `m_queuelocker`, `m_queuestat` | `append`, `append_p`, `run` | main thread (append), workers (run) |
| Connection object, `http_conn.cpp` | buffers and indices, parser state, `m_iv`, the mapped file, `improv`, `timer_flag`, static `m_user_count` | `init`, `read_once`, `process`, `process_read`, `process_write`, `write`, `close_conn` | main thread and workers, by turns |
| Users, `http_conn.cpp` | the global map `users`, `m_lock`, the table `user` | `initmysql_result`, the `/2` and `/3` branches of `do_request` | workers |
| MySQL pool, `sql_connection_pool.cpp` | `connList`, the semaphore `reserve`, `lock`, two counters | `GetConnection`, `ReleaseConnection`, `DestroyPool` | workers; the exit handler |
| Blocking queue, `block_queue.h` | a ring, its mutex and condition variable | `push`, `pop` (with and without a deadline), `front`, `back`, `clear` | threads that log; the flush thread |
| Log, `log.cpp` | `m_fp`, `m_today`, `m_count`, `m_buf`, the queue | `write_log`, `flush`, `async_write_log` | every thread; the flush thread |
| Configuration, `config.cpp` | the values of the command line | `parse_arg` | `main()` before anything runs |

How they interact.  The main thread owns epoll, the timers and `accept()`.  Every
connected socket is registered with EPOLLONESHOT, so the object `users[fd]` passes
from the kernel to the main thread, to the queue, to a worker and, by `modfd()`, back to the
kernel.  In the simulated *proactor* the main thread reads and writes and the
worker parses; in the *reactor* the worker does both and the main thread spins on
`improv` until it has, then closes the connection if `timer_flag` is set.  SIGALRM
reaches the main thread as a byte in a pipe, is handled after the other events of
the batch, and arms `alarm()` again.  Workers share `m_user_count`, the map of users
and the MySQL pool; everybody shares the log.

What is hard about it:

- *interleavings*: one object in several hands; `improv` and `timer_flag`, which are two
  plain integers written one after the other; a semaphore posted after the unlock;
  `connList.size()` and `users.find()` outside their locks; `localtime()`'s static result;
- *stale state*: `users_timer[fd].timer` after its timer was deleted; a timer that
  outlives its connection because a worker closed it; `tail` of a list that `tick()`
  emptied; a mapping that outlives its connection; a date read before the mutex;
- *ordering and partial progress*: requests in any segments, answers in any
  pieces, signals beside events, lines beside a rotation of the file;
- *limits*: a full request queue whose refusal nobody looks at, a full log queue, no free
  descriptor, a full read buffer;
- *failure*: INSERTs that fail, crashes and restarts, clients that hang up at any
  point;
- *things that must happen*: a connection ends, a waiter is served, a line is
  written, `write()` returns.

What correct means for each component is what the properties of its module say;
they are listed run by run in section 3.

### Webserver_asio/

| Component | State | Operations |
|---|---|---|
| Connection, `http/http_conn.cpp` | socket, `m_timer`, `m_read_buf`, `m_write_buf`, the mapped file | `start`, `read_once`, `process`, `async_write_chunk`, `start_timer`, `close_conn`, and their completion handlers |
| `AsioIOServicePool` | the io_contexts, their `work` objects, threads, `_nextIOService` | `GetIOService`, `Stop` |
| `main.cpp` | - | makes the CServer, stops the pool on SIGINT or SIGTERM |
| CServer | accepts, creates connections | not in the repository |
| `Session/` | - | left over from another program; not compiled |
| log, MySQL pool, lock | as in Webserver | copies |

The handlers of one connection run on one thread, the one of its io_context;
completions, clients, the timer and the accepting thread interleave with them.
Objects live as long as a handler holds a pointer to them.

### chap.5/

The same architecture as one `main()`: simulated proactor, level-triggered, no reactor.

| Component | State | Operations |
|---|---|---|
| Main loop, `main.cpp` | `users[fd]`, `users_timer[fd]`, the signal pipe | the body of the loop over events, `cb_func`, `timer_handler`, `sig_handler` |
| Connection object, `http_conn.cpp` | read and write buffer, `m_checked_idx`, `m_iv`, the mapped file | `init`, `read_once`, `process`, `write`, `close_conn` |
| Pool, timers, queue, log | as in Webserver | as there; `threadpool.h` tests the queue's bound with `>` |
| `processpool.h` | - | an unfinished header |

What is hard there is what the two threads leave in one object for each other: the bytes of a
request, the place up to which they were looked at, the mapping, the answer; and `init()`, which clears twice
the length of `m_write_buf`, that is, the rest of its object and the beginning of the next one in the array.


## 2 The modules

| Module | Models | Composes |
|---|---|---|
| `TaskQueue` | what the pool promises: a bounded FIFO of requests with answers to producers | abstract |
| `ThreadPool` | `threadpool<T>`, statement by statement around lock, unlock, post and wait | implements `TaskQueue` |
| `TimerSet` | what the timer list promises: a set of timers with the time each has left | abstract |
| `TimerList` | `sort_timer_lst` with its pointers, addresses used again, and a wall clock that may be set back | implements `TimerSet` |
| `WebServer` | main thread, workers, connection objects, epoll, sockets, alarm, signal pipe, clients | uses `TimerSet`; its `m_workqueue` is the queue `ThreadPool` implements |
| `HttpParse` | `read_once()` and `process_read()`, line by line | refines the "more / answer / fail" choice of `WebServer` |
| `HttpWrite` | `process_write()`, `write()`, the mapping | refines the pieces of an answer of `WebServer` |
| `UserTable` | registration and login, map and table | |
| `ConnPool` | the MySQL pool | |
| `Fifo` | what the blocking queue promises | abstract |
| `BlockQueue` | the ring, its condition variable | implements `Fifo` |
| `Log` | `write_log()`, `flush()`, the flush thread | its queue is the one `BlockQueue` implements |
| `AsioServer` | `Webserver_asio`: connections, handlers, the pool of io_contexts | |
| `Conversation` | what the server promises one client: its answers, in order, piece by piece, once | abstract |
| `Chap5` | `chap.5`: requests, buffers, mappings and answers over the control of `WebServer` | extends `WebServer`; its steps are steps of `Conversation` for every client |

`MC*` modules give the constants values for TLC and define symmetry; `*Proofs`
modules hold the theorems (`ServerProofs` those of `WebServer` and `Chap5`, `ComponentProofs` those of `BlockQueue`,
`TimerList` and `HttpParse`).

Granularity.  A critical section that holds its mutex throughout and touches only
what the mutex protects is one step, except in `ThreadPool`, whose subject is the
mutex itself.  What the code reads before a lock, after an unlock or with no lock is a step of its
own: the test of `connList.size()`, `users.find()`, the two halves of
`m_user_count--` in a worker, `localtime()` and the copy of its result, `full()` and
then `push()`, `improv` and then `timer_flag`.  Where the code has a data race the
module has the outcomes: `StoreCount` may lose either update, `Found` may miss a name
while another thread is in `users.insert()`.

Signals and waits.  SIGALRM and SIGTERM are caught without SA_RESTART and no thread masks them, so `sem_wait()` may fail
with EINTR in any thread.  `sem::wait()` returns false then, which `run()` and `GetConnection()` ignore: they go on without a
unit of the semaphore.  `ThreadPool` and `ConnPool` have that as `Interrupted`.  `run()` tests the queue again and survives it;
`GetConnection()` calls `front()` of a list that may be empty, after which nothing is said of the program (`Defined`).
In `WebServer` such a wakeup is a stutter.

### WebServer

`mpc` is where the main thread is: in `epoll_wait()`, handling the `batch` of events it
returned, in the accept loop, spinning for `spinFd`, or stopped.  Each handler of an event is one
action: `Accept`, `AcceptFails` and `ServerBusy` are `dealclientdata()`; `HangUp` is the EPOLLRDHUP
branch; `ReadProactor`, `WriteProactor` and `HandOver` are `dealwithread()` and
`dealwithwrite()`; `SpinEnds` is the end of the loop on `improv`; `DealWithSignal` and `EndBatch` do the rest of an
iteration, timers included.  Events of a batch are handled in any order, which
includes the one epoll chose.  `Occurred` and `Oneshot` are what EPOLLONESHOT does;
`edge` is an edge-triggered event of the listening socket.  A worker walks
`Take`, `Recv` or `Transmit`, `Improv`, `Verdict`, `Parse`, `Fill`, `CloseConn`, `Forget`, `LoadCount`,
`StoreCount`, `Rearm`, and every other thread may run between any two of these.

Data: a request is the segments it arrives in, an answer the pieces it is sent in,
and `src` and `osrc` remember whose they are.  `left[c]` counts TIMESLOTs down instead of keeping
absolute times.  A timer is named by the connection it was made for, so a pointer to
a deleted timer can be told from one to the timer that replaced it.

### Chap5

The control of `chap.5/main.cpp` is that of `WebServer` with `actormodel`, `LISTENTrigmode` and `CONNTrigmode`
all 0, so `Chap5` is written as a superposition: each of its actions is an action of `WebServer` and an
effect on the data.  What `WebServer` leaves open - whether a request is complete, is answered or fails, whether
it is kept alive, in how many pieces it is answered - is determined there by what is in `m_read_buf`.  `ReadOnce`,
`Write` and `InitObject` are the functions of the code; `ParseRequest` is `process()` up to `process_write()`,
`FillAnswer` the rest of it.  A segment knows whose request it is of; a mapping and the pieces of an answer
know for whom they were made; so a wrong byte is a piece with another name.  `Gathered` is what makes that matter: `writev()` takes the header
from `m_write_buf` and the content from whatever file is mapped *now*.

Taken as given: requests are shorter than the 780 bytes that another object's `init()` reaches, so it clears a whole
head; that `bzero()` is one step; descriptor 0, which `m_sockfd` becomes, is not a socket, so `recv()` on it fails, while
`writev()` may fail or write any part of the answer to whatever it is (what `close(0)` may lead to is left out).  As no more is
read into a buffer once it was wiped, its segments are wiped together: a head is never half gone.  `Overrun` names the objects an `init()` reaches; in
`Server` and `ServerLive`, which are about Webserver, it is empty.  A worker whose request lost its head
but not its body makes the process end (`Dies`: `strrchr()` of a null `m_url`); the model stops that worker.

### The others

`HttpParse`: the text of a line, CR, LF and a byte of a body are one cell of `m_read_buf` each; one
step is one iteration of the loop in `process_read()`; `parse_line()` overwrites
line ends with NUL as the code does.  What clients ask is what `ParseParameters` says: the method and the end of the first line may be
wrong, the body may hold line ends, and is as long as the last Content-length among the headers.  `HttpWrite`: `version` says which of the two updates of `m_iv` runs; a byte is known by its place in the
answer, `m_iv` by the place and length of its two parts; what a wrong `iov_base` would read is `Garbage`.
`UserTable`: the schema of the table is not in the repository, so the database may accept or refuse any
INSERT.  `Log`: a line is `<<writer, number>>`, a file `[day, part]`.  `BlockQueue`:
the deadline of a timed `pop()` may pass at any moment (`Expire`), which covers
every value the code's arithmetic on `timespec` can give.  `AsioServer`: an object is a
record with its pending operations and the queue of handlers ready to run, a request a head and perhaps a body;
`Process`, `WriteDone`, `Timeout` and `CloseConn` are the handlers, functions of that record.  `async_read_until()` reads
chunks of bounded size, so `Arrive` takes any number of segments from the first end of a head on, and may leave a part of the next
head in the socket (a "tail"; a "body" if not even its blank line was read).  Two reads of what nothing has written have no defined
outcome: a form whose body was not read, which `do_request()` scans for '&', and `unmap()` of an address that no
constructor sets, after a first answer that is an error page.  `Undefined` ends the model there; that the memory happens to be harmless and the
handler goes on is the other possibility.


## 3 The runs

Deadlock is checked except where the system may stop: `ConnPool` (after
`DestroyPool()`), `Log` (all lines written), `ServerLive` and `Chap5` (after SIGTERM), `AsioServer`
(after `Stop()`).

| Run | Instance | Distinct states |
|---|---|---|
| `ThreadPool` | 2 producers, 2 workers, 2 requests, a queue of 2, up to 2 interrupted waits not made up for | 58 thousand |
| `TimerList` | 4 timers, lifetime 2, clock 0..3 in both directions | 630 thousand |
| `ConnPool` | 3 threads, 2 connections, DestroyPool at any moment, 2 interrupted waits | 4.2 thousand |
| `HttpWrite` | both versions, header of 5 bytes, files of 2 and 8, socket buffer of 6 | 32 thousand |
| `HttpParse` | 11 requests, a buffer of 10 cells, both trigger modes | 5.8 thousand |
| `UserTable` | 2 workers, 2 names, 2 passwords, 3 rows | 530 thousand |
| `BlockQueue` | 3 threads, 2 items, a ring of 2 | 119 thousand |
| `Log` | 2 writers of 2 lines, a split every 2 lines, 2 days, queue of 1 or none | 264 thousand |
| `Server` | 2 connections, 2 descriptors, 2 workers, LT, proactor and reactor, answers in 2 pieces | 2.6 million |
| `ServerLive` | 2 connections, 1 descriptor, 1 worker, proactor LT and reactor ET, slow and failing workers, SIGTERM, fairness | 358 thousand |
| `AsioServer` | 2 connections, 2 io_contexts, fairness | 190 thousand |
| `Chap5` | 2 clients with up to 2 requests, 2 neighbouring objects, 1 worker, 4 plans, fairness | 402 thousand |

Each module has one invariant that a run checks as a whole: the conjunction of its types
and of its named parts, which are listed below in brackets.  Some are inductive as they are
(`PoolInv`, `LendingInv`, `RingInv`), the others with what section 6 adds (`MainInv`, `TableInv`, `AnswerInv`, `ConnInv`, `DataInv`,
`LinesInv`, `ListInv`, `ParseInv`).

- **ThreadPool**.  `PoolInv` (`HolderInside`: the mutex excludes; `WakeupPerTask`: semaphore, producers
  about to post and workers that are awake have a wakeup for every request, though the post follows the
  unlock and signals end waits, and exceed the queue by exactly the interrupted waits nobody has made up for (`spare`);
  `PopsWhatItRead`: the request `front()` returned is the one `pop_front()` removes;
  `RoomIsStillThere`, `LengthWithinLimit`, `LocalsGiven`).  `ImplementsQueue`: a bounded FIFO, with the liveness of
  `TaskQueue` - an accepted request does reach a worker, interrupted waits or not.  Two of everything is the
  least with which two producers race for the last place and two workers for one request, and two interrupts let
  both workers meet an empty queue.  The run has the bound of Webserver; `PoolIsAQueue` covers that of chap.5.
- **TimerList**.  `ListInv` (`WellFormed`: prev and next agree and reach the same timers, whatever was deleted
  and whatever address was used again; `Ascending`) and `ImplementsSet`: in order,
  and `tick()` removes exactly the expired timers, unless the wall clock was set back
  while the list was not empty.  Four timers give every case of the insertion loop: head, between, tail, behind a moved one.
- **ConnPool**.  `LendingInv` (`OneHolder`, `ReserveCounts`, `CountsAgree`, `ClosedUnused`, and
  `UndefinedOnEmpty`, `HeldInUse`, `AllAccounted`, `ClosedGone`), `NullOnlyWhenAllLent`, and
  `WaitersServed`: somebody gets past the semaphore while anybody waits.  `ReserveCounts` is the balance of the semaphore: with
  the threads past it, it exceeds the list by the waits that were interrupted; only those make a thread meet an empty list, which is theorem
  `ListNeverRunsOut`.
  Three threads on two connections: one gets NULL or waits while the others give back in either order, or goes on
  interrupted and finds nothing.
- **HttpWrite**.  `RightBytes`; `AnswerInv` (`CountsAnswer`, `MappedWhileSending`); `MappingsEnd`: an
  answer unmaps its own mapping with its own length, and none is overwritten while mapped;
  `WriteReturns`.  All over any partial writev() calls, several answers on one connection
  and several connections at one object.  A file smaller and one larger than the
  socket buffer, so that answers end in the first call or in a later one; a header long enough that it can be cut
  twice in its first half, which is where the two versions differ.
- **HttpParse**.  `ParseInv` (`SameAsWhole`: however the bytes are cut, the verdict is that of the whole request
  and nothing of the request before is left in it; `WaitsForMoreOnly`), `ClosedIfTooLong`,
  `EveryRequestEnds`.  Of ten cells three requests need all, and three
  need more; two bodies hold line ends, which `parse_line()` finds when the body comes in two segments.
- **UserTable**.  `TableInv` (`ToldIsStored`: a page that confirms an account is sent only with the row in the table, so
  no crash takes it away; `ToldStaysTaken`, `MapHasTable`), `PasswordKept`, and, unless
  look-ups overlapped, `AccountsWork` (`ToldCanLogIn`, `NamesUnique`).  Three rows admit two of the same name and one of another.
- **BlockQueue**.  `RingInv` (`RingAgrees`, `BackIsSlot`, `NoSleeperForgotten`), `ImplementsFifo` (order, nothing lost or
  taken twice, `push()` refused only when the ring is full, only a `pop()` with a deadline gives up), `PopsServed`.
  With a ring of two, indices wrap on every other push; with three threads two wake for one item.
- **Log**.  `LinesInv` (`LinesKept`: every finished line is in exactly one place, unless `push()` refused it;
  `DurableOnReturn`: without a queue the line is in its file when `LOG_INFO()` returns, even if
  another thread has changed the file in between).  `SplitBound`: a file is too long by at most the lines that can
  be late; with the queue that is more than the lines of this run, which so tests it without one, and theorem `FilesAreBounded` has both.
- **Server**.  The invariants of hand-over, where handlers are quicker than timers (`Prompt`) and `process()`
  always answers: `ExclusiveHandling` (armed, reported, queued or in one worker's hands, never two of these),
  `NoCrossTalk`, `UserCountExact`, and `ClosedForCause` (`OnlyIdleTimedOut`, `NeverClosedInHand`).  Two clients, one with
  two requests and keep-alive, two descriptors that are closed and used again, a queue of one,
  answers in two pieces of which the socket takes one, timers of one TIMESLOT that every
  request has to renew.
- **ServerLive**.  What must hold in every condition: `MainInv` (`TimerAlive`: the main thread never uses a pointer to a
  deleted timer; `Registered`, `OneEventEach`, `MainShape`: what epoll watches, what a batch holds, whom the main
  thread spins for; `WorkerHasRequest`), `AlarmNeverLost`, `SpinIsAnswered`, and in the end
  `ConnectionsEnd` (every connection is closed once its client stops sending, whatever the workers do; the refused
  request and the malformed line end this way) and `AcceptedEventually`.
  One descriptor is enough: it is used again at once, which is when a stale pointer bites.
  SIGTERM comes before any client (`TermAfter = {0}`, a bound for the size), and clients come and go on until the main
  thread has left its loop; in `Chap5` it comes at any moment of the plan of `Interrupted`, in `Server` it does not come.
- **AsioServer**.  `ConnInv` (`OneOperation`: reads and writes of a connection alternate, though nothing but the order of the
  handlers makes them; `NeverSpoiled`: `m_read_buf` is not cleared under a pending read; `TimerCovers`: an open connection
  has a wait pending; `MappedWhileSending`; `StopWaits`: a thread ends after the connections of its io_context),
  `AnswersWhole` (whole, in order, and none to the rest of a request that was taken for a request line, unless a read had cut it off),
  `HandlersFindObject`, and for clients that are `Quiet` - who have hung up, or sent all they will send - `ConnectionsEnd` and `StopReturns`: a
  client that keeps sending renews its timer for ever, and `Stop()` waits for it for ever.
  One client with two requests meets every reuse of an object; one with a request beside a silent one meets two threads and `Stop()`'s order of joining.

- **Chap5**.  `KeepsConversations`: every step of the whole server is, for every client, a step of `Conversation` -
  the next piece of the answer its own last request deserves, an end that has a cause, or nothing - through
  slow workers, hang-ups, timeouts, reuse of descriptors and SIGTERM, unless another connection came in its way
  (`spoilt`).  `OneRequestInBuffer`: `m_read_buf` holds one request at a time, that of the client at the descriptor.
  `RequestsAnswered`: a whole request is answered, or its connection closed, without a timer; time is not
  fair in this run.  `DataInv`: the data are what the counters of `WebServer` count.
  The four plans are: a file with keep-alive and then an empty file; a body in two pieces; a malformed line beside a missing
  page; an unreadable file beside a silent client while SIGTERM may arrive.  With as many descriptors as clients
  nobody is turned away here; `Server` and `ServerLive` do that.

Every action and every disjunct of a next-state relation is taken in some run.

### Bounds

`Segments`, `Loads`, `Plans`, `Interrupted` of `Chap5`, `MaxSpare`, `MaxInterrupts`, `MaxLines`, `MaxRows`, `MaxNow` and `MaxDay` stop clients, writers, the
table and clocks from going on for ever, and in `AsioServer` the last request of a client has no body; each has a comment that calls it a bound.  Other
constants are the program's own parameters at small values (`MaxRequests`, `BufSize`,
`MaxFd`, `Life`, `SplitLines`, `RoomMax`).  Symmetry is used only in runs without
liveness: workers and descriptors everywhere, connections only where all of them send
equally much, timers, and the threads of `UserTable`.


## 4 Where the code's promises end

Some properties hold only under a condition, which the property names, mostly
through a history variable.  Each condition is something the code does that
was met while modelling it, and taking the condition out makes TLC show it.

| Condition | What the code does |
|---|---|
| `missed`, in `ExclusiveHandling`, `NoCrossTalk`, `NeverClosedInHand` | a reactor worker sets `improv` and then `timer_flag`; the main thread may leave its loop in between, and the verdict then closes the connection at the next hand-over, while a worker has it |
| `Prompt`, in run `Server` | a timer may expire while a worker has the request; `tick()` closes the socket and the descriptor, and so the object, serves the next client at once |
| no "fail" in `Outcomes`, in run `Server` | `close_conn()` in a worker leaves the connection's timer in the list; that timer later closes whoever has the descriptor and decrements `m_user_count` a second time |
| `turnedAway`, in `AcceptedEventually` | with the listening socket edge-triggered the accept loop is left when the server is busy or `accept()` fails, and the clients still in the backlog cause no further event |
| `FewCuts`, in `HttpWrite` | when the header itself goes out in three writev() calls or more, `m_iv[0].iov_len` has the total subtracted from a remainder (Webserver), or the total is compared with a remainder (chap.5, once more than half of the header is sent): the client gets wrong bytes, or `write()` spins on empty parts |
| `cut`, in `HttpWrite` | a connection closed while it sends leaves its mapping to the object; the next one loses it, or unmaps it with another file's length |
| `bodyCut`, in `Plain` | a body in two segments: `parse_line()` has scanned the first part already and `m_checked_idx` is past it, so the server waits although it has everything |
| the line end, in `Plain` | LINE_BAD is answered with NO_REQUEST: the client of a malformed line waits for the timer |
| `raced`, in `UserTable` | two registrations that looked a name up before either inserted it both INSERT; the later row may win after a restart |
| a failed INSERT | the name is put in the map all the same: it cannot be registered again until a restart, but can log in.  The properties allow it: nobody was told that the account exists |
| `dropped`, in `LinesKept` | another writer fills the queue between `full()` and `push()`, whose answer is ignored |
| `wentBack`, in `SplitBound` | a writer that read the clock before midnight takes up the old day's file again after another began the new one |
| `stepped`, in `TimerList` | `adjust_timer()` only ever moves a timer towards the tail; a clock set back leaves the list out of order until it has been empty |
| all connections lent, in `NullOnlyWhenAllLent` | `GetConnection()` returns NULL instead of waiting; `process()` goes on with it |
| `Version` | with `>` in `chap.5/threadpool.h` the queue may hold one request more than `m_max_requests`; `LengthWithinLimit` states the limit of each version, `QueueRespectsMaximum` that of Webserver |
| `blocked`, in `AnswersWhole` | `process()` clears `m_write_buf` when `async_write_chunk()` has returned; a header for which the kernel's buffer had no room is sent as zeros |
| `late`, in `HandlersFindObject` | the handler of `async_write()` captures `this` and no shared pointer; if the timer closes the connection during an answer, nobody else may hold the object |
| `cut`, in `AnswersWhole` | `parse_content()` does not wait for the body, and a read ends anywhere behind a head; what is read later stands in front of the next request line, whose client is told 400 |
| `~undefined`, in `ConnectionsEnd` and `StopReturns` of `AsioServer` | a form whose body was not read is scanned beyond the end of a string; `unmap()` may be given an address nothing has set |
| `Quiet`, in the same | a client that keeps sending renews its timer with every request, and `Stop()`, which closes no connection, joins the threads of its io_context for ever |
| `interrupted`, in `TakeFinds`, and `Defined`, in `WaitersServed` | `GetConnection()` ignores that `reserve.wait()` failed: a thread whose wait a signal ended calls `front()` of a list that may be empty |
| `spare`, in `WakeupPerTask` | `run()` ignores that `m_queuestat.wait()` failed: the worker may take a request and leave its wakeup, for which another worker finds the queue empty |
| `spoilt`, in `KeepsConversations`, `OneRequestInBuffer` | chap.5: a request of the connection before is still in the queue or with a worker, or an event of it in the batch (a worker may close a connection whose hang-up waits there), when the descriptor is used again; a timer that `close_conn()` left behind closes the connection; `init()` of the object before clears the start of this one |
| `BodyCut`, in `RequestsAnswered` | chap.5, as `bodyCut`: a part of a body was looked at before the rest came |
| an empty file, in `Conversation` | chap.5: `process_write()` makes an answer for it and then falls through to `default: return false`; the client gets nothing |
| "and open", in `MappedWhileSending` of `AsioServer` | a write error, or the timer, closes a connection without unmapping its file |

Met as well, and without a property: in `AsioServer` the timer is not renewed while an answer is sent, so it cuts long downloads off; requests
that arrive together with another are discarded with `m_read_buf` (in both
versions pipelining is not served);
`init(sockfd, ...)` registers the socket with the trigger mode the object had before (for a new object an uninitialized one), which cannot be
observed because EPOLLONESHOT reports the first event in either mode and `modfd()` sets the right one; after a failed `recv()` in level-triggered
mode `m_read_idx` is one less, which only matters if the connection is not closed then, that is after a verdict the main thread missed.


## 5 Fairness

Clients, crashes, signals from outside and the wall clock being set are never fair.

- `ThreadPool`: signals are not fair; each thread's steps outside the mutex are weakly fair, taking the mutex
  strongly fair: the mutex becomes free again and again and the scheduler lets every waiter have it at some point.
- `ConnPool`: weak fairness of each thread's steps; the semaphore lets *some* waiter pass, not a given one.
- `HttpWrite`, `HttpParse`: the loop of the thread that has the object runs; epoll reports what was armed.
- `BlockQueue`: a thread that woke up gets the mutex.
- `WebServer`: the main thread, each worker, the clock and the delivery of SIGALRM.  `FairSpec` asks for one step of the
  main thread at a time, not for a choice among its events.
- `Chap5`: the main thread, each worker, and clients read what they are sent (without which no answer ends); nothing is asked of clock and signals.
- `AsioServer`: a thread runs the handlers of its io_context, which asio keeps in order; the timer of a client that
  is quiet expires - that of another need not, since each request renews it; the main thread goes on in `Stop()`.

Liveness is not proved and is only as good as these instances: TLAPS reasons neither
about fairness nor about ENABLED.


## 6 Proofs

Every theorem is for all values of the constants that meet the module's
named assumptions (numbers are naturals, positive where a size, `None` is not one of the
things it is compared with, sets of threads are finite where they are counted).

The invariant of section 3 that a run checks as a whole is a theorem for every instance in each of the
modules; what is interesting about its parts, and the other invariants and action properties, are
theorems of their own.

**ThreadPoolProofs.**  `PoolInv` is inductive.  What the checked facts need to become so: a producer between its size
test and its push still has room (`RoomIsStillThere`: nobody else pushes while it holds the mutex),
the queue is within the limit of its version, and local variables hold requests inside their functions.
That `spare` never falls below zero is part of the same count: a worker that finds the queue empty is itself awake, so
there is a wakeup more than requests.
From it: `TypeCorrect`, `MutualExclusion`, `NoLostWakeup`, `EmptyNeedsInterrupt` (a worker that is awake is one of
those that `WakeupPerTask` counts, so with no interrupted wait to make up for the queue is not empty), `PopsTheFront`, `QueueRespectsMaximum`, and
`PoolIsAQueue`: every step maps to a step of `TaskQueue` or a stutter.

**ConnPoolProofs.**  `LendingInv` is inductive: it adds that a thread has a connection only while it uses it
(`HeldInUse`), that list and loans make up the connections of `init()` (`AllAccounted`), that closed ones are
not in the list (`ClosedGone`), and that the program ends only at an empty list (`UndefinedOnEmpty`).  The
steps that move a thread in and out of `Passed` and `At("post")` change two cardinalities and the semaphore together,
which `CountStep` proves by cases.  From it: `TypeCorrect`, `LentOnce`, `ListNeverRunsOut`,
`BooksBalance`, `ClosedNeverLent`, `NullMeansAllLent` (an action property), and
`EnoughConnections`, which no run states: with as many connections as threads nobody works without one.

**ServerProofs, part 1: WebServer.**  `TimerAlive` alone is not inductive.  `TInv` adds that only open sockets are registered with
epoll, that a batch has one event per descriptor, and that the request the main thread spins for has no second
event in the batch: otherwise deleting its timer would leave that event with a dead one.  Workers are then quiet steps
for the timers, closing ones only unregister, and each action of the main thread is a case.  `NoDanglingTimer` therefore
holds for any number of connections, descriptors and workers, in all modes, with workers as slow and
as failing as they like.  `AlarmChain` is inductive as it is.  The types need that a worker that is not idle has a
request, and the bounds of `AfterRead` and `Writes`; with `TInv` they make up `MainInv`.

The hand-over of the reactor, `SpinWaitsForAnswer`, needs the same generality: `SpinInv` says that the request the main
thread spins for is the only one that is queued or not yet answered for (`Asked`), so that `append()` is called on an empty
queue and never refused, which is why the ignored result of `append()` does not hang the reactor.

Three theorems have conditions, the ones under which run `Server` checks the same properties, and they name them.
`FailFree` (no "fail" in `Outcomes`): `process_write()` always makes an answer, so `close_conn()` is called by no worker.
`CountIsExact` needs only that: `OwnerInv` says that every timer of the list has its descriptor, its socket and its
`users_timer` entry, and that `m_user_count` is the length of the list; the map from timers to descriptors is then a
bijection onto the open ones, and each action moves one member of each.  `Undisturbed` adds `Prompt` (a request is
handled within the lifetime of its timer) and, for chap.5, that `init()` reaches no other object.  Section 4 tells what
happens otherwise; TLC shows it when a condition is taken out.  `OneOwner` is proved from `HandInv`: a
descriptor is in one place (`OnePlace`), once in the queue (`QueuedOnce`), with one worker (`OneWorkerEach`) - none of
which survives a step without `InTime`, since a descriptor closed while it is queued comes back as another client's, nor without `Verdicts`,
which says where a set `improv` or `timer_flag` may be found.  `NothingClosedInUse` and
`AnswersReachTheirClient` (`SourceInv`: bytes read and bytes to send are those of the socket now at the descriptor) follow from it.

**ComponentProofs, part 1: BlockQueue.**  `SlotIs` does the arithmetic of `%` once and for all, after which the ring is linear arithmetic.
`RingInv` holds `BackIsSlot`, which makes it inductive: `m_back` is a real index as soon as something is queued.
`RingTypeCorrect`, `IndicesAgree`, `NobodySleepsOnItem`, and `RingIsFifo`: a push appends to, a pop takes the head of, the
sequence `Contents` read around the ring.

**ComponentProofs, part 2: TimerList.**  For any number of timers, addresses used again and a wall clock that may go back.
`ListIInv` says of which sequence the pointers are the links (`Linked`: `next`, `prev`, `head` and `tail` of a sequence without
repetitions that has all allocated timers, `Listing`), that it ascends unless the clock was set back, and that no timer is
later than now and a lifetime.  The loops of the code are recursive functions over the links.  That such a
function exists, and is what its definition says at every link that the list has, is shown without an induction over the
data: `LoopExists` and `CollectExists` construct it from chains of links, `Least` picks the first element at which a loop stops, and
`LoopAlong` and `CollectAlong` tell what a loop along `Linked` returns.  With them the pointer assignments of each operation take a
sequence with one member more or less (`With`, `Without`, `From`) to its links: `AddedHolds`, `AdjustedHolds` (a timer that moves
backwards is taken out and entered behind its old place), `DeletedHolds`, `TickIs`.  From it `ListTypeCorrect`, `ListIsWellFormed`
and `ListIsSet`, the refinement of `TimerSet`: what `tick()` deletes from the front is the set of expired timers because the
sequence ascends.

**ComponentProofs, part 3: HttpParse.**  For any requests, headers, bodies and buffer size.  `StreamIs` tells what is in each cell
of a request.  `ParseIInv` ties the parse to it: what is not read is in the inbox and with the client, in order
(`Flowing`); from `m_start_line` on the buffer is as the client wrote it (`Buffered` - the NULs that `parse_line()`
writes lie behind it); after k headers `m_start_line` is at the k-th line, `m_linger` and `m_content_length` are those of
the first k, and `m_checked_idx` is at most before the CR that ends the line (`Headers`), so a cut between CR and LF is looked at again.
The difficult state is the body.  `process_read()` calls `parse_line()` there too when it goes on after an
incomplete body, and what that finds, line ends of the body included, moves both indices.  `InBody` says that this happens only to a body
that was cut or does not fit; then `m_read_idx >= m_content_length + m_checked_idx` can no longer become true, so the
body is never taken from the wrong place: such a request waits.  `InRequestLineIs`, `InHeaderIs` and `InBodyIs` tell what `parse_line()` finds in each state;
each step is a lemma.  `ParseTypeCorrect`, `ParseIsRight`, and `ClosesOnlyTooLong`, an action property.

**LogProofs.**  Where a line is and how many lines a file has are cardinalities of sets of places in sequences.  `Hits` and
`Counted` say once what appending, joining and taking the head do to them; after that a step changes a few counts.  `LinesAreKept`:
that a writer puts into the queue or the buffer a line that is nowhere yet needs that a refused line is finished
(`DroppedFinished`); that a synchronous log is on the disk when LOG_INFO() returns needs `Synchronous`: a buffered line is the current one
of a writer that is about to flush, also when another writer rotates the file in between.  `FilesAreBounded`: `FileInv` adds to the
lines of the open file all that may still reach it - buffered, counted and on the way (`InPipe`), queued, in the hand of the
flush thread - and keeps the sum below `m_count % m_split_lines + 1` and the late lines; that a new file is empty follows from the order of
days and parts, which a line of the day before breaks (`wentBack`).  The theorems need finitely many writers, and `None` apart from the lines.

**UserTableProofs.**  `StoreInv` makes `TableInv` inductive: `m_lock` is held exactly from the INSERT to `insert()`
(`LockShape`), so a row that is not in the map yet has the holder of the lock on its way there (`MapCatchesUp`), and a page
that confirms an account exists only after the row (`InsertedIsStored`).  `PasswordIsKept` follows at once, crashes
excepted.  `AccountsAlwaysWork` needs `AccountInv`: whoever registers a name that was not raced for is alone with it and finds it neither in the
map nor in the table (`Alone`), so that the row it enters stays the only one and a restart, which lets later rows overwrite
earlier ones (`LoadIs`), reads the same password.

**HttpWriteProofs.**  For every size of header, files and socket buffer and both versions.  `SendInv`: while an
answer is sent, `m_iv` describes its rest, header first (`Follows`), unless the header was cut more often than the
code can count; a file is mapped or was left behind (`Mapping`).  What `Bytes` and `Offered` are, byte by
byte, is stated once (`OfferedIs`, `OffersTheRest`), what one `writev()` does in `WritevStep`.  From it: `AnswerIsCounted`,
`BytesInOrder`, `MappingsAreUndone`.

**ServerProofs, part 2: Chap5.**  `ImplementsWebServer`: a behaviour of `Chap5` is one of `WebServer`, so what is proved of that holds
here (`Inherited`), for any neighbours that `init()` may run over.  `CountersAgree`: `DataInv` is inductive
together with the types of `WebServer`.  Each action is a lemma: that buffer and counter move together when `read_once()`
takes what fits (`ReadCounts`), that each outcome of `write()` drops as many pieces as it counts (`WriteOutcome`), and that
`init()` of a neighbour takes bytes but not segments (`InitObjectData`).

`OneRequestAtATime` and `ConversationsKept` are about the connections that nothing came in the way of (`Unspoilt`), for any
clients, requests, segments and workers.  `TalkInv` says three things of each.  `OneHand`: one of epoll, batch, queue and workers
has its object.  `Steps`: that place tells how far the answer has got - armed for reading, nothing is in `m_iv`;
armed for writing, something is; a worker that closes the connection has found an empty file.  `Speaks`: buffer and
socket hold segments of the request asked last, `m_iv` or the answer a worker has made is what was not told yet of its
answer (`Due`), the mapped file and `m_linger` are that request's; and when no answer is due the client rests, with a
whole answer, or is still asking (`Awaited`).  `Newcomers` carries this to clients that were not accepted yet.
Most steps are about one object, so the proof has two frames:
a step that handles one object and leaves the other conversations alone (`Handlings`), and one that closes
descriptors (`Closings`), which owes each client an excuse or a finished answer that is not kept alive (`Farewell`).  Each
action is a lemma (`ReadTalks`, `ParseTalks`, `FillTalks`, `WriteTalks`, ...); `TalksStep` joins them.
`ConversationsKept` has the condition `Fits`, no request longer than `m_read_buf`: for a longer one `read_once()` fails and
the connection ends without a word.  It holds in run `Chap5` (3 segments).  The attempt to prove it found that
`spoilt` had missed a case: with three clients and one descriptor TLC shows an event of a closed connection reaching the
next client's object; `Reused` now counts it.

**AsioServerProofs.**  Handlers are functions of one object, so most lemmas are about one object `o` and the number `k` of
requests its client has sent; `OneConnection` lifts them to the server.  `ConnInv` says nothing of the answers, and
`AnswersWhole` nothing of the queue of handlers, though each needs the other: that an answer is finished before the next
begins follows from reads and writes taking turns (`Alternates`), and that from the state of the answer (`Answering`).  `ObjInv` joins
them with what a closed or deleted object may still have queued (`Ended`), the wait that covers an open one
(`Covered`), and the order of requests in answers, buffer and socket (`Ordered`, `Buffered`).  Each operation is a lemma that
takes an object with `ObjInv` to one with it (`TransferWorks`, `ChunkWorks`, `ReadMakesAnswer`, `ProcessWorks`, `CloseWorks` ...,
joined in `HandlerWorks`).  That a buffer begins with a request line unless a read cut one off is part of `Ordered`: as long as nothing is
cut, what is in buffer and socket are whole requests, but for a body still to come (`Requests`, `Waits`), and `Divided` says what any
chunk makes of that.  `PoolShape` adds what `Stop()` relies on: nothing is accepted or started while it
joins.  From it: `ConnectionsAreRight`, `AnswersAreWhole`, `HandlersAreSafe`.

Only model-checked: the liveness properties (`WaitersServed`, `WriteReturns`, `EveryRequestEnds`, `PopsServed`, `ConnectionsEnd`,
`AcceptedEventually`, `StopReturns`, `RequestsAnswered`, and of `ImplementsQueue` the fairness of `TaskQueue`), which rest on fairness and so on ENABLED.


## 7 What is not modelled

- The choice of the page in `do_request()`: string matching on the URL.  `Chap5` names a request by the page it leads to.  What
  matters of it - a file, an error page, nothing - is a choice in `HttpWrite`, `WebServer` and `AsioServer`.
- `config.cpp`, `main.cpp`, `init()` functions: sequential start-up, whose results are
  initial states and CONSTANTS.
- Shutdown: the destructors of WebServer, Log and the pool run at exit beside detached threads.
  `WebServer` stops the main thread at SIGTERM; `ConnPool` has `DestroyPool()`.
- stdio's own buffer spilling before `fflush()`, and `fopen()` failing at a rotation.
- `Webserver_asio`: its copies of the log, the queue, the lock and the MySQL pool; `Session/`, which is not compiled; the
  parser, whose functions are those of Webserver; `m_user_count`, which is counted and never read.  CServer is missing from the
  repository and is taken as an external component that creates an object, calls `start()` and may keep a pointer.
- `chap.5`: registration and login, which compute the name's end from an uninitialized index (`http_conn.cpp:408`); the edge-triggered
  branches, which its `#define`s leave out; its copies of the timer list, the queue, the log, the lock and the MySQL pool (whose `DestroyPool()`
  unlocks twice); `processpool.h`, an unfinished header.
- webbench and the pages under `root/`: not part of the program's logic.


## 8 Plan

Done: the modules, runs and theorems above, in this order - thread pool, timers, MySQL
pool, server, parser, writer, users, queue, log, asio, chap.5 with its data.

Next, the model:

1. The superposition of `Chap5` over the reactor of `WebServer`, so that `HttpParse`'s verdicts refine `Outcomes` there too.
2. The reactor with a level-triggered listener and edge-triggered connections, and the reverse, in the runs.
3. Shutdown: `stop_server`, the destructors and the detached workers.
4. `fopen()` failing at a rotation.
