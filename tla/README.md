# A verification project for the sylar fiber server

The repository is a C++ server framework. User-level threads (fibers) are run by
a pool of kernel threads, blocking system calls are hooked so that they suspend
the calling fiber instead of its thread, and HTTP servers and clients are built
on top. This directory holds TLA+ specifications of its core, instances of them
that TLC checks, and theorems about them that TLAPS proves.

Paths are relative to `src/`.

## 1. Inventory

### How the parts interact

```
  TcpServer --> HttpServer --> HttpSession ----+
                                               v
  HttpConnectionPool --> HttpConnection --> SocketStream <--> ByteArray
                                               |
                                      hooked read/write/connect/close (hook.cc)
                                        |                |
                       addConditionTimer|                |addEvent, cancelEvent, cancelAll
                                        v                v
                                  TimerManager <----- IOManager ------> epoll
                                        |  listExpiredCb |  triggerEvent
                                        +-------+--------+
                                                v  schedule()
                                            Scheduler ----> Fiber (swapIn, YieldTo...)
```

A fiber that calls `read()` enters `do_io()`. When the kernel says EAGAIN it sets
a condition timer (if the descriptor has a timeout), registers itself with
`IOManager::addEvent()` and leaves its thread with `Fiber::YieldToHold()`. A thread
with nothing to run is in its idle fiber, `IOManager::idle()`: it asks
`TimerManager::getNextTimer()` how long to sleep, waits in `epoll_wait()`, schedules
what `listExpiredCb()` hands out, and calls `triggerEvent()` for the reported events;
`triggerEvent()` calls `Scheduler::schedule()`. `Scheduler::run()` takes the fiber from
the queue on some thread and swaps it in. `close()` calls `IOManager::cancelAll()` and
`FdManager::del()`; a timer inserted at the front calls `onTimerInsertedAtFront()`,
which tickles a sleeping thread.

### Components

| Component | State it keeps | Operations | What makes it correct |
|---|---|---|---|
| Fiber (`fiber.*`) | `m_state`, context, stack | `swapIn`, `swapOut`, `YieldToReady`, `YieldToHold`, `MainFunc`, `reset` | a fiber is on at most one stack; it leaves EXEC only by its own yield or end; a finished one is never resumed |
| Scheduler (`scheduler.*`) | `m_fibers`, `m_activeThreadCount`, `m_idleThreadCount`, `m_autoStop`, `m_stopping`, threads | `start`, `schedule`, `run`, `switchTo`, `idle`, `stop` | no task is lost, queued twice or run twice at once; the counters are exact; `stop()` returns, and only when all tasks have ended |
| TimerManager (`timer.*`) | `m_timers`, `m_tickled`, `m_previouseTime`; per timer `m_next`, `m_ms`, `m_cb` | `addTimer`, `cancel`, `refresh`, `reset`, `getNextTimer`, `listExpiredCb` | the ordered set agrees with the timers; a timer ends once; no thread is told to sleep past a due time; nothing fires early; every timer settles |
| IOManager (`iomanager.*`) | per descriptor `events`, the waiting fiber or callback; `m_pendingEventCount`; the epoll set | `addEvent`, `delEvent`, `cancelEvent`, `cancelAll`, `contextResize`, `idle`, `tickle`, `stopping` | the count, the epoll registration and the waiters agree; no edge is lost; no waiter is resumed twice or forgotten; no thread leaves while work is pending that nobody watches |
| Hooked calls (`hook.*`) | `timer_info::cancelled`, the position in the call | `do_io`, `connect_with_timeout`, `close`, sleeps, `fcntl`, `ioctl`, `setsockopt` | a call with a timeout comes back; an old timer does not disturb a later call |
| FdManager (`fd_manager.*`) | `m_datas`: which descriptor has an FdCtx | `get`, `del`; made and dropped by hooked `socket`, `accept`, `close` | the FdCtx of a number is that of the socket that has it, and that socket does not block |
| ByteArray (`bytearray.*`) | chain of nodes, `m_position`, `m_size`, `m_capacity`, `m_cur` | typed reads and writes, `setPosition`, `clear`, `getReadBuffers`, `getWriteBuffer`, `writeToFile` | the chain is one plain run of bytes; what is written is read back |
| Stream, SocketStream | none beyond the socket | `readFixSize`, `writeFixSize`, `read`, `write` | all or an error |
| HttpConnectionPool, HttpConnection (`htttp/http_connection.*`) | `m_conns`, `m_total`; per connection `m_request` and its socket | `getConnection`, `ReleasePtr`, `doRequest`, `sendRequest`, `recvResponse` | one holder per connection; the count is exact; an answer belongs to its request |
| Socket | `m_sock`, `m_isConnected`, addresses | one system call each | closed sockets say so |
| TcpServer | `m_socks`, `m_isStop`, two schedulers | `bind`, `start`, `startAccept`, `stop` | an accepted socket is handled once; no two fibers accept on one socket; after `stop()` nothing is accepted and the accept fibers end |
| HttpServer, HttpSession | the parser's read-ahead buffer | `handleClient`, `recvRequest`, `sendResponse` | requests on a connection are framed and answered in order; a connection does not stay open for ever |
| ServletDispatch | exact and pattern maps | `addServlet`, `addGlobServlet`, `delServlet`, `getMatchedServlet` | exact before pattern before default |
| HTTP messages, parsers, Uri | values; generated Ragel automata | parse, dump | pure |
| Address | a sockaddr | prefix and broadcast arithmetic, text, lookup | pure |
| Thread, mutexes | pthread wrappers | `join`, `lock`, `wait` | a start handshake |
| Log (`log.*`) | loggers, appenders, formatters | `LogFormatter::init`, formatting, output | a pattern is divided without loss |
| Config, utilities | a registry of values; none | conversion, helpers | - |

### What is hard to test here

`PROJECT.json` lists every hazard at its line with the properties that cover it.
The groups are:

* **A fiber changes threads.** `YieldToHold()` assigns HOLD before the context is
  saved; `run()` reads the state of a fiber before and after it swaps it; the active
  count is given back before a READY fiber is queued again; `stop()` races with all of it.
* **A result is stale when it is used.** `epoll_wait()` reports events that another
  thread cancels before they are handled; a timer expires between its creation and
  the registration of the event it should cancel; a descriptor number is closed and
  used again while an old timer's callback is queued.
* **Clocks.** A timer inserted at the front while another thread is about to sleep;
  `refresh()` of an expired timer; a wall clock that is set back; the cast of a
  64-bit timeout to `int`.
* **Node boundaries.** The cursor `m_cur` is updated by each operation of ByteArray
  in its own way; a position on the end of the last node has no node.
* **Tables that grow and numbers that are used again.** `addEvent()` and `FdManager::get()`
  give up a read lock before they take the write lock; descriptors are given out again
  while an entry for their last socket may still be there.
* **The end.** `stopping()` of an IOManager is three reads that nothing holds together, while
  timers expire and events are triggered; a READY fiber is in no queue for a moment.
* **Reads that cut a message.** The parsers keep an automaton between two reads, but not
  the marks of the line they are in.
* **Shared connections.** An atomic count beside a locked list; a deleter that
  returns a connection whose response was not read; a server that closes behind the pool.

## 2. Modules and how they correspond to the code

| Module | Models | State and steps |
|---|---|---|
| `Scheduler` | `scheduler.*` and the state machine of `fiber.*` | `pc[w]` is where thread w is in `run()`. The scan of the queue and each `schedule()` hold `m_mutex`, so each is one step; every other access to shared state is a step of its own: the two counters, the test of the fiber's state after it comes back, the second `schedule()`, `m_stopping` and `m_autoStop`, and, in `YieldToHold()`, the assignment of HOLD apart from `swapcontext()`. |
| `TaskPool` | what Scheduler promises | a task is new, waiting, on a thread or ended; `Scheduler!ImplementsPool` is the refinement. |
| `IOScheduler` | Scheduler as `iomanager.cc` specialises it, and the hooked sleeps | EXTENDS Scheduler: `place[w]` is where thread w is in `stopping()` or `idle()`. `stopping()` reads the timers, the pending count and the queue in three steps; `idle()` polls, takes the expired callbacks, schedules them, triggers the reported events and counts them down, each a step. A timer is the task its callback is, an event the fiber that waits for it. A hooked `sleep()` is a timer whose callback, a task of its own, schedules the sleeping fiber. |
| `TimerManager` | `timer.*` and the sleeping half of `IOManager::idle()` | `m_timers` is a set of pairs `<<key, timer>>`, the key being the `m_next` under which it was inserted, as in an ordered `std::set`. Operations under the write lock are one step; the clock is read, and the tickle sent, outside it. A sleeping thread has the `timeout` it was told and when it was told (`since`); `Interrupt` is EINTR, after which it waits that long again. |
| `IOManager` | the descriptor half of `iomanager.*` | `events`, `context` and `m_pendingEventCount` change together under the mutex of a descriptor; `got[h]` is what thread h has from `epoll_wait()` and has not handled. `interest`, `ready`, `hup` and `edge` are the kernel's side (edge-triggered). |
| `FdContexts` | the table `m_fdContexts`: `addEvent()` up to the context, `contextResize()` | a thread looks under the read lock, resizes under the write lock, and registers: three steps. A context is numbered, so that one that was replaced differs from its successor. |
| `Hook` | `do_io`, `connect_with_timeout`, `close` | EXTENDS IOManager: `pc[f]` is where a waiting fiber is in its call; its timer expires at any time after it is set, and the expired callback runs in two steps, `cancelled = ETIMEDOUT` and then `cancelEvent()`. |
| `FdManager` | `fd_manager.*`, and hooked `socket`, `accept`, `close`, `fcntl(F_SETFL)`, `ioctl(FIONBIO)` as far as they touch an FdCtx or O_NONBLOCK | sockets are numbered, descriptors are given out again; `socket()` calls `get()` on threads with hooks, `accept()` on all; the two critical sections of `get()`, `del()` and the call of the kernel's `close()` are steps of their own. Threads may have hooks or not. |
| `ByteArray` | `bytearray.*`, `SocketStream::read/write(ByteArray)` | the memory of the nodes as one sequence, `m_cur` as a node number; each operation with the loop over the nodes it runs. |
| `ByteBuffer` | what ByteArray promises | a run of bytes and a position; `ByteArray!ImplementsBuffer` is the refinement. |
| `HttpConnectionPool` | the pool, and the connection and socket as far as it uses them | `pc[u]` is where a fiber is in `doRequest()`. The list is locked; `delete`, `new` and the atomic `m_total` are steps of their own. |
| `HttpConnection` | `recvResponse()` with `HttpResponseParser::execute()` and what its automaton keeps | read by read: the header until it is complete, then a body by its length, or chunks. A line is a few tokens, one for each part in which the parser does the same; `cut` remembers which lines a read has ended in. |
| `HttpSession` | `HttpServer::handleClient`, `HttpSession::recvRequest`, `sendResponse`, the state the request parser keeps between reads, and a client | `place[c]` is where a connection is in the loop; a request is a sequence of pieces, two for each line, and a read returns any number of them. `fed[c]` is what the parser was given, read by read: a line counts only when both halves were in one read, because `http_parser_execute()` resets its marks. A response may wait in `send()` (`"blocked"`) until the client reads or leaves; `untimed[c]` says that a read has lost its timeout. |
| `HttpServer` | `tcp_server.*` | EXTENDS HttpSession: `accept[a]` is where the accept fiber of a socket and a `start()` is; the function that `stop()` schedules runs later, and `closing` is where it is: `cancelAll()`, the one of the hooked `close()` and `close_f()` are steps, between which accept fibers run. `early` remembers a `start()` that found accept fibers of an earlier one. A socket listens while `m_socks` or an accept fiber refers to it. |
| `ServletDispatch` | `htttp/servlet.*` | the two tables and the history of the calls that changed them; each call holds `m_mutex` throughout, so it is one step. |
| `Address` | the arithmetic of `address.cc` | broadcast, network and mask of a prefix for both families, and the text of an IPv6 address, as operators applied to every input; `\|` and `&` go bit by bit (`Or`, `And`). An IPv4 prefix of 0 has both outcomes of `1 << 32`; the bytes of an IPv6 address are followed by those of `sin6_scope_id`, which `s6_addr[16]` and what follows it overlap. |
| `LogFormatter` | `LogFormatter::init()` | the loop over a pattern, a turn (`ItemTurn`) for each character or item; a pattern grows by a character. |
| `MCScheduler`, `MCIOScheduler`, `MCTimerManager`, `MCHook`, `MCHttpConnectionPool`, `MCHttpServer`, `MCComponents` | - | the sets and model values of the runs. `MCComponents` puts the seven components that neither wait for nor share state with another (ByteArray, ServletDispatch, Address, FdManager, FdContexts, HttpConnection, LogFormatter) into one run: the initial state chooses which of them moves. |
| `SchedulerProofs`, `SchedulerStopProofs`, `IOSchedulerProofs`, `TimerProofs`, `HookProofs`, `HttpConnectionPoolProofs`, `HttpServerProofs`, `ComponentProofs` | - | theorems and proofs. `ComponentProofs` is about components that share no state: FdManager, FdContexts, ByteArray, HttpConnection, LogFormatter, Address; ServletDispatch is with the server, whose requests it routes. |

A definition with a name such as `TakeTaskUncounted` or `RequeueForgotten`,
placed just before the action it resembles, is that action with a plausible
defect. No specification uses it. Substituting it for the action breaks the
property with which `PROJECT.json` pairs it, which shows that the property can
see that kind of defect.

Choices that a reader should know of:

* **Failed assertions.** `SYLAR_ASSERT` ends the process. In Scheduler a thread at
  `"abort"` stops the whole system; in Hook it is `aborted`.
* **Scheduling functions.** `schedule()` of a function is the fiber that `run()` builds
  for it in `cb_fiber`; past its construction that branch does what the fiber branch does.
* **HOLD is not atomic.** In Scheduler and IOScheduler it is two steps, and the finding of
  section 4 about fibers comes from there. In Hook, which is about descriptors, a
  yield is one step.
* **The kernel.** It is modelled from how `iomanager.cc` uses it: `epoll_wait()` reports
  an edge, or the present readiness after `EPOLL_CTL_MOD`; ERR and HUP are reported
  whatever was asked for.
* **What composes what.** IOScheduler is Scheduler with the timers and events of an
  IOManager; it leaves open when a timer is due and which descriptors are ready, and
  TimerManager and Hook say that. Hook is IOManager with its callers; HttpServer is
  HttpSession with the accept fibers.
* **Undefined content.** Memory that a ByteArray has allocated and not written is
  `Garbage`; reading it is a choice the properties do not constrain, except that it is
  not taken for data.
* **Ages in the pool.** `m_createTime` is 0 and nothing assigns it, so the tests of a
  connection's age are false for ever, and `m_maxSize` is never read.
* **Exceptions inside properties.** Where the code does not keep a promise in one situation, the
  property names that situation and, wherever it can, says that it is the only one:
  `CtxFits`, `ContextKept`, `FileExact`, `ResponseExact`, `PatternExact`, `PrefixExact`,
  `StopDrains` and `WorkIsWatched` are of this kind. Section 4 lists the situations.

## 3. What each run checks

| Run | Instance | Properties | Shows |
|---|---|---|---|
| `sched_owner` | a pool thread and the caller's thread, 2 tasks that spawn each other, pinned to either thread or to none, 2 yields | `OnOneThread`, `Ownership`, `StoppingMeansFinished`, `StopDrains`, `ImplementsPool`, `TaskCompletes`, `StopReturns` | with `YieldToReady()` only, every task has one owner at each moment and none is lost; the scheduler implements TaskPool; every scheduled task ends, and `stop()` returns, and only then, but for tasks stranded on a thread that has left |
| `sched_suspend` | 2 threads, 2 tasks that wait and call `switchTo()`, 2 yields each | `TypeOK`, `CountersAccount` | the counters stay exact, through races and failed assertions too |
| `io_stop` | a pool thread and the caller's thread of an IOManager, 2 tasks that may be a timer's callback, sleep, wait for an event, spawn each other and yield; one may call `switchTo()` | `WorkIsWatched`, `RaceExplains`, `IOStopReturns` | the three reads of `stopping()` cannot let the last thread leave work behind; what goes wrong with fibers goes through the window of `YieldToHold()`; `stop()` returns |
| `timers` | 2 timers (one recurring), 2 threads, a signal, a period that does not fit an int, the clock goes forward | `IndexExact`, `Timely`, `OneOutcome`, `NotEarly` | the set is exact, no needed tickle is dropped, each timer ends once, none early |
| `timers_clock` | 2 timers, 1 thread, a signal, the clock is set back once by more than the rollover limit | `EveryTimerSettles` | every timer is fired or cancelled in the end |
| `io` | 1 descriptor closed and used again, a reader with a timeout, a callback on WRITE, 2 polling threads | `EventsAgree`, `WaiterKept`, `EdgeKept`, `ReadyWakes` | count, registration and waiter stay in step; no edge is lost |
| `pool` | 2 fibers, 3 calls each, 3 connections, 3 requests per connection | `HeldOnce`, `CountExact`, `OwnAnswer`, `PooledFit` | one holder each; nothing used after `delete`; no answer taken for another's |
| `server` | 1 address, 1 client with requests of 4 kinds, sent ahead or not, 2 starts; 2 calls of `stop()` and requests, taken together | `InOrder`, `OneAcceptor`, `StopStops`, `EveryClientCloses` | requests are framed and handled in order unless a read cut a line or went on behind its request; two fibers meet on a socket only after an early restart; `stop()` ends the accept fibers, and accepted connections are closed, but for the waits of section 4 |
| `components` | ByteArray: 2 nodes of 2 bytes, bytes of 3 bits, integers of 5. ServletDispatch: 2 paths, 2 patterns, 2 servlets, 4 calls. Address: IPv4 of 5 bits, IPv6 of 2 bytes of 2 bits with 1 byte behind them, 8 groups, every prefix. FdManager: 2 threads with hooks, 1 without, 2 numbers, 4 sockets. FdContexts: 3 threads, descriptors 3, 4 and 6, a table of 3. HttpConnection: 5 responses, a buffer of 8 tokens. LogFormatter: patterns of 6 characters | `CursorExact`, `ReadsBack`, `FileExact`, `ImplementsBuffer`; `MatchFollowsCalls`; `PrefixExact`, `TextExact`; `CtxFits`; `ContextKept`; `ResponseExact`; `PatternExact` | the nodes behave as one run of bytes; a path goes to the servlet the calls say; masks and text are right but for the three situations of section 4; an FdCtx belongs to its socket; an event is not lost when the table grows; a response is read as it was sent wherever reads end, but in three kinds of lines; a pattern is divided without loss |
| `sched_two_on_one_stack`, `io_stale_event`, `io_timeout_lost` | as `sched_suspend` and `io` | one each | the disagreements of section 4 |

### Bounds, and why they are enough

* Scheduler: `OnOneThread` and the counters need two threads that contend. `sched_owner`
  pairs a pool thread with the caller's, which enters `run()` in `stop()` only, because the
  hard part there is the end; tasks may be pinned to either. `MaxYields` bounds how often
  the fibers yield: one yield sends a fiber through every point of `run()`, and the second
  lets it do so again after it has come back on another thread. More threads than two are
  the theorems' part (section 5).
* IOScheduler: one yield and two tasks are enough for a timer, an event and a spawned task to
  be pending at different reads of `stopping()`, on two threads.
* TimerManager: `MaxChanges` bounds `refresh()` and `reset()`, `MaxSignals` the signals;
  the clock stops at `LastTime`, and no timer is set to a time after `EndTime`. `Hour`,
  `MAX_TIMEOUT` and `IntRange` are the code's 3,600,000, 3,000 and 2^32 made small and kept in
  the same order, so that the rollover test happens within a few units, and in `timers` one of
  the two periods is half of `IntRange`, so that the cast `(int)next_timeout` is negative. In
  `timers_clock` the periods fit: for a period that does not, no time is enough.
* Hook: two threads can hold stale reports of the same event; one descriptor that is
  closed and opened once is what is needed for an old timer to meet a new call;
  `MaxCallbacks` bounds expired callbacks that have not run, and two let an old and a
  new one be there together. `m_isClosed` is never set by the code, so its test is left out.
* ByteArray: two nodes of two bytes give every position relative to a boundary; a
  5-bit integer takes three bytes of a 3-bit varint, as an `int32` takes five of seven
  bits, so a value crosses a boundary and the last byte is partly used.
* FdManager: three threads are an opener, a closer and one without hooks (each calls `socket()` or `accept()`); two numbers let one
  be given out again while the other makes the table grow. FdContexts: three threads and
  descriptors 3, 4 and 6 on a table of 3 are the least for a resize to a smaller size than
  the table has by then.
* HttpConnection: the responses have a body, no body, chunks whose sizes have two digits, one
  a leading zero, and data that reads like a size; the buffer is shorter than the
  response, so that what follows a header is partly read with it.
* ServletDispatch: four calls register two patterns, register one again and delete one.
* LogFormatter: six characters hold an item with a format behind a text, two items, `%%`
  before and behind either, and an unclosed brace.
* Pool: three calls by two users allow a connection to be used, given back, used by
  the other and retired at `m_maxRequest`; three connections allow two to be held and
  one to be thrown away.
* Server: connections share nothing but the accept fibers, so one client is enough; two
  requests let the second be lost, mangled or taken for the body of the first; two
  starts with a stop between them is the least for two accept fibers on one socket. A behaviour
  has two requests, or one and one call of `stop()`, or two calls of `stop()` (`StopsOrRequests`): a session asks
  nothing of the server it came from, and `stop()` does not touch sessions.
  `MaxRequests` also bounds what `EveryClientCloses` speaks of: a client that sends for ever
  is served for ever. `bind()` is called before the first `start()` or `stop()`.

Runs without deadlock checking are those in which the process may end (a crash
of a ByteArray, a failed assertion) or whose calls are bounded (Hook, pool, server,
components).

### Fairness

* Scheduler: every thread goes on (weak fairness of its steps), the functions of the
  fibers end or yield, an event or timer that a fiber waits for arrives, and the thread
  that has begun `stop()` goes on with it. The mutex is a spin-free one held for a step,
  so weak fairness of the step stands for getting the lock. Whether and when the user
  calls `start()`, `schedule()` and `stop()` is not assumed.
* IOScheduler: the same for threads and for `stop()`. Every event that stays registered is
  reported to some poll and every timer that stays set expires for some thread: strong
  fairness, because a thread that works is not polling, and may be back in `epoll_wait()` only now
  and then. The kernel and the clock give that; `IOStopReturns` would be false of a server whose
  clients never answer and whose reads have no timeout.
* TimerManager: time passes, an `addTimer()` in progress returns, the thread's loop goes
  on. The clock being set back, signals and events are not fair.
* Hook: polling threads poll and handle what they have. Nothing is assumed of timers,
  the network or the callers.
* HttpServer: the workers run the accept fibers and the function of `stop()`, and a servlet returns; a read of a
  session returns or times out (`setRecvTimeout`, two minutes) unless its timeout was lost, a write
  returns when the client reads or leaves. Clients and the user's thread may do nothing. The accept worker has
  several threads; with one, the steps of the function of `stop()` are not interrupted.

## 4. Disagreements between the code and its own words

Each of the first three is the counterexample of a run that checks one property.

* **Two threads on one stack** (`sched_two_on_one_stack`, `fiber.cc:216`). `YieldToHold()`
  sets HOLD, then swaps out. A fiber that registered for an event before it yields can be
  scheduled by another thread in between; `scheduler.cc:180` skips only fibers in EXEC, so a
  second thread swaps in a context that is still running.
* **A stale event aborts** (`io_stale_event`, `iomanager.cc:405`). `idle()` tests that some
  reported event is still waited for, then triggers all of the reported ones; `triggerEvent()`
  asserts that each is registered.
* **A lost timeout** (`io_timeout_lost`, `hook.cc:143`). The timer is set before the event is
  added. One that expires in between cancels nothing, and the wait has no timeout.

The following are part of the models. The property that meets them names them as its
exception, so that each is known to happen and to be the only one of its kind.

* **A stranded task** (`StopDrains`, `StopReturns`). A thread gives the active count back before it
  queues its READY fiber again (`scheduler.cc:204-207`). Another thread that tests `stopping()`
  then sees an empty queue and no active thread, and leaves. A task that the READY fiber then
  pins to that thread stays in the queue: `stop()` waits for ever for the other threads, or returns
  with the task unfinished, although `scheduler.cc:108-109` says that all fibers are scheduled to
  completion.
* **Late work** (`WorkIsWatched`). `run()` leaves its loop when its idle fiber has ended. A task
  that such a thread still runs can add a timer or wait for an event, and the thread leaves
  without asking `stopping()` again. With `use_caller` false the same can happen to a timer that the user
  adds just before `stop()`.
* **A lost affinity**: a READY fiber is queued again without its thread (`scheduler.cc:207`), so
  `TaskPool` promises nothing about threads past the first run.
* **A clock that is set back** (`Timely`). `refresh()` then moves a timer forward without a tickle
  (`timer.cc:39-42`), so `Timely` speaks of clocks that only go forward.
* **A wait that begins anew** (`Timely`). After EINTR `epoll_wait()` is entered with the timeout computed
  before (`iomanager.cc:346-366`): a thread is late by the time it had slept before the last signal.
  `Timely` counts from the call of `getNextTimer()`.
* **A wait without end** (`Timely`). `(int)next_timeout` of a first timer that is 2^31 ms away or more may be
  negative (`iomanager.cc:351`): the thread then sleeps until an event or a tickle, whenever the timer is due.
* **A thread that is kept for an hour** (`NotEarly`) between reading the clock and taking the lock
  (`timer.cc:170, 180`) looks like a rollover, after which every timer fires.
* **A table that shrinks** (`ContextKept`). `addEvent()` resizes to `fd * 1.5` even if another
  thread has made more room since it looked (`iomanager.cc:125`): contexts on which events wait are cut off.
* **An FdCtx that is not its socket's** (`CtxFits`). A thread without hooks gets an FdCtx from `accept()`, which
  asks nobody (`hook.cc:353`), or from another thread's call, and its `close()` leaves it to the
  next socket of that number (`hook.cc:410-413`); and `ioctl(FIONBIO)` clears O_NONBLOCK in the
  kernel (`hook.cc:554`), unlike `fcntl()`, so that `do_io()` stops a whole thread.
* **A cut line of a response** (`ResponseExact`). A status line, a Content-Length line or a chunk-size line
  that a read cuts fails or is misread (`http_connection.cc:85`, `http_parser.cc:210-212`).
* **A cut line of a request, and what follows one** (`InOrder`). A read that ends inside a header line
  loses that line, although `http_parser.cc:125` says that `execute()` is to be called
  repeatedly; bytes read behind a request are thrown away.
* **A restart that comes early** (`OneAcceptor`). `start()` after `stop()` while an accept fiber of the earlier
  `start()` still runs puts two fibers on one socket, and the assertion of `addEvent()` fails (`tcp_server.cc:106-109`).
* **An accept fiber that `close()` wakes** (`StopStops`). `cancelAll()` (`hook.cc:421`) resumes the fiber in the middle of
  `do_io()`, which tries again, gets EAGAIN and registers READ without asking `m_isStop`. If `close_f()` (`hook.cc:425`) comes
  only then, the kernel forgets the registration and the fiber waits for ever. The accept worker needs two threads for it.
* **A client that does not read** (`EveryClientCloses`). `startAccept()` sets the timeout of reads only (`tcp_server.cc:89`), and
  `m_sendTimeout` stays -1: `sendResponse()` waits in `do_io()` for WRITE until the client reads or leaves. The lost
  timeout of `hook.cc:143` does the same to a read of a client that stays silent.
* **A file that is cut** (`FileExact`). `writeToFile()` from a position inside a node writes
  too little (`bytearray.cc:579-580`) unless at least a node's worth lies ahead.
* **The network of an address** (`PrefixExact`). `address.h:137` promises the network;
  `address.cc` masks with the bits of the hosts, which is right only where the bits it touches are zero.
* **The ends of the prefix range** (`PrefixExact`). An IPv4 prefix of 0 shifts 1 by 32 (`address.cc:18`); where the
  result is 1, as the shift instruction of x86 gives it, the mask is empty, and broadcast and subnet are those of a
  prefix of 32. The IPv6 calls test no prefix: from 128 on they change `sin6_scope_id` behind the
  address (`address.cc:514, 525, 538`).
* **The patterns of a log line** (`PatternExact`). `%%` (`log.cc:509`) gives its `%` and begins
  an item as well (`log.cc:525`); the error of an unclosed brace comes before the text it stands behind.

Read in the log and not modelled, since they are single statements: `%N` is documented
and in the default pattern but names no item (`log.cc:500-502`), and `Logger::error()` logs at
the level DEBUG (`log.cc:295-298`).

## 5. What is proved

The proofs hold for any finite set of threads, any descriptors, tasks, timers, users and
connections, and any value of the bounds, from the named assumptions of the
modules (`ConstantsAssumption`, `TimerConstants`, `HookConstants`, ...), which say that the kinds of
constants do not overlap and that the bounds are numbers in the order the code has them. What a
theorem assumes beyond that is said with it.

**Scheduler** (`SchedulerProofs`, `SchedulerStopProofs`).

* `TypeCorrect`, `CountersCorrect`: `Spec => []TypeOK` and `Spec => []CountersAccount`. The
  invariant is `TypeInv`: types, the counters' meaning, that no thread has left `"off"`
  before `start()`, and that a thread between taking a task and dropping it does have a
  task. `CountersAccount` alone is not inductive: that a decrement is matched by an increment
  needs the set of threads at each point, and `MoveCount` says how the cardinality of that
  set changes when one thread moves.
* The rest assumes `NoSuspension`, that no fiber suspends itself with `YieldToHold()`;
  `sched_two_on_one_stack` is why. `SingleOwner`, `OwnershipHolds`: every fiber is on one stack
  at most, has one reference, is never lost and finds EXEC when it yields. The invariant
  `Ownership` says that a fiber that was scheduled is finished, or in the queue once, or held by one
  thread, and that its state fits the place in `run()` of the thread that holds it.
* `StoppingHolds` follows from it and the counters: if `m_activeThreadCount` is 0, no
  thread is between its increment and its decrement, so a fiber that is not finished can only be at
  `"post"`. `StopDrainsHolds` needs to know what threads that have left mean: `EndInv` says
  that threads leave only after `stop()` has set both flags, and that an unpinned task is in the queue
  only while some thread will scan the queue again before it can leave.
* `Implements`: `Spec => ImplementsPool`. The lemma `StatusKnown` says that under `Ownership` the state of
  a fiber alone gives the status of its task, so each step of the scheduler is a step of the pool
  or a stutter by what it does to `m_state`.

**IOScheduler** (`IOSchedulerProofs`). These assume nothing of the fibers: they suspend themselves, wait
for events and sleep as they like.

* `IOCountersCorrect`: `IOSpec => []CountersAccount`, from `IOTypeInv`. What `IOManager::stopping()` and
  `tickle()` read of the counters is right although `idle()` is another function.
* `RaceExplainsHolds`, from `RaceInv`: as long as no fiber was taken from a thread that had
  not let go of it, a fiber is held by one thread at most (`OneHolder`), and its state fits that
  thread's place in `run()`. So the window between `fiber.cc:216` and `scheduler.cc:211` is the only way to
  two threads on one stack and to the failed assertions that follow from it.
* `WorkIsWatchedHolds`, from `WatchInv`, which combines five parts. `PlaceInv` says where a thread may be
  in `stopping()` and when it has callbacks in hand; `PendingInv` that `m_pendingEventCount` is at least
  the events that are waited for and those triggered but not yet counted down (`iomanager.cc:422-432`);
  `ExecHeld` that a fiber in EXEC is executed by a thread, so that a new timer or event has a
  thread behind it; `EndInv` is the one of Scheduler; and `TimersWatched`, `EventsWatched` say that while a timer or an event made in
  time is left, some thread has not yet passed the question of `stopping()` that would find it. The
  three questions are asked in the order timers, count, queue, and each is watched separately.
  The theorem assumes `Root # {}`, a caller's thread that takes part (`use_caller`, the
  default, `iomanager.h`): `stop()` asks once more on its behalf. Without it TLC finds
  a counterexample: a timer added by the last task, just before `stop()` and when every
  thread is past its question, is left behind.

**TimerManager** (`TimerProofs`).

* `TimersIndexed`: a timer is in `m_timers`, once, under its present `m_next`, exactly while
  it has its callback. `Timer::cancel()` erases what `find()` returns without testing it
  (`timer.cc:20-21`), so this is what makes it safe.
* `OutcomeFinal`: after a `cancel()` that returned true no thread hands out the callback; the callback of
  a timer that does not recur is handed out once and not cancelled afterwards. `handed` and `cancelled`
  count both, so a second time would be a step that the property forbids. Both theorems rest on `TimerInv`.
* `TimelyHolds`: no wake-up for a timer is lost. It assumes some thread, and nothing of the periods.
  `TimeInv` says that, unless the clock was set back, no
  reading of the clock is later than now and that nothing is due later than its
  period from now; `WatchInv` is the heart: while `m_tickled` suppresses
  tickles, somebody is awake or will be woken (`Awake`) and calls `getNextTimer()` afresh; and if nobody is,
  some thread was told to sleep no longer than until the first timer (`Watches`, which a signal preserves
  since it counts from `getNextTimer()`), or found it so far away that its wait has no end.
* `NotEarlyHolds`: no timer fires before it is due unless the clock was set back or a thread is kept for an
  hour between reading the clock and taking the lock (`ReadingsFresh`, part of `NotEarly`). `PreviousInv` says that `m_previouseTime` lies in the past; a
  thread may present an older reading than another has shown, but not one that is an hour older.

**IOManager and Hook** (`HookProofs`).

* `EventsAgreeHolds`, from `CtxInv`, which adds that the kernel watches open descriptors only and that an event is
  set exactly when its EventContext is in use, by a fiber in its own place only.
* `WaiterKeptHolds`, from `WaitInv`: a fiber is at its `YieldToHold()` exactly if its EventContext or
  the scheduler has it, and not both do.
* `EdgeKeptHolds` and `HookTypeCorrect`; the whole is `HookInv`.

**Descriptors** (`ComponentProofs`). `CtxFitsHolds`, from `FdInv`: one thread at a time opens or
closes a number (`FdCalls`), and a thread that creates an FdCtx finds the entry still empty, although it does not look again: nobody else
can be in `get()` for that number. `FdMatches` says that an FdCtx of another socket is one that outlived its own. `ContextKeptHolds`, from `TableInv`: a context that a thread has looked up is the one
in the table until the thread has used it.

**HttpConnectionPool** (`HttpConnectionPoolProofs`). `HeldOnceHolds`, from `PlaceInv`: where a user is in
`doRequest()` decides what it holds, and list, users and connections to be deleted are
disjoint. `CountExactHolds`: the difference of `m_total` and the live connections is the number of
users between `delete` or `new` and their update. `PooledFitHolds`: nothing that has served `m_maxRequest` requests gets past
`ReleasePtr`. `OwnAnswerHolds`, from `WireInv`: on an open connection there is at most the request of the
one user that waits, or its response; after a failed `recvResponse()` it is not open.

**ByteArray** (`ComponentProofs`), for every size of a node, of a byte and of an integer. `CursorExactHolds` and
`ImplementsBufferHolds`, from `ByteInv`: the memory is a whole number of nodes and at least one, content and position
lie in it, and `m_cur` is the node of the position, or NULL exactly at the end of the capacity. With that every
call is a step of ByteBuffer: the lemma `PutBytes` says that bytes written at the position replace or prolong the
content, whatever `addCapacity()` has added; reading, seeking and throwing leave it alone. That the capacity
grows by whole nodes rests on facts about powers and division that the library lacks (`PowerNext`, `PowerGrows`, ...).
`ReadsBackHolds` adds `RecordInv`: bytes that stand for the value of the last typed call (`Encodes`) lie at its place, whatever
was written beside them. That they are read as that value is arithmetic. The partial sums of a varint (`VarintSum`) are
the integer modulo a power of two, one group more at each byte (`NextDigit`), and the last sum is all of it; zigzag and
the two byte orders are undone by quotient and rest (`DivisionExact`). `FileExactHolds` says when `writeToFile()` is right, in both
directions: a turn of its loop that starts at the start of a node or with a node's worth to go keeps what was written equal to what lies between
the position and the loop (`Right`), and writes at least a byte; any other exchanges the rest and the offset in the node (`Wrong`),
so that it never comes right and ends at a negative length or behind the last node.

**ServletDispatch** (`HttpServerProofs`), for any relation of patterns and paths. `MatchFollowsCallsHolds`, from `DispatchInv`: there is an order-preserving
correspondence between `m_globs` and the registrations of patterns that still stand, that is, those after
which no call named the same pattern (`FollowsBy`). The match takes the first that fits in the one and so the oldest in the
other; adding a pattern again removes it from both and puts it at the end of both.

**HttpServer and HttpSession** (`HttpServerProofs`), for any number of sockets, clients and requests.

* `OneAcceptorHolds`, from `AcceptInv`: an accept fiber belongs to a `start()` that there was, so a new `start()` adds one fiber for each
  socket; two that run for one socket are from different calls, and the later call was `early`. Before the first
  `stop()` no call is, since the first `start()` clears `m_isStop` and the next one returns at once.
* `InOrderHolds`, from `SessionInv`: what is on the wire of an unspoiled connection is described by where each request
  that was sent begins on it (`Located`), a negative place for the one under way. `InStep` relates this to the
  connection: in the header, the parser was fed whole lines of that one request up to the place (`Whole`); in
  the body, the bytes read are those behind the header; between requests the next one begins at the front. The lemma
  `HeaderRead` says that lines fed whole are framed as the header says, so the read of the body ends with the request.
  `InOrder` alone is not inductive: that the fifth request is framed right needs the bytes of the first four gone.

**HttpConnection** (`ComponentProofs`), for every set of responses that say what they are (`WellFormed`: a chunk-size line gives the size of its
chunk, the last chunk alone is empty), every size of the buffer and every radix. `ResponseExactHolds`, from `ConnectionInv`. `ResponseExact` is about
the end only; the invariant relates what was read to what is still to arrive at each turn of each loop. In the header
(`HeaderInv`) the parser is at some line of it, with a field marked only if that line has begun in the same read, and the rest of the
wire is still to come. In a body by length (`ContentInv`) body and rest together are the content. Before the k-th size line (`SizeInv`) the body is the first
k - 1 chunks and what is in the buffer goes on, in what arrives, with the code of the k-th. In a chunk
(`DataInv`) the body with the next `left` bytes is the first k chunks and a CRLF, so that `resize(size - 2)` drops the CRLF
wherever the reads ended. After a size line was cut nothing is claimed of the body. The proof needs that digits end where the CR stands
(`ChunkLine`), that a concatenation of chunks can be taken apart at each of them (`FlattenJoin`, `ChunkTaken`), and that the parser,
fed token by token, consumes exactly the header (`ParseNext`, `ExecuteReads`).

**LogFormatter** (`ComponentProofs`), for every set of characters and every pattern, however long. `PatternExactHolds`: at
each turn of the loop of `init()` (`Reached`) the items so far, with the text collected, stand for the characters before
the one it is at; once an item is a text with a `%`, they stand for more of them than that, and stay ahead (`Told`). The
lemmas say this of a character that becomes text (`TextTold`) and of an item (`ItemTold`, from where its name and its format end,
`ItemEnds`); each turn takes a character at least, so the loop of the model gets to the end of the pattern.

**Address** (`ComponentProofs`), for every width of an IPv4 address, any number of bytes of any width and any number of groups.
`PrefixExactHolds`: the bits of a number determine it (`BitsAre`, `OfBitsFacts`: a number is built up a bit at a time, and its
quotients by powers of two are what it was on the way), those of `CreateMask()` are the hosts' (`MaskBits`), those of its complement the network's
(`ComplementBits`), so `|` and `&` with it do what `MaskedBits` says; for IPv6 the byte of the boundary is the one place where
the prefix falls inside a byte (`Places`, `V6Byte`). `networdAddress()` is right exactly where the
bits it touches are zero, or where it touches none, since it keeps the hosts' bits and clears the network's. The ends of the range
are in it: an empty IPv4 mask is that of all bits (`V4Exact`), and a boundary behind the address leaves all of its bits to the network.
What IPv6 prefixes of 128 and more make of the scope id is only said to be confined to them. `TextExactHolds`: as long as `insert()` has left nothing out, it has
written the groups up to the last one that is not zero; afterwards, those before the first run of zeros, `::` and those behind it (`SoFar`,
kept by each turn, `InsertTurn`), so the text denotes the address.

Where a proof needs induction (powers of two, the length of what is decoded), it goes by a least counterexample (`LowestFree`,
from the well-foundedness of `<`), since the induction theorems of the library take an operator.

Only model-checked:

* of the properties that hold, the liveness properties `TaskCompletes`, `StopReturns`, `IOStopReturns`, `EveryTimerSettles`, `ReadyWakes`,
  `StopStops`, `EveryClientCloses`, which are beyond the prover;
* `NoAbort`, `TimeoutCancels` and `OnOneThread` of the runs that expect a violation, which do not hold.

## 6. What is not modelled, and why

* Stacks, ids and `reset()` of a finished fiber: a task is one fiber from its first `schedule()` to its end.
* IPv4 prefixes above 32, for which broadcast and network return `nullptr` and `subnetMask()` shifts by a negative
  number, and IPv6 prefixes of 160 and more, which write behind the `sockaddr_in6`.
* The milliseconds that `sleep()` and `nanosleep()` compute in 32 bits (`hook.cc:205, 231`): a single multiplication.
  `setsockopt()`, which sets the timeout in an FdCtx: in Hook a call has a timeout or has none.
* `bind()` after `start()`, where one address that fails clears the sockets of earlier calls (`tcp_server.cc:69`).
* `writeStringF16()` and its siblings with a prefix of fixed width: an integer and raw bytes, each of which is
  modelled. The first writes the length modulo 2^16 and all of the bytes.
* The age test of the pool (`http_connection.cc:338`), which no run of the program can take.
* Grammars of Uri, requests and responses. `uri.cc` and the two `.rl.cc` files are some 21,000 of
  the 32,700 lines of the implementation, Ragel output whose tables repeat the `.rl` files; what
  matters between two reads, and which headers frame a message, is in HttpSession and HttpConnection.
  HTTP messages are values with accessors; printing them is text.
* Socket: `m_isConnected`, `close()` and `accept()` are in the modules that use them; every other member wraps
  one system call. Lookup and the interfaces of Address are calls of the system library.
* Thread and locks: wrappers; a mutex is what makes a step of the code it guards.
* Log past the formatter, and the utilities: output and helpers without shared state of interest.
* Config does not compile at this commit, so there is no behaviour to translate.

The definitions of `PROJECT.json` stand for about 3,200 lines of the code: a quarter of the
lines that were written by hand. Most of the others are accessors, the text of messages and log
lines, conversions, wrappers of one system call, tests and declarations.

## 7. Plan

Done: (1) Scheduler, (2) TimerManager, (3) IOManager and Hook, (4) ByteArray, (5)
HttpConnectionPool, (6) HttpSession and HttpServer, (7) the stop of an IOManager and the growth of
`m_fdContexts`, (8) ServletDispatch, FdManager, `writeToFile()`, `recvResponse()`, Address, LogFormatter,
(9) the proofs of section 5.

What would add most from here:

10. `WorkIsWatched` with a stated exception in place of the hypothesis `Root # {}`.
11. `bind()` while a server runs, and the timeouts of FdCtx set by `setsockopt()` while a call of the
    same descriptor waits.
