# A TLA+ model of ljrServer

ljrServer is a C++ server framework: coroutines ("fibers") multiplexed over a
pool of threads, an epoll-based I/O manager with timers, hooked system calls that
suspend the fiber instead of the thread, and TCP/HTTP servers and clients,
configuration and logging on top. This directory models these parts, checks small
instances with TLC, and proves most of their invariants with TLAPS, for every number
of threads, fibers, timers, handles, connections, listeners and loggers.

    tlc -workers 2 -config scheduler_pool.cfg MCScheduler     # a run
    tlapm SchedulerProofs.tla                                 # the proofs

`PROJECT.json` lists the components, the runs, the mutants, the source lines of
each definition, the hazards and the theorems.

## 1. Inventory

Paths are relative to `src/ljrServer/`.

| Component | State | Operations | Interacts with |
|---|---|---|---|
| Scheduler (`scheduler.*`) | `m_fibers`, `m_activeThreadCount`, `m_idleThreadCount`, `m_stopping`, `m_autoStop` | `start`, `schedule`, `stop`, `run`, `idle` | runs Fibers; virtual `tickle`, `idle`, `stopping` are overridden by IOManager |
| Fiber (`fiber.*`) | `m_state`, stack and context | `swapIn`, `swapOut`, `call`, `back`, `YieldToReady`, `YieldToHold`, `MainFunc` | `m_state` is written by the fiber and by `run()`, without a lock |
| TimerManager (`timer.*`) | the ordered set `m_timers`, `m_tickled`, `m_previousTime`; per timer `m_next`, `m_ms`, `m_cb` | `addTimer`, `cancel`, `refresh`, `reset`, `getNextTimer`, `listExpiredCb` | base class of IOManager; `onTimerInsertedAtFront` calls `tickle` |
| IOManager (`iomanager.*`) | `m_fdContexts`, `m_pendingEventCount`, the epoll handle, the tickle pipe | `addEvent`, `delEvent`, `cancelEvent`, `cancelAll`, `tickle`, `idle`, `stopping` | is a Scheduler and a TimerManager; schedules waiters |
| Hook (`hook.*`) | a per-thread switch; `timer_info` per call | `do_io`, `connect_with_timeout`, `sleep`, `close`, `fcntl`, `ioctl`, `setsockopt` | addEvent + addConditionTimer + YieldToHold |
| FdManager (`fd_manager.*`) | `m_datas` of FdCtx | `get`, `del` | used by Hook |
| ByteArray (`bytearray.*`) | block list, `m_cur`, `m_position`, `m_size`, `m_capacity` | typed reads and writes, `addCapacity`, `setPostion`, iovec export, files | used by Stream |
| Stream, SocketStream | the socket | `read`, `write`, `readFixSize`, `writeFixSize` | HttpSession, HttpConnection |
| Socket (`socket.*`) | handle, `m_isConnected` | `bind`, `listen`, `accept`, `connect`, `close`, transfers | Hook, TcpServer |
| TcpServer (`tcp_server.*`) | `m_socks`, `m_isStop` | `bind`, `start`, `startAccept`, `stop` | schedules its tasks on IOManagers |
| HttpSession, HttpServer | receive buffer, keep-alive | `recvRequest`, `sendResponse`, `handleClient` | parsers, Servlets |
| HttpConnection, HttpConnectionPool | `m_conns`, `m_total` | `getConnection`, `ReleasePtr`, requests | Stream, parsers |
| Servlet dispatch | `m_datas`, `m_globs`, default | add, delete, match | HttpServer |
| Config (`config.*`) | value and listeners of each variable, times of the files | `Lookup`, `setValue`, `fromString`, `addListener`, `LoadFromConfDir` | listeners, among them Log's |
| Log (`log.*`) | loggers, appenders, formatters | `log`, `addAppender`, `setFormatter`, the listener of `logs` | Config |
| Application, Daemon | the process and its parent | `init`, `run`, `run_fiber`, `start_daemon` | all of the above |
| Env, Address, Uri, utilities, thread and lock wrappers | data; pthread objects | conversions, look-ups | - |

**What is hard.** Every worker thread executes the same `run()` loop over one list,
while a fiber's `m_state` is read and written with no lock at all. The decision to
stop is taken by each thread alone from a list and counters that other threads are
changing. A poller sleeps on an expiry that others may change, and must be woken
when it matters and only then. What epoll reports is handled after the handle's
mutex is taken, when it may be stale. Several checks are made under one lock and
used under the next (`listExpiredCb`, `addEvent`, `FdManager::get`, `setValue`, the
file times of `LoadFromConfDir`). A hooked call is woken by its event, by its timer
or by `close()`, in any order. Messages come in pieces, late, or not at all, and
connections are reused afterwards. A logger is rebuilt while others log through it.
A process may crash and be started again. The hazards in `PROJECT.json` list these
places line by line.

**What makes each component correct.**

- Scheduler: a fiber is on one stack at a time; nothing scheduled is lost; the
  counters are exact; `stop()` returns, and only when all is done.
- Timers: a timer fires when due, at most once per period, never after a
  successful `cancel()`; a sleeping poller wakes in time.
- Handle events: waiter, event bit, kernel mask and the pending count agree, so
  that no waiter is forgotten and the manager does not stop under it.
- Hook: an I/O call returns once, with data or its timeout, and leaves neither
  timer nor event behind; sockets stay nonblocking underneath.
- ByteArray: it is a flat array of bytes, with the exceptions of section 6; what is
  written is read back.
- Client: two requests never share a connection, an answer belongs to its request,
  `m_total` counts the living connections, every request ends (section 6 says where
  one does not).
- Server: requests are answered once, in order and by the right servlet; sessions
  end; `stop()` ends every accept task; the daemon replaces a crashed process.
- Config and Log: listeners and loggers follow the values; edits of files are
  seen; values and patterns survive conversion; no accepted event is lost.

## 2. How the project grew, and what is left

The modules were written in this order: `Scheduler`, `TimerManager` and `FdContext`
with their proofs; `ByteArray` over the abstract `FlatBuffer`, and `SocketStream`;
`HttpConnection` and `HttpConnectionPool`; `FdManager` and `Hook`; `Socket`,
`Servlet`, `HttpSession`, `HttpServer`, `Application`; `LogFormatter`, `Log`,
`Config`; then the proofs about the pool and the hook, and about the exchange of
requests and answers, the dispatch and the answers of the server, `Config` with
`Log`, and `ByteArray` with the stream.

Left, in the order of use:

1. The composition of Scheduler, timers and events in `IOManager::stopping()` and
   `tickle()`: that `stop()` of an IOManager never returns with an event or a timer
   pending, and how long a scheduled task may wait for a thread in `epoll_wait`.
2. The prefix arithmetic of `Address`, as operators against a reference.

## 3. Modules and how they correspond to the code

| Module | Extends | Code |
|---|---|---|
| `Scheduler` | - | `scheduler.*`, the states of `fiber.*` |
| `TimerManager` | - | `timer.*`, the waiting part of `IOManager::idle` |
| `FdContext` | - | the events of `iomanager.*` |
| `FdManager` | - | `fd_manager.*` |
| `Hook` | `FdManager` | `hook.*` |
| `FlatBuffer` | - | what a ByteArray promises (abstract) |
| `ByteArray` | - | `bytearray.*`; implements `FlatBuffer` |
| `SocketStream` | `ByteArray` | `stream.*`, `socket_stream.*` |
| `HttpConnection` | - | receiving a response; the client parser's use |
| `HttpConnectionPool` | `HttpConnection` | requests and the pool |
| `Socket`, `Servlet`, `HttpSession` | - | `socket.*`, `http/servlet.*`, `http/http_session.*` |
| `HttpServer` | these three | `tcp_server.*`, `http/http_server.*` |
| `Application` | `HttpServer` | `application.*`, `daemon.*` |
| `LogFormatter`, `Log` | `Log` extends `LogFormatter` | `log.*` |
| `Config` | `Log` | `config.*`, `LogIniter` of `log.cpp` |

### Scheduler

One step is what a thread does between two accesses to shared state. `pc[t]` says
where thread `t` is in `run()`; the table at `ThreadPc` gives the places. The
actions follow `run()` from top to bottom: `ScanTake`/`ScanNone` (the scan under
the mutex with `++m_activeThreadCount`), `Discard`, `SwapIn` and its assertion
`SwapInAsserts`, what the task does on its stack (`Spawn`, `Finish`,
`YieldToReady`, `Await`, `YieldToHold`), `SwapOut`, `Back`
(`--m_activeThreadCount`), `Requeue`, `AfterSwap`, `StoreHold`, `EnterIdle`,
`IdleStep`. The owner's `Start`, `Submit` and the steps of `stop()` are separate
because workers run between them. With `use_caller` the caller's thread is in
`Callers` and enters `run()` through the root fiber inside `stop()`.

A callback task and the `cb_fiber` that `run()` makes for it are one task: both
branches of `run()` treat their fiber alike. `Calls` is the script of `schedule()`
calls, by the owner and by tasks, with the thread they name. `Await` and `Fire`
stand for whatever waker a task registers with (an event or a timer): the waker
calls `schedule(fiber)` at any time after the registration. The state stores of
`YieldToHold`, `SwapOut` and `StoreHold` are separate steps, since nothing orders
them with other threads' reads. The reads of `m_state` by `run()` and the assertion
of `swapIn()` (`scheduler.cpp:293`, `fiber.cpp:176`, `179`) are one step, `SwapIn`.
When a fiber's stack has been resumed by a second thread before the first left it,
later steps of the first are what the code would do if its stack survived
(`scheduler_wild` reaches this).

A failed `LJRSERVER_ASSERT` is the end of the process: the build does not define
`NDEBUG`. The base class's `tickle()` only logs.

### TimerManager

Time is `GetCurrentMS()` in whole units. A timer is constructed (its expiry is
computed) before the lock is taken, hence `Construct` and `Insert`. `Cancel`,
`Refresh` and `Reset` are single critical sections; `onTimerInsertedAtFront` runs
after the lock is released (`InsertedAtFront`). A poller goes through `EnterIdle`,
`GetNextTimer` (with the cast and the cut of `idle()`), `Wake` or `Interrupted`,
`CheckEmpty` (read lock) and `ListExpired` (write lock). `ready` is the edge of
the tickle pipe. `left` is what remains of `epoll_wait`'s timeout and runs by
`Tick` only, as the kernel's timeout does not follow the wall clock, which
`SetClock` may set. `fired` and `cancelled` are history.

The clock starts at `Hour`, so that the unsigned subtraction of
`detectClockRollover` does not wrap, as on any machine whose clock is past the
first hour of 1970. `epoll_wait` being woken by other handles is left out: it only
makes pollers look earlier. `std::set` orders equal expiries by address; here any
of them may be first.

### FdContext

`events` and `waiter` hold the bits of `FdContext::events` and the filled
EventContexts, for each object: `contextResize` may drop an object and create
another for the same handle, so objects are numbered (`slot`, `created`).
`interest` and `data` are the epoll instance, modelled from its use: `MOD` and
`DEL` fail for an unregistered handle, `ADD` for a registered one, and closing a
handle forgets it. `BeginAdd`/`Grow`/`Add` are the read-locked, write-locked and
mutex-protected parts of `addEvent`; `Begin` with `Del`, `Cancel`, `CancelAll`
the other operations; `Shut` the system call in the hooked `close()`.
`PollReturn` hands a thread a result, which `HandleEvent` handles later under the
object's mutex; `Trigger` and `Decrement` are separate steps because
`m_pendingEventCount` is read by `stopping()` without that mutex. Threads in
`Locking` hold the mutex, and every other step on the object waits for it.
`real_events` is taken as the code computes it, not intersected with the events
still set.

### FdManager and Hook

`FdManager` is the vector of contexts with its size: the look-up under the read
lock and the creation under the write lock are two operators, so that others run
between them; the size test and `resize(fd * 1.5)` are the code's. `FdCtx::init`
sets the socket nonblocking.

`Hook` has one action for each place where a fiber may be left by its thread or
cross another thread: `Begin` looks the context up, then `Try`, `ArmTimer`,
`addEvent`, `Yield`, `Woke` and `CheckConnect`; `CancelAll`, `DelCtx` and `CloseF`
are the steps of `close()`, `SocketF` and `CreateCtx` those of `socket()`. `recv`, `send` and
`accept` share `do_io`, as in the code. Waiting uses the IOManager as the lower
modules describe it: `addEvent` is one step (with its failure and its assertion),
a timer that is due becomes a callback (`Expire`) which some thread runs
(`RunCallback` sets `cancelled`, `CallbackCancel` calls `cancelEvent`), and a fiber
that is woken before it has yielded runs on once it has. On one thread
(`m_threadCount = 1`) nothing runs until the running fiber yields; on two, other
fibers' steps come in between. A fiber outside `t_hook_enable` is on a thread
without hook and goes straight to the system call. The kernel's sockets (`kern`:
open, nonblocking, connecting, ready, watched by epoll) are external. Two history
variables name the exceptions of the properties: `raw`, the handles whose blocking
mode was changed behind the table's back, by `ioctl(FIONBIO)` or by a `close()`
outside the hook that left a context; and `outside`, the handles that a thread
without hook opened or closed.

### ByteArray, FlatBuffer, SocketStream

A ByteArray is one record, and each method an operator on it, so that methods that
call methods compose. The walk over the linked blocks is given in closed form.
`m_cur` is a block number, `NULL` behind the last. `crash` is a null block pointer
followed, `threw` is `std::out_of_range`. Bytes have `VarintBits + 1` bits, so
widths, continuation bits, sign and byte order meet the block boundaries at small
sizes; integers wrap at 4 and 8 bytes as `uint32_t` and `uint64_t` do. The iovec
exports (`getReadBuffers` and its siblings) are the sequence of the bytes they point
to, and `Gather` is what the kernel's `writev` takes from there; `ReadAt` and
`GetReadBuffersAt` look at any position of `Positions`, behind the end too, with the
code's choice of the first block; `readFromFile` is `OpenFile` and one `ReadFile`
per round of its loop, the rest of the file being `file`. `recs` is history: what
was written where and is still there, and `reply` what a typed read should give and
gives. `FlatBuffer` has bytes, a position and where it was looked at last;
`FlatBufferSpec` is the refinement, by `INSTANCE FlatBuffer WITH data <- Contents,
...`. A look that may return other bytes than an array's (`Astray`, section 6)
counts as one that shows nothing.

`SocketStream` adds the socket: one step is one call of the socket, which may
return short, find the end or fail, and the loop's reaction. `len` is a `size_t`,
so a failed read adds -1 to the offset.

### HttpConnection and HttpConnectionPool

A response on the wire is a sequence of units: status line, header name, header
value, blank line, chunk size (one or two digits), data, CRLF; a body is sent with
its length, or as one chunk, if it has any bytes, and the last chunk. `execute()` of
the parser consumes the units that are complete, and forgets the marks of a line it
has seen in part, as the generated code does when its buffer is moved. A step of a
fiber is what it does between two calls of the socket or under the pool's mutex:
`getConnection` (with the connections it discards), the creation, `m_total`'s
additions and subtractions outside the mutex, sending, receiving, `ReleasePtr`.
Servers answer in pieces, close at any time, and stay silent. `Response` is what is
returned: `rx.body` is the local string of `recvResponse()`, which the response gets
only when it came in chunks. Connections on which a header line was cut in two are
`dirty`.

### Socket, Servlet, HttpSession, HttpServer, Application

The server's fibers are on one thread, as `Application` arranges, so a fiber runs
from one waiting system call to the next; `stop()`, changes of servlets and the
clients come from outside. `AcceptStep`, `SessionStep` and `StopTask` are the three
kinds of fibers. Requests are units as above, the request line two of them, cut
inside its path; `spoilt` marks a request on a connection where the path or a header
line was split over two reads, pipelined bytes were dropped with the local buffer,
or a read failed inside a body. Any servlet may then be found (`Chosen`), and any
request may lose its connection header to a split (`Closes`). A response that cannot
be sent ends the process: `writeFixSize` sends again, and `SIGPIPE` is `Crash`.
`Servlet` keeps the vector of patterns as the code does (erase, append, first match)
together with the order of registration, from which `Reference` answers.
`Application` starts the process: the pid file, `run_fiber` over the configured
addresses (an address without a port is skipped, an unknown one is an error), the
end of `main`, a crash; and the daemon's loop of `fork`, `waitpid` and `sleep`. One
process starts its server once.

### LogFormatter, Log, Config

A pattern is a sequence of characters; `init` cuts it into items with the code's two
indices, in closed form for the text between percent signs. Of a conversion, what is
modelled is how sets, maps and definitions of loggers are taken apart and put
together: a scalar or a vector is its text, and the members of a definition are
texts. Loggers and appenders are records. A listener-driven change of the loggers is
one step for each operation of `LogIniter` on a logger, since loggers are reached by
other threads meanwhile: `work` is the set of the operations still to do, each with
its place in the nested loops, and the next one is the first of them (`Before`). The
listeners still to be told (`todo`) are a set too, taken in the order of their
numbers, as the map is walked. `Log` collects the appenders' outputs in one step, as
the logger's mutex is held; the test of the level before the mutex is taken
(`log.cpp:547`) is part of it. `setValue` compares and tells its listeners under the
read lock (one step each), unlocks, and stores under the write lock.
`LoadFromConfDir` lists the files, compares and records each file's time in whole
seconds, reads it and loads its members one after another. History variables name
the situations in which the code gives up its promise: `raced` (overlapping
`setValue`, or a listener added between the telling and the storing), `touched`
(loggers the program changed itself), `dropped` (loggers an empty configuration
leaves), `back` (an appender taken out and added again), `sameTime` (an edit within
the recorded second).

## 4. Runs

| Run | Instance | Shows |
|---|---|---|
| `scheduler_pool` | 2 workers and the caller's thread; a task pinned to the latter schedules another; 1 yield each; fair | no fiber on two threads, no task lost, `stop()` returns and only when all is done |
| `scheduler_single` | caller's thread only; a task that waits, a task scheduled twice | a fiber that ended stays so |
| `scheduler_wild` | 2 workers, waiting and double scheduling | the counters stay exact even where fibers collide |
| `timer_pool` | 2 pollers, an outside thread, a one-shot and a recurring timer | callbacks and set agree, no wake-up is missed |
| `timer_single` | 1 poller that also changes timers, clock jumps both ways, signals, fair | due timers fire; a one-shot timer once and never after `cancel()` |
| `fd_pool` | 3 threads, handle 0 and handle 2 beyond the table, 3 adds | count, contexts and kernel masks agree |
| `fd_single` | 1 thread, two handles beyond the table, one closed and reopened, 5 adds | no assertion of `triggerEvent` fails when no result is stale |
| `bytearray` | blocks of 3 bytes, bytes of 3 bits, 6 typed values, 4 calls, 3 bytes from the peer, 1 failing call | ByteArray implements FlatBuffer but for looks that go astray; typed values are read back; fixed-size transfers are exact |
| `http_client` | 2 fibers, 3 requests, 2 connections, a chunked and a plain answer, 1 receive timeout for each; a server that may fall silent; fair | one owner, exact `m_total`, clean idle connections, right answers; requests end, but for a timeout inside a body |
| `hook` | 2 fibers with 2 calls each out of 10 on one socket; 1 thread, 1 hooked and 1 unhooked thread, 2 threads; fair | no waiter lost, no orphan event, sockets stay nonblocking, `connect` tells the truth, timed calls return |
| `http_server` | 2 addresses, a client with 2 requests and a silent one, 2 patterns, 4 launches, 1 crash, 1 failing bind; fair | answers in order, dispatch as registered, sessions and `stop()` end, the daemon recovers |
| `config_log` | 2 threads, 2 variables, 2 loggers, 1 file with 3 contents, 3 calls or edits | listeners and loggers follow, formats are inherited, edits seen, conversions round-trip, no event lost |

**Bounds.** `MaxYields`, `MaxOps`, `MaxAdds`, `MaxCalls`, `MaxRequests`,
`MaxEvents`, `MaxTimeouts` and `MaxTime` bound what the users, peers and clocks of a
component do, never its own steps. Two threads suffice for the races listed, since
each is between two critical sections of one thread and one step of another;
`fd_pool` has a third so that a mutex is contended while a stale result is held.
`scheduler_pool` has three threads, so that two workers race while the caller's
thread enters through `stop()`, and two tasks, one pinned and one scheduled by it;
two timers give an order and a change of the first. `MAX_TIMEOUT` and, in
`timer_single`, `Hour` are small enough for a run to meet them, and not in the
proportions of the code (3 seconds and an hour); `IntRange` is beyond every period
of the runs, and the theorems about timers that need no `SteadyClock` hold for
longer ones too. In `http_client`, `Now` is a constant: as `m_createTime` is never
set, the expiry tests depend on it alone. `fd_pool` closes no handle and has one
handle beyond the table: with two, two threads shrink the table and `KernelMatches`
fails for the lost object, and a handle closed under another thread's result is no
longer the same handle. `timer_pool` sets no clock, sends no signals and uses
periods that fit, because `NoMissedWake` needs that; `timer_single` sets the clock
and sends signals. At `MaxTime` the wall clock stays while `epoll_wait` still runs
out, so the bound keeps no poller asleep.

In `bytearray` no fixed type wider than one byte divides a block; the fixed-size
transfers have the lengths of `FixSizes`, up to `MaxFix`; and four calls are enough
to write across a boundary, go back, read and write again or clear; the sizes that
make `addCapacity` one block short occur. In `http_client` one fiber returns to the
pool after its first request, so connections are reused, and the receive buffer of 5
units is smaller than the answers. In `hook` two calls per fiber let a wait meet a
`close` and a `socket` of the same handle, or a second wait meet what the first left
behind. In `http_server` the buffer of 4 units splits requests, and one client
suffices to be served while the other occupies the thread's other session. In
`config_log` three calls or edits let two `setValue` overlap with a logging thread,
or two loads with an edit.

**Fairness.** Scheduler: the operating system runs every thread, the owner goes on
to `stop()`, and a registered waker fires. Weak fairness is enough: a step that a
thread can take stays possible until it takes it, apart from mutexes, which are
single steps here. Tasks may not run for ever because their yields are bounded.
TimerManager: time passes, and no thread rests inside `addTimer` or the idle loop;
users owe nothing. Hook: threads go on with the fiber they run, take what is
scheduled, expire timers, poll and run callbacks; peers owe nothing. Client: fibers
step, so a read ends with what has come, at the end of the stream or by the timeout
that `doRequest` sets; the server owes nothing, neither an answer nor a close.
`MaxTimeouts` lets each request time out at least once, which ends it everywhere but
in a body. Server: the process, its fibers and the daemon step, and a connected
client closes in the end. `bytearray` and `config_log` have safety properties only
and assume none.

**Deadlock** is checked in the scheduler, timer and handle runs: `Terminated`
(after `stop()` or a failed assertion) and `Horizon` (the bound on time) are the
only places to rest. The other five runs do not check it, because their users stop
after their bounded calls (fibers between calls, clients that are done, idle
threads, a crashed process, a daemon that gave up): there, resting is the normal
end. Their liveness properties say that nobody rests inside an operation.

## 5. Proofs

**Scheduler (`SchedulerProofs`).** `CountersCorrect` and `SchedulerTypeCorrect` need
no assumption: `CountersInv` adds to `CountersExact` the types, that a thread inside
a task has a task, and that no thread is in `run()` before it was started. The
other theorems assume `OneCallEach`: no task registers a waker and each is
scheduled once. That is the boundary: with one waiting task on two workers
`RunningIsExec` is false of the code (section 6). The strengthening is `OwnedOnce`: a
task is owned by one entry of the list or by one thread, its `m_state` is what that
owner expects, and a task still to be scheduled has not been seen. `OneRunner`
alone is not inductive, as nothing would keep a second list entry from being taken.
`StopDrainsCorrect` further assumes `OwnerPins` (only the owner names threads,
before `stop()`), without which a pinned task can be lost; its invariant `DrainInv`
says that every entry of the list has a thread that will still scan for it, a
worker that yielded a READY fiber being itself such a thread even in the window
where the counters already say "drained".

**Timers (`TimerManagerProofs`).** `TimerInv` follows a timer through its life
(constructed, in the set with its callback, cancelled or fired) and gives
`TypeOK`, `CbMeansQueued`, `OneShotOnce` and `CancelFinal` with no assumption on
clock, signals or periods. `NoMissedWake` and `WaitBounded` (`epoll_wait` never
sleeps longer than `MAX_TIMEOUT`) assume `SteadyClock`. Their invariant `WakeInv`
says: either somebody is on the way to the timers (a poller that does not sleep, an
edge on the pipe, a thread about to tickle) or every timer is covered by a sleeper;
and `m_tickled` is set only in the first case.

**Handle events (`FdContextProofs`).** `PendingCorrect`, `ContextCorrect` and
`FdTypeCorrect` hold with no assumption: handles may be closed, the table may
shrink, results may be stale. `PendingInv` adds the shape of each thread's
argument. `KernelCorrect` assumes `FixedTable` (handles stay open and fit the
initial table); `KernelInv` adds that there is one object for a handle, one holder
of its mutex, and that a thread about to lower the count has cleared its event.
`TriggerAssertsHold` assumes `SingleThread` instead, and lets handles be closed and
the table grow. Its invariant `TriggerInv` says that the kernel is interested only in
events that are set in the object it points to, and that what the thread has
collected and will still trigger is set and no longer of interest (`StillSet`); the
property alone says nothing about the events further down in a `cancelAll`.

**Connection pool (`HttpConnectionPoolProofs`).** For any fibers, connections,
requests and answers. `OwnerInv` adds to `OneOwner` the types, what each place of a
fiber says about its pointer (`Phase`), and that connections are made in order and
live until deleted (`Lives`): without these a new connection could be one somebody
holds. `PoolInv` adds `TotalExact`, step by step a change of `m_total` against the
cardinality of `Counted`; that `m_total` is never negative, part of `TypeOK`,
needs it.

`PoolIdleClean` and `PoolAnswerMatches` are about the contents of the wire, for every
size of the buffer and of the bodies and every way the answer is cut into reads.
`Tracks(r, A, s, req, q)` says what `recvResponse()` has made of an answer `A` of
shape `s` when `q` units of it were read, at each of its places: which part of `A`
is in the buffer, how much of the body it has, how many units it still wants. It is
shown of every answer first (`AnswerIs`: where its size lines and its bytes are), then
kept by every read (`ReceivedTracks`, `ErrorTracks`) and by the parser
(`HeaderTracks`, `SizeTracks`, `BytesTracks`), unless a line is cut in two. `ExchangeInv`
then says of each fiber that its good connection is silent, or has its request on the
way, or the rest of its answer from unit `q` on, and of each connection in the list
that it is silent; `FiberRests` and `StepKeeps` confine a step to the one connection it
touches, which `OneOwner` makes its own.

**Hook (`HookProofs`).** For any finite set of fibers, any handles, calls and
numbers of threads, assuming `RoomAtStart`: the table starts with room for handles 0
and 1 and for the sockets that exist (the code starts with 64 entries). `HookInv` is
the types (`Typed`) and `WaitInv`, which relates the place of each fiber to its
timer, to the callbacks on the way and to the table of waiters, and gives
`NoLostWaiter` and `NoStaleTimer` (no timer outlives its call). `HookNonblockKept`
adds `ModeInv`: a socket's context says that the system's mode is nonblocking, and
the kernel agrees. `HookNoOrphanEvent` is about one thread; `OrphanInv` says that a
fiber inside `close()` has the thread (`OneThread`) and, from `cancelAll` on, nobody
waits for its handle (`Emptied`), and that an open handle with waiters has the
context that leads `close()` through `cancelAll` (`HasCtx`, `Watched`).

`HookConnectTrue` (`ConnectTrue`) is about one thread too and builds on `OrphanInv`. The
error of a socket that is still connecting is 0, so the question is what can bring the
fiber to that query too early. `GivenInv` says where timeouts come from: a call is on its
course through the places (`OnCourse`), its timer and callback exist only for a handle
that was given a timeout for that event, or for the `connect` itself (`Given`, `CbGiven`),
and a socket that is connecting reports no event (`Silent`). `ConnectInv` adds that a
callback about to cancel has the thread, and so marks a call that cannot end before it
(`Cancelling`), and that whatever took the event of a waiting `connect` away left a trace
(`Connecting`, `Roused`): the connection is decided, the call is marked, or a `close` is
between `cancelAll` and the end, and then nobody else runs before the call is marked lost.
By `Watched`, `addEvent` does not fail on the way in. It uses that `connect` waits
for `WRITE` (`ConnectsWrite`, an assumption of `Hook` on the calls: `hook.cpp:454`, `460`).

**Server (`ServerProofs`).** `ServerDispatchRef`: for any patterns (finitely many),
servlets and paths, requests are dispatched as the registrations say. `DispatchInv` says
that the vector and the history agree (`Agree`): each registered pattern is in the
vector once, with its servlet, in the order of registration. It is kept by erasing and
appending and restored by every restart, and the first match is then the oldest one
(`FirstIsOldest`).

`ServerAnswersInOrder`: for any addresses, clients and scripts, reads of any length,
timeouts, closes, crashes and restarts; `ServerConstants` says that each script is a
finite sequence of requests for known paths. The property says nothing of what has not
been answered yet, so `SessionInv` says it, of every client that waits to be accepted
or has a session. `Ordered` holds whatever was dropped: a request line on the wire is
of a later request than the one in progress, and that one of a later request than the
last answer. `Exact` holds until something was dropped: the wire carries, unit by unit,
the rest of the next request and then all the later ones (`Coming`), and `recvRequest()`
is where the units it has read put it (`Progress`). A read keeps both (`OrderedRead`, and
`ExactRead` from what the parser makes of the units of a request, `ParseTracks`); so do a
request sent (`ExactSent`) and an answer (`ExactNext`). `Queues` says that a client waits
at one address, once, before its session, so that accepting it takes its only entry.

**Config and Log (`ConfigProofs`).** For any variables, listeners, threads, files,
edits, loggers and configurations, from `ConfigConstants` and `LogConstants` (the
logs are a variable of their kind, the names that can be configured are listed once
each, without the root logger's, and the default pattern is valid).
`ConfigListenersKnow`: `KnowInv` says, of a variable that is being set, that each
listener was told the new value, or the old one if it is still in `todo`, that
nobody can write while a reader holds the lock, and that there is one setter unless
`raced`. `ConfigEditsSeen`: `FileInv` says that a file whose recorded time is its
time was read, or is about to be by the thread that recorded it (`Covered`), and
that a thread that began after the edit and has passed the file leaves it covered.
`ConfigFormatInherited`, `ConfigPatternKept` and `ConfigNoEventLost`: `LogInv` says
of every logger, of the appenders the program holds and of the operations still to
do what makes each operation keep the format, that the root logger always has an
appender that lets every event through, and that no format is erroneous.
`ConfigPatternKept` has `SpeltAgain` as its hypothesis, the part of `PatternKept`
that is about constants only: TLC evaluates it for the patterns of the run.
`ConfigLoggersFollow`: the property is about quiet states only, so `FollowInv` says
what holds in between, of a variable "logs" that one thread is setting. Until the
listener is called every logger follows the old value. From then until the value is
stored it is `Between` the two: a logger with a new definition is as this definition
says, but for what the operations still to be done will set (`Coming`: the level and
the format, then the appenders are cleared, then the first `j` of them are there and
the others to come); one without a definition is off, but for what is still to be
done (`Leaving`), or never was configured; and one whose definition has not changed
has the operation to come that ends the program. An operation keeps this because
those that are left come after it (`ComingDone`), for its own logger and for the
others (`BetweenOther`); a logger that is only made, by somebody who logs, still
follows (`FollowsMade`). With nothing left to do it follows the new value
(`BetweenEnd`). `LoadInv` adds that every value that is being set has lists of
appenders and that the first listener of "logs" cannot be removed, and `KnowInv`
that there is one setter. The hypothesis `SelectedLists` says that what `SelectSeq`
leaves of a list (the members of a file, the appenders of an entry) is a list: it is
about constants only, and TLC evaluates it for the instance (`ListsAreLists`).

**ByteArray and stream (`SocketStreamProofs`).** For blocks of any size, any width
of a byte, any samples, calls and results of the socket. `StreamInv` is the types,
the shape of the array (`Shape`: the capacity is the blocks' and `m_cur` is the
block of the position) and `CallOk`: of a call under way, the offset and what is
left add up to the length, each failure of the socket counting one back. It gives
`ByteArrayCurMatches`.

`ByteArrayIsFlat` is the refinement, but for what the looks that go astray return. `Moves(b, r)` lists what an operation may do to a
ByteArray: crash, add bytes at the position, take bytes from it, look at bytes, move
the position, clear. Every operation is one of these, down to each `writev` of a stream
(`EncodeMoves`, `DecodeMoves`, `LooksMove`, `ReadByteArrayMoves`, ...), and each of these
is a step of `FlatBuffer` or none (`MovesIs`); underneath are the walks over the blocks
(`Walk`, `AddCapacity`, `StoreIs`, `ReadIs`), where one number has its block and its place
in it (`DivUnique`).

`StreamFixSizeExact`: what was moved by a call that has not failed is in the buffer, or in
the array behind the position, in the order of the wire; one result of the socket extends
it (`OneResult`, `Grown`, `WindowGrows`). The step needs `StreamInv`, not only the property.

`StreamReadBack`: `ReadInv` says that each value written and not overwritten since is where
it was written, with the bytes of its encoding at that time (`Holds`). Writes elsewhere,
looks and moves keep them (`RecordsKept`, `RecordsWrote`); a read at that position takes
exactly these bytes, whatever follows them (`DecodeCoded`, for a varint from the first byte
without a continuation bit). That these bytes are then the same number is the
hypothesis `NumbersExact`, about constants only: the loops over the digits of a number
are folds, and TLC evaluates it for the values of the run (`SamplesExact`).

**Only model-checked.** Liveness (`StopReturns`, `DueTimersFire`, `RequestEnds`,
`TimedCallReturns`, `StopEnds`, `SessionEnds`, `Recovers`), as TLAPS does not reason
about fairness. The arithmetic of the encodings (`NumbersExact`) and of the patterns
(`SpeltAgain`), which are folds over data, and that a selection from a list is a
list (`SelectedLists`), as `SelectSeq` is recursive. `RoundTrip`, which sorts and
filters sequences (`SortSeq`, `SelectSeq`). `EndedStays` where tasks wait or are
scheduled twice.

## 6. What the code does not guarantee

The properties above hold with the exceptions they name. Behind each exception is a
behaviour of the code that the model shows:

- Scheduler. A fiber that waits can be resumed by a second worker before the first
  has left it, and the first then marks the running fiber HOLD (`scheduler.cpp:308`,
  `fiber.cpp:301`). A worker leaves `run()` while a READY fiber is between counter
  and list; a task then pinned to that worker never runs (`scheduler.cpp:298`). A
  pinned fiber that yields goes on on any thread (`scheduler.cpp:303`).
- Timers. `listExpiredCb` can find the set empty when it dereferences `begin()`,
  after a `cancel()` between its two locks (`timer.cpp:306`). A first timer 2^31 ms
  or more away makes `epoll_wait` wait for ever (`iomanager.cpp:531`); a signal
  starts the wait again in full (`iomanager.cpp:541`).
- Events. With two threads `idle()` triggers an event of a stale result that is no
  longer set, and the assertion fails (`iomanager.cpp:628`); two resizes in the wrong
  order cut the table (`iomanager.cpp:185`).
- Hook on two threads. A timeout that fires between `addConditionTimer` and
  `addEvent` is lost (`hook.cpp:227`); a waiter woken by `close()` can register again
  before the handle is closed (`hook.cpp:617`); a late `cancelEvent` wakes a later
  `connect`, which returns 0 too early (`hook.cpp:212`, `492`). The latter is possible
  on one thread too: the expired timer's callback waits behind the fiber that sends,
  returns and connects, and cancels the event of the `connect`; `ConnectTrue` excepts
  handles other calls write to with a timeout. On any:
  `ioctl(FIONBIO, 0)` makes the real socket blocking (`hook.cpp:754`), a `close()`
  outside the hook leaves a stale context (`hook.cpp:607`), and `get()` creates a
  context without looking again (`fd_manager.cpp:165`) and reads past the vector for
  `fd == size()` (`fd_manager.cpp:146`).
- ByteArray. `addCapacity` is one block short for some sizes (`bytearray.cpp:1163`);
  `read` with a position begins in the block of `m_position` whatever the position
  (`745`, `749`), where its comment says that it reads from that position
  (`bytearray.h:167`), and behind the end its size test wraps; `getReadBuffers` with a
  position takes the length that `m_position` leaves (`1041`, `1055`) and passes the
  end; `getWriteBuffers` follows a null block for a range that ends with the last one
  (`1124`);
  `writeToFile` cuts the tail of some ranges (`854`); `readUint64` stops after 32
  bits (`468`); `EncodeZigzag64` takes an unsigned value
  (`107`). `readFixSize` adds a failure's -1 to its offset (`stream.cpp:17`);
  `writeFixSize` does not end when the socket keeps failing (`stream.cpp:57`).
- Client. A receive timeout inside a body of known length does not end the request:
  `readFixSize` takes the -1 for a length (`stream.cpp:17`) and reads again, with the
  timeout that was to bound it (`http_connection.cpp:636`) each time, until the server
  closes. A header line split over two reads is dropped
  (`httpclient_parser.rl:185`), and a body of known length is received but never
  set as the response's body (`http_connection.cpp:232`). `m_createTime` is never set and the expiry tests have
  their sides swapped (`http_connection.cpp:455`, `499`); `m_maxSize` is not enforced.
- Server. `execute()` forgets where a part began when its buffer moves
  (`http11_parser.rl:284`): a path that comes in two reads is wrong, and a header, the
  connection header too, is dropped. Pipelined bytes that came with a request are lost with the local buffer
  (`http_session.cpp:85`), and a failed read inside a body counts as a length (`98`), so
  that a client that is silent there is let go only when it closes.
  A child that cannot bind or write its pid file ends with status 0, and the daemon
  gives up (`application.cpp:322`, `222`, `daemon.cpp:112`).
- Config and Log. Overlapping `setValue` calls may tell one order and store the
  other (`config.h:436`). A definition that did not change is dereferenced as null
  (`log.cpp:1164`); loggers are not removed when the new configuration is empty
  (`1203`). A second edit within the same second is missed, and a file that failed to
  load is not tried again (`config.cpp:135`). `9` is missing among the characters of
  names (`config.cpp:45`). An appender that is taken out and added again keeps its
  old format.

## 7. Not modelled

- IOManager's `stopping()` and tickle pipe together with `run()` (section 2): the
  window between `listExpiredCb` and the scheduling of its callbacks
  (`iomanager.cpp:560`), and the tickle that is sent only for an empty list
  (`scheduler.h:181`), belong there.
- A second `start()` of a stopped Scheduler (its root fiber would be TERM,
  `scheduler.cpp:187`) or TcpServer (two accept fibers per socket until the stop task
  has run, `tcp_server.cpp:154`): the code's own uses start once.
- Stack switching, the reuse of a `cb_fiber` by `reset()`, `addConditionTimer`'s
  weak pointer in `TimerManager` (it decides inside the callback; `Hook` has it),
  several handles in one result of `epoll_wait` (handling one touches no other).
- The character grammars of the HTTP and URI parsers (generated by ragel), header
  maps and cookies, `Address`, `Env`, socket options, thread and lock wrappers, time
  and backtrace helpers: data, formatting or thin wrappers of system calls.
- `Application::init`: the choice between `-s` and `-d`, the help text, the test for a
  running process and a work path that cannot be made; each ends the program before
  anything is started. A failure of the daemon's `waitpid`.
- `s_fun_id` of `addListener` is one counter for all variables of a type
  (`config.h:456`), raised under the lock of one of them: two threads that add listeners to
  two variables of a type race for it. Here each variable has its own, as variables of
  different types do, which the two of the run are.
- A configuration of loggers with members that are no texts (the conversion throws,
  `log.cpp:1013`), `setFormatter(nullptr)` on an appender, levels of appenders the
  program sets, a log file that cannot be opened.
- System-call failures other than the ones named above.
