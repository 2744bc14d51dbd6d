# A TLA+ model of networker

`src/networker` is a C++ network library in the reactor style: an `EventLoop`
per thread polls descriptors and runs callbacks, a `TcpServer` spreads
connections over the loops of a thread pool, a `TcpClient` connects and
reconnects, and `AsyncLogging` takes the log lines of all threads to a file.
These modules model the parts with state of their own and concurrency between
them, and the arithmetic of log lines and calendars. TLC checks them on small
instances. TLAPS proves all the safety properties that the passing runs check,
both refinements included, for every number of threads, channels, timers,
connections, buffers and bytes, every zone file and every day of the calendar.

## Inventory

| Part | State | Operations | What is hard |
|---|---|---|---|
| `EventLoop` | `pendingFunctors_`, `callingPendingFunctors_`, `quit_`, the eventfd | `loop`, `runInLoop`, `queueInLoop`, `wakeup`, `handleRead`, `doPendingFunctors`, `quit` | other threads push and quit between any two steps of the loop; a wakeup that is lost leaves work or a quit until the 10 s timeout |
| `EventLoopThread` | `loop_` under `mutex_`/`cond_`, the thread | `startLoop`, `threadFunc`, destructor | start-up and destruction race with the loop |
| `TimerQueue`, `Timer`, `TimerId` | `timers_`, `activeTimers_`, `cancelingTimers_`, the timerfd | `addTimer`, `cancel`, `handleRead`, `getExpired`, `reset`, `insert` | callbacks add and cancel while a batch is run; addresses of deleted timers are reused; the timerfd must fit the sets |
| `Channel`, `EPollPoller`, `PollPoller` | `events_`, `revents_`, `index_`; `channels_`, `pollfds_`, the kernel's list | enable/disable/`remove`, `updateChannel`, `removeChannel`, `poll` | two encodings of the registration in `index_`, raw pointers in the kernel, changes in the middle of a round |
| `TcpConnection` | `state_`, the channel's flags, `outputBuffer_`, reference counts | `send`, `shutdown`, `forceClose`, `forceCloseWithDelay`, `startRead`, the channel's handlers, `connectEstablished`, `connectDestroyed` | many ways of closing at once, life time passed from map to functor to functor across two loops, partial writes, calls from other threads |
| `TcpServer`, `Acceptor`, `EventLoopThreadPool` | `connections_`, `started_`, `nextConnId_`; `listenning_`, `idleFd_`; `loops_`, `next_`, the threads | `setThreadNum`, `start`, `handleRead`, `newConnection`, `removeConnection`, destructors | connections go back and forth between loops; descriptors run out and are reused; the server is destroyed while loops still hold connections |
| `Connector`, `TcpClient` | `state_`, `connect_`, `channel_`, `retryDelayMs_`; `retry_`, `connect_`, `connection_` | `start`, `stop`, `restart`, `connect`, `retry`, handlers; `connect`, `disconnect`, `stop`, `newConnection`, `removeConnection`, destructors | retry timers, queued starts and stops, and a delayed `resetChannel` meet; sockets change owner; connect is called again and the client destroyed at any time |
| `AsyncLogging` | `currentBuffer_`, `nextBuffer_`, `buffers_`, the two spare buffers | `append`, `start`, `stop`, `threadFunc` | buffers go round between the front end and the thread; overlong rounds are cut; stop races with the wait |
| `LogFile`, `AppendFile` | `file_`, `writtenBytes_`, `count_`, `startOfPeriod_`, `lastRoll_`, the files on disk | `append`, `rollFile` | rolled by size and by day, with names of one second's resolution |
| `Buffer` | the vector, `readerIndex_`, `writerIndex_` | `append`, `retrieve`, `unwrite`, `prepend`, `shrink`, `readFd`, `makeSpace`, integers, `findCRLF`, `findEOL` | index arithmetic at the boundaries, byte order and sign |
| `Logger`, `LogStream` | `g_logLevel`, `g_logTimeZone`; `t_lastSecond`, `t_time` of each thread; the buffer of a statement | a log statement, `setLogLevel`, `setTimeZone` | a cached text against a moving clock and a changing zone; a buffer that is full |
| `Date`, `TimeZone` | the transitions and local times of a zone | conversions | transitions, hours that come twice, instants before 1970, leap years |
| `Socket`, `SocketsOps`, `Thread` and the locks, addresses, strings, `ProcessInfo` | | | wrappers of system calls and value types (see Not modelled) |

How they interact: a loop calls its poller, the poller fills the list of active
channels, the loop calls their handlers and then the queued functors. Everything
that crosses threads does so through `queueInLoop`; `TimerQueue`,
`TcpConnection`, `TcpServer` and `Connector` rely on the order and completeness of
that queue. `PROJECT.json` lists the hazards of the code line by line with the
properties that guard them.

## Modules

`Executor` says what `queueInLoop` promises: callbacks are accepted in some
order and executed one at a time in that order, each once. `EventLoop` is the
detailed specification and implements it. The modules above the loop take a
loop as such a FIFO, with its steps in between where the order matters.

* **EventLoop** - one action per step another thread can observe: the push under
  the lock (`QueuePush`), the wakeup after the unlock (`QueueWakeup`), the store
  of `quit_` and its wakeup, and the loop's test of `quit_`, poll, each handler,
  the setting of `callingPendingFunctors_`, the swap, the return of each functor
  and the clearing of the flag. `callingPendingFunctors_` has no initialiser in
  the constructor: its first value is arbitrary. The loop thread itself may call
  `queueInLoop` and `quit` wherever it runs user code.
* **EventLoopThread** - extends EventLoop with `threadFunc`, the owner's
  `startLoop` and the destructor. Only the owner quits the loop.
* **TimerQueue** - the two sets, the batch of `handleRead`, the timerfd and the
  heap of timers with reused addresses. Time is relative: an expiration is the
  ticks left until it is due, 0 or, once overdue, `Past`; the order of two
  overdue expirations is open. `PollTimerfd` and `HandleRead` are two steps: a
  callback of the same round may program the timerfd again in between, and the
  read then gives `EAGAIN`.
* **Poller** - the channels and both pollers (the environment picks one at the
  start), the kernel's interest list, and the round in which the loop hands out
  the active channels. The kernel may report any of the events asked for, and
  errors and hang-ups unasked. `POLLPRI`, `POLLRDHUP` and `POLLNVAL` are not
  told apart from these, and the system calls do not fail. A channel's owner
  respects the asserts of `Channel::remove` and `~Channel`; the model shows what
  they buy. The first call on a channel may be any, `disableAll` included.
* **TcpConnection** - one connection from accept to destruction between the main
  loop and an I/O loop, and a user in another thread. The object lives while
  `connections_`, a functor or a user holds it. The asserts do not stop the
  program (the default build defines `NDEBUG`); a failing one is recorded in
  `failed`. A call from another thread tests `state_` and acts in two steps;
  `late` records that a close came in between (or that `startRead` came after
  it), which is the only way the properties can be defeated.
* **TcpServer** - the server with its acceptor, its thread pool and several
  connections, of which it keeps the state, the loop and the descriptor. A loop
  is modelled by rounds: handlers, then the functors of one swap, then the test
  of `quit_`. The references that a round's functors hold are dropped at its
  end, on that loop; the last one dropped closes the descriptor. The asserts that
  fail are collected in `failed` by name. The destructor
  is modelled in its parts: the body, each `quit` and `join`, the acceptor. What
  follows a use of the destroyed server is `status = "undefined"`.
* **Connector** - the connector and its client in rounds of poll, handlers and
  functors, with the calls of another thread as separate writes of the client's
  flag, the connector's flag and the queue. The connection is the socket it
  holds. `connect()` is called a second time at any moment, and the client is
  destroyed on its loop at any moment; `rushed` records what such a step did not
  wait for: an attempt that is still under way (`"pending"`), the state
  `kConnected` of a connection that is gone (`"state"`), or a `stopInLoop` that is
  queued (`"stop"`). A functor bound to a raw `this` that runs after `~Connector`
  sets `broken`. The retry delay, 500 ms
  or more, is taken to outlast the round in which the delayed `resetChannel` is
  due (`Pollable`).
* **Logging** - threads that log against the clock, the zone and the level. A line
  is its length, its newline and its time. It uses **TimeZone**, the data of a
  zone and the conversions as operators over seconds since the epoch, and
  **Calendar**, the Julian day numbers of `Date`. What is looked at of these
  operators alone is given by constants of `Logging`: `Bits`, `FirstYear`,
  `LastYear`, `UtcSeconds`, `LocalSeconds`. The conversions of `Date` divide with
  `\div`, which rounds as C++ does from `FirstDay` on, in the year -4800.
* **AsyncLogging** - the front end and the logging thread; a buffer is the
  sequence of its lines. A line always fits into an empty buffer. The thread
  writes to a **LogFile**, operators from records to records like those of
  `Buffer`: the open file, the closed ones with their names, and the counters
  that decide when to roll. One step is one `append` call, with one reading of
  the clock; the clock ticks between steps. A rename that replaces a file moves
  its lines to `lost`.
* **Buffer** - the vector and the two indices; it implements **ByteQueue**, the
  sequence of bytes a user sees, extended by the integer last passed or
  returned. Integers are laid out as on a little-endian host and reversed by
  the functions of `Endian.h`; the abstract queue reads them most significant
  byte first. Widths 1 and 2 stand for 1, 2, 4 and 8.
* **EventLoopProofs**, **PollerProofs**, **TimerQueueProofs**,
  **TcpConnectionProofs**, **TcpServerProofs**, **ConnectorProofs**,
  **AsyncLoggingProofs** - each extends the module it is named after by an
  inductive invariant `IInv` and the theorems; `EventLoopProofs` has those of
  `EventLoopThread` too.
* **DataProofs** - the same for `Buffer` and for `Logging` with `TimeZone` and
  `Calendar`: the proofs that need induction over data share its lemmas. It
  extends both, so the specification of `Logging` has names of its own
  (`LogInit`, `LogNext`, `LogSpec`).

The `MC` modules give the constants their values. A definition introduced by
"Variant" is a plausible mistake in the code next to it; replacing the
definition that follows by it makes the named property fail.

## Runs

| Run | Instance | Shows |
|---|---|---|
| `event_loop` | 2 posters, 4 functors | no wakeup is lost (`NoLostWakeup`), a quit is seen (`QuitIsSeen`), functors keep their order (`QueueInOrder`), `EventLoop` implements `Executor`, queued functors run (`QueuedRuns`) and quit makes `loop()` return (`QuitReturns`) |
| `event_loop_thread_quit` | 1 functor | violation: see findings |
| `timer_queue` | 2 addresses, 3 timers, delay 1, intervals 0 and 1 | the sets agree and the timerfd is armed while they hold timers (`QueueConsistent`), no timer of a batch is deleted under it (`ExpiredLive`), cancelled timers do not come back (`CancelSticks`), and once no more timers are added every timer leaves the queue (`TimerLeaves`) |
| `timer_queue_earliest` | delays 1 and 3 | violation: see findings |
| `poller` | 3 channels, 2 of them on one descriptor, an event list of 1 that doubles | the kernel watches exactly what the channels ask (`WatchedAsAsked`), nothing points to a destroyed channel (`NoDangling`), `index_` is right (`IndexIsPlace`) |
| `poller_revents` | the same | violation: see findings |
| `tcp_connection` | 4 bytes in messages of 2, every call from the loop and from one user, 2 functors when a call queues another | no assert fails (so `handleClose` runs once) and no raw functor outlives the connection, unless a call was late; the stream in order with the FIN after the data, output watched exactly while it waits, shutdown completes, a closed connection is destroyed |
| `server` | up to 2 threads, 4 clients, 2 descriptors besides the acceptor's, accept failing | every descriptor has one owner and is closed once (`FdsOwned`), no assert fails but the one of a connection that is shutting down when the server is destroyed, and the others are closed and out of their poller when they are destroyed (`NoAssertFails`), round robin is even (`Balanced`), `start` on the base loop comes to listen, clients are served, closed connections are released |
| `connector` | 3 descriptors, delays that reach their limit in two steps, two calls of `connect` | no assert fails, every socket has one owner, one attempt at a time, connecting, reconnecting and stopping come to an end, also with the client's destructor |
| `async_logging` | buffers of 2 lines, 7 lines, at most 2 buffers a round; files roll after 2 lines and after 2 seconds, 3 seconds | the spare buffers return, lines are neither lost, repeated nor reordered in the buffers and across the files (`LinesInOrder`; the lines a second rename replaces are told apart), each is written, `stop` returns |
| `data` | a `Buffer` with bytes 0 and 1, prepend area 1, size 2, reads of 2 more bytes, at most 4 readable, integers of 1 and 2 bytes; or 1 thread that logs, 3 instants around the end of daylight saving time, 4 zones, one of them unreadable, lines of up to 2 pieces around the size of the buffer | the indices stay in order and `makeSpace` finds room (`IndexOrder`), the content, the integers and the searches are a byte queue's (`ImplementsByteQueue`); the time of a line is right (`StampRight`), lines stay within their buffer (`LineBounded`), and, of the operators alone: integers of 10 bits convert rightly (`ConvertRight`), the calendar of 1900 to 2500 and `toUtcTime` around 1970 (`CalendarRight`), a zone with three changes (`LocalTimeRight`) |
| `utc_timegm` | the instants of `data` | violation: see findings |

Bounds. The functor queue needs three functors at once to see a push before,
during and after the swap; the fourth follows a wakeup that was already read.
Three timers on two addresses give a reused address while another timer is in
the batch; with one delay, timers made at different ticks have different
expirations, and time spent in callbacks makes them overdue.
Three channels give a swap in `pollfds_` and a descriptor that is reused; an event list of one grows in the second round. Two messages of two bytes
give one that is written in part and one that waits behind it, past the
high-water mark. Four clients on two loops go round twice, and with
two descriptors the third has to wait for a release or meets `EMFILE`. Threads
that log share only the clock, the zone and the level, which move on their own,
so one thread meets what several would. Seven lines in buffers of two fill the
current, the next and further buffers while a round is being written, so that
overlong rounds are cut, and give two rolls in one second, a roll in a later one
and one at the end of a day. The two channels on one descriptor are interchangeable,
which is the only symmetry used. `server` and `data` do not check deadlock: a
process may have aborted, and a server without clients has nothing to do. In
`data` the buffer moves while nothing was logged and the log while the buffer is
new; the two share nothing. The type
invariants are conjuncts of `QueueConsistent`, `IndexIsPlace`, `OutputWatched`,
`FdsOwned`, `SocketsOwned`, `SparesReturn` and `StampRight`.

What the properties except. `NoAssertFails` and `OneAttempt` of `Connector` speak of
clients whose second `connect()` comes when nothing of the first is left and
which are not destroyed in the round they connected in, the former also of ones
that are not destroyed before a queued `stopInLoop` has run;
`NoAssertFails` of `TcpConnection` of calls that were not overtaken by a close.
These exceptions are computed from the state in which the step was taken, and
each is needed, as the observations below say. `NoAssertFails` of `TcpServer`
allows one assert to fail, `isNoneEvent`, and ties it to a connection that was
shutting down when the server was destroyed. `TimerLeaves` has a premise, that
timers are some time made no more: `MaxCreated` makes it true in the run, and
without it the property is false of the code. `StartListens` is about `start()`
on the base loop. `ClientServed` has the abort of
the process among its outcomes, since that is what a failing accept leads to.

Fairness. Threads that are in a call finish it, callbacks return, and poll
returns while something is readable: weak fairness of the steps of a loop, of
calls once begun, and of poll with a readable eventfd. The 10 second timeout of
poll is given no fairness, so nothing rests on it. The logging thread's timed
wait ends (weak fairness of its steps, `WaitEnds` among them). In `Connector` an
attempt that can be decided and a timer that expires are reported by some poll
(strong fairness, since poll is not the only thing the loop does); whether the
server is ever reachable is a hypothesis of the properties. In `TcpServer` every
thread is scheduled and poll reports a client that waits; peers need never close.
In `TcpConnection` a user who holds a connection lets go of it some time.

## Findings

* `event_loop_thread_quit`: `loop()` begins with `quit_ = false`, after
  `threadFunc` has published the loop. A `quit()` in between, from
  `~EventLoopThread`, is overwritten and the join never returns.
* `timer_queue_earliest`: `insert` compares with `>` where the comment asks for
  the earliest expiration: an earlier timer does not reprogram the timerfd, a
  later one postpones it. Timers are late, and a stream of timers, each added
  before the timerfd is due, postpones all of them for ever. What holds is
  `QueueConsistent`, that the timerfd is armed while there are timers, and
  `TimerLeaves`, for a program that stops adding.
* `poller_revents`: `PollPoller::fillActiveChannels` never calls `set_revents`;
  with `NETWORKER_USE_POLL` no callback is called.
* `utc_timegm`: `TimeZone.h` says that `fromUtcTime` is `timegm(3)`; it takes a
  minute for 50 seconds, and no instant but those in the first minute of an hour
  comes back from its UTC time.

Further observations from the modelling, without a run of their own:

* `sockets::accept` calls `setNonBlockAndCloseOnExec` before it looks at the
  result. On failure that sets errno to `EBADF`, which is `LOG_FATAL`: a client
  that gave up (`ECONNABORTED`) or a lack of descriptors ends the process, and
  the `EMFILE` branch of `Acceptor::handleRead` is never reached.
* `TcpServer::start` is documented as thread safe (TcpServer.h:111); off the base
  loop its first call aborts in `EventLoopThreadPool::start`, the action
  `StartElsewhere`.
* `connectDestroyed` disables the events of a `kConnected` connection only. One that
  is shutting down when `~TcpServer` destroys it has its channel removed with
  events enabled: the asserts of `Channel::remove`, of the poller and of
  `~TcpConnection` fail.
* With `PollPoller`, an `Acceptor` destroyed before `listen()` fails the assert at
  PollPoller.cpp:125: its first `updateChannel`, from `disableAll`, leaves an
  entry that is not negative. Without asserts the entry is removed all the same.
* A loop that quits drops the functors queued since its last swap. In `~TcpServer`
  these can be `connectDestroyed`: connections are destroyed open and in their
  poller. A `removeConnectionInLoop` still queued on the base loop uses the
  destroyed server.
* Calls on a connection from other threads test and then set `state_`, a plain
  enum: `forceClose` can undo a close and close twice, functors bound to a raw
  `this` can outlive the connection, `startRead` registers a closed channel.
* A second `connect()` after a connection was lost without `enableRetry` finds
  `kConnected` and fails `startInLoop`'s assert, though with `NDEBUG` it
  connects; one before the retry timer of a stopped attempt fires makes two
  attempts, the second of which destroys the first one's channel in the poller.
  A client destroyed in the round in which it connected leaves a `resetChannel`
  bound to a destroyed connector, and one destroyed connected in the round of its
  `stop()`, or before the loop has run the `stop()` of another thread, a
  `stopInLoop`. `stop()` of a client with `enableRetry` can be
  undone by a `restart()` that is under way.
* `readTimeZoneFile` never fails: the
  zone of an unreadable file is `valid()` and its first use reads the front of an
  empty vector. A zone set within a second shows in the suffix of the time at
  once and in the time only with the next second.
* A line that fills its buffer loses pieces, and its newline when it has exactly
  3999 bytes. A fatal line is printed from a buffer without terminator, and
  lines that are still with `AsyncLogging` are lost in the abort.
  `SourceFile` takes the length of the directory for that of the file's name; the
  length is not used.
* Functors queued just before `quit()` and lines logged just before `stop()` are
  dropped; `addTimer` reads the timer after handing it over; `rollFile` renames
  before it tests `now > lastRoll_`, so a second roll within a second replaces
  the file rolled just before. `~EventLoopThread` reads `loop_` without the lock
  and relies on nobody else quitting the loop.

## Proofs

Each `*Proofs` module defines an inductive invariant `IInv` (`LogInv` for
`Logging`, `ThreadInv` for `EventLoopThread`) as a conjunction of
named parts, shows in one lemma per part that every step keeps it (one case per
action), concludes `Invariance: Spec => []IInv`, and derives the properties of
the runs from it. TLC checked each `IInv` on the instance of its run before it
was proved. The bounds of the runs (`MaxFunctors`, `MaxCreated`, `MaxSocket`...)
are constants, so the theorems hold for all of them.

| Module | Theorems about | Assumptions on the constants |
|---|---|---|
| `EventLoopProofs` | `TypeOK`, `NoLostWakeup`, `QuitIsSeen`, `QueueInOrder`, `ImplementsExecutor`; of `EventLoopThread` `Spec`, `AliveWhileUsed` | the loop thread is not a poster; the bound is a number; the owner of an `EventLoopThread` is a poster |
| `PollerProofs` | `WatchedAsAsked`, `NoDangling`, `IndexIsPlace` | finitely many channels, with descriptors in `Nat`; `None` is no channel and no entry; an event list of at least 1 |
| `TimerQueueProofs` | `QueueConsistent`, `ExpiredLive`, `CancelSticks` | finitely many addresses; delays and intervals are numbers and one is the largest; `Off` is not a number |
| `TcpConnectionProofs` | `NoAssertFails`, `StreamInOrder`, `OutputWatched` | messages are not empty; bounds and high-water mark are numbers |
| `TcpServerProofs` | `FdsOwned`, `NoAssertFails`, `Balanced` | the acceptor's two descriptors are 0 and 1; the errors of `accept` are those the code names |
| `ConnectorProofs` | `NoAssertFails`, `SocketsOwned`, `OneAttempt` | the first delay is at most the largest |
| `AsyncLoggingProofs` | `SparesReturn`, `LinesInOrder` | a buffer holds a line; a round is cut only beyond 2 buffers (25 in `threadFunc`); the period of a file is not 0 |
| `DataProofs`, of `Buffer` | `IndexOrder`, `ImplementsByteQueue` | an even number of byte values; data and patterns are bytes; widths are not 0 |
| `DataProofs`, of `Logging` | `StampRight`, `LineBounded`, `ConvertRight`, `CalendarRight`, `LocalTimeRight` | `LoggingAssumption`: the clock moves on, zone files are as tzfile(5) describes them, numbers have less than 32 characters, the instants looked at are after `FirstDay` |

The assumptions say what the code fixes by its types and constants, or what it
relies on. TLC evaluates all of them in the runs.

**EventLoop.** `NoLostWakeup` speaks of poll alone and is not inductive: a functor
pushed while the loop runs functors is safe because `callingPendingFunctors_` is
set, which causes a wakeup, which stays readable through the test of `quit_`.
`IInv` adds `ControlInv` (the flag is set from before the swap to the last
functor, the swapped vector is empty elsewhere, the loop thread is in a call only
in user code), `WakeInv` (from wherever poll can be reached without a swap, a
functor has a wakeup, delivered or still to be written, or was queued before the
loop ran) and `OrderInv` (the two vectors, element by element). The refinement of
`Executor` follows from `OrderInv`: a push appends to the abstract queue, the swap
leaves it unchanged and the return of a functor removes its head.

**EventLoopThread.** Each step of the thread and of its owner is a step of
`EventLoop` or leaves it alone (`ThreadRunsLoop`), so what is proved of the loop
holds of one that a thread runs. `AliveWhileUsed` says that the loop on the stack
of `threadFunc` exists while functors are queued on it and until the destructor
has stored `quit_`, and that no `threadFunc` is left when the destructor is done.
No run is about it; it is not inductive: `PlaceInv`
says where `threadFunc` can be for each place of the owner and that `loop_` is
set from its publication to the return of `loop()`, `QuitInv` that only the
destructor has set `quit_`, so that `loop()` returns only after it, and `UserInv`
that the calls of others lie between `startLoop` and the destructor. The comment
in the destructor fears that `threadFunc` still runs `callback_`: with one owner,
who destroys the thread after `startLoop` has returned, it does not. The other
fear is justified: the wakeup after the store of `quit_` may come to a loop that
is destroyed, which is why the property ends with the store.

**Poller.** `MapInv`: `channels_` holds live channels under their descriptors, and
live channels have different ones. `EPollInv` and `PollInv` say for each poller
what `index_` means; for `PollPoller` entries and registered channels must
correspond one to one, or the swap with the last entry in `removeChannel` could
overwrite another channel's place (`IsEntry` says what an entry looks like: one
that asks for nothing is negative, or as the first call made it).
`RoundInv`: the channels still to be handled are different, live and registered, so the assert of `EventLoop::removeChannel`
is all that `NoDangling` needs.

**TimerQueue.** Ownership: a timer that exists is in at most one of `timers_`, the
batch of `handleRead` and a queued `addTimerInLoop` (`QueueInv`, `ExpiredInv`,
`PendingInv`). Without the last, an address that is reused would let two queued
functors insert one timer. `CancelInv`: a cancelled timer is deleted, or is in
the batch and marked. `ArmedInv`: the timerfd is off only in `handleRead` or with
no timers, since an insert into an empty queue and `reset` program it.

**TcpConnection.** `StreamInv`: what was written and `outputBuffer_` are the bytes
sent, in order, until the connection breaks. `OutputInv`: `writing` exactly while
there is output, and none behind the FIN. `PhaseInv`: the connection is unborn,
starting, in use, closing, leaving or gone, with the references and functors of
that phase and no others; each step stays or goes one phase on. A step that
comes late leaves the phases, which is why they are under `~late`, and `late` is
never reset.

**TcpServer.** `LoopInv` (where the threads are, and that a round's functors are
held), `KnownInv` (what is not accepted is nowhere), `FdInv` (the open descriptors
are those of the live connections and the acceptor, each of one), `TodoInv` (a
functor is queued once, on the loop of its connection, `connectEstablished` before
`connectDestroyed`), `LifeInv` (while its loop has not exited, the state of a
connection, its place in `connections_` and in the poller and the functors that
wait for it determine each other), `ShareInv` (`getNextLoop` has gone round some
number of times and given the first `next_` loops one more). The two facts that
carry `NoAssertFails` are in `LifeInv`: a `connectEstablished` waits exactly while
the state is `kConnecting`, and a `connectDestroyed` exactly while a connection out
of `connections_` is still to be established or registered. `RefuseInv` says when
`isNoneEvent` has failed: exactly when a connection is shutting down and out of
its poller, which no step but `connectDestroyed` makes it.

**Connector.** `OneInv`: of a timer, a queued or a running start, a call of
another thread that is about to queue one, a channel and a connection there is at
most one. `ChannelInv` ties the channel to `state_` and to the queued
`resetChannel`, which is gone before anything starts anew; `SocketInv` gives each
open socket its owner. They hold unless `rushed = "pending"`, and pending
stays pending; `AssertInv` needs in addition that a start finds
`kDisconnected`, which a lost connection does not leave behind, and `StopInv` that
no `stopInLoop` is left when the connector is destroyed.

**AsyncLogging.** `RoundInv`: in a round a spare is given away only for a filed
buffer, so as many come back, also from a round that is cut to two buffers. `LogInv`: files are
named after seconds that are over, in their order. `OrderInv`: every line is in
exactly one of the files, the round, `buffers_` and `currentBuffer_`, or was
dropped or replaced, and the places ascend.

**Buffer.** `IInv` adds to `IndexOrder` that the vector is never shorter than the
prepend area, without which `retrieveAll` would set indices behind its end.
`RefinesByteQueue` says that every call does to the readable bytes what
`ByteQueue` does to its queue (append at the end, take from the front, drop from
the end, put in front, or nothing), that the searches find the same place and
that the integers are the same. For the last, `HostUnsigned` sums the bytes from
the least significant and `Unsigned` from the most: `BothSums` shows that what is
summed after k bytes of the one and left of the other is the same. `HostBytesValue`
is the converse, that the bytes laid out of an integer sum up to it modulo the
width, for all widths and signs.

**Logging.** `LogInv` is what `StampRight` and `LineBounded` need beyond their
statement. `CacheRight`: `t_lastSecond` is never ahead of the clock, and when it is
this second, `t_time` is the text of a zone set during this second; a tick
therefore makes every cache stale, and a cached text that is used is of the
right second. Lines stay below 4000 bytes since a string is appended only with
a byte to spare and a number, at most 31 characters, only into 32
(`StreamStep`); the newline is lost only when one byte is left.

**convert.** `Backwards` and `BackwardsHex` are functions on the integers that call
themselves with the quotient. `RecursionDown` shows that there is such a function,
since the quotient is smaller in size; `LastFirstWrites` that the digits of
any such function, turned round, have the value of the number and no leading
zero. `TenDivides` is the case of `convert`: the quotient and the remainder of C++
round to zero and `zero[lsd]` is the digit of a remainder of either sign.

**TimeZone.** `FindIs`: what `lower_bound` and the comparison after it find is the
last change that is not after the instant, when the changes are in order. In a
regular file they are in order both by instant and by local time, and
`PlacesMeet` compares the two orders: the local time of an instant falls in the
place of the instant, or in the next one when that begins with the hour that
comes twice, and never beyond. In the second case the offset found is an hour too
small, the instant tried is the other one of the two, and `fromLocalTime` sees it
by the flags and takes the hour off.

**Calendar.** A day is counted by its century, its year of the century and its day
in a year that begins in March (`Triple`). `CodeTriple` and `TripleCode` say that
the divisions of `getYearMonthDay` find exactly this triple, with a leap day where
`LeapYear` has one (`LeapIs`). So the next day is the next of the triple, which is
`DayAfter` (`NextDay`, `NextYear`), and `getJulianDayNumber` counts back to the day
(`NumberOf`). `UtcIs` adds the rounding of days before 1970 and, from `YearDay`,
that the day of the year is 0 on January 1 and grows by one from day to day.

Induction over data. The library's induction theorems have an operator as a
parameter, which the provers cannot instantiate. `DataProofs` goes without them:
a set of numbers that is not empty has a least one (`LeastNat`, from the
well-foundedness of `<`), hence induction for sets (`Induction`,
`StrongInduction`), hence functions defined by recursion exist (`Recursion`,
`RecursionNat`, `RecursionDown`). With the rules given as functions, nothing has an
operator for a parameter.

For the proofs, some operators are written without recursion: the files and
chunks of `LogFile` and `AsyncLogging` are compared line by line (`Written`,
`OnDisk`, `Ascending`) instead of being folded into one sequence, and the order
in which `~TcpServer` goes through its map, which is that of the connections'
names as strings, is left open (`Listed`).

Only model-checked are

* liveness, which rests on fairness: `QueuedRuns`, `QuitReturns`, `TimerLeaves`,
  `ShutdownCompletes`, `ClosedIsDestroyed`, `StartListens`, `ClientServed`,
  `ClosedIsReleased`, `ConnectSucceeds`, `StopStops`, `LineWritten`, `StopReturns`;
* the four findings, which are counterexamples.

## Not modelled

* `InetAddress`, `StringPiece`, `Types`, `Callbacks`, `Exception`, `ProcessInfo`,
  the text formats of `Date` and `Timestamp`: values and reads of `/proc`
  without state or order to get wrong.
* `Socket` and `SocketsOps` apart from `accept` and `close`: one system call per
  function, socket options, byte order of addresses. `socket`, `bind` and
  `listen` do not fail.
* `Thread`, `MutexLock`, `Condition`, `CountDownLatch` and `Atomic` are taken to be
  what pthread gives (`AsyncLogging` has the start, the latch and the join as
  steps, `EventLoopThread` and `TcpServer` the start and the join).
* Of the modelled parts: users of a `TcpServer` that keep a connection beyond its
  life there (`TcpConnection` has them), `~TcpClient` off its loop, `setOutput`
  and `setFlush`, a `setTimeZone` that races with `formatTime`, zone files whose
  indices exceed their types, the characters of a line, and in `LogFile` failing
  writes, a restart on existing files and what stdio has buffered but not
  flushed.

## Plan

All safety properties of the passing runs have theorems. Left is liveness,
which these provers do not reach.
