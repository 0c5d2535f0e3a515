# nutServer in TLA+

nutServer is a small C++ reactor in the style of muduo: an `EventLoop` per
thread around epoll, TCP connections and an HTTP/1.1 responder on top of it,
timers, a double-buffered asynchronous log, and the thread wrappers below them.
This directory holds TLA+ specifications of the parts with behaviour that is
hard to test, the TLC configurations that check them on small instances, and
TLAPS proofs, for every value of the constants, of all the safety properties the
passing runs check.

The code has no tests. Its asserts are active (no build file defines `NDEBUG`),
so a failed assert ends the process, and the models treat it that way.

Commands, in this directory:

    tlc -config EventLoop.cfg MCEventLoop.tla      # a run; PROJECT.json lists them all
    tlapm EventLoopProofs.tla                      # the proofs of a module

## 1. The system

| Part | Source | State it keeps | Operations |
| --- | --- | --- | --- |
| EventLoop | `net/EventLoop.*` | `looping_`, `quit_`, `runingPendingFunctors_`, `activeChannels_`, `pendingFunctors_` under a mutex, an eventfd | `loop`, `quit`, `runInLoop`, `queueInLoop`, `doPendingFunctors`, `wakeUp`, `handleRead` |
| Channel, Epoller | `net/Channel.*`, `net/Epoller.*` | per channel `events_`, `revents_`, `index_`; `ChannelMap_`, `epollEvents_`, the kernel's interest list | `enable*`/`disable*`, `updateChannel`, `removeChannel`, `poll`, `handler` |
| TcpServer, TcpConnection, Acceptor, Socket | `net/TcpServer.*`, `net/Socket.*` | `connections_`, per connection `state_`, its channel, its two buffers, its descriptor | accept/`newConnection`, `connectEstablished`, `handleRead/Write/Close/Error`, `send`, `shutdown`, `closeConnection`, `removeConnection`, `connectDestroyed` |
| HttpServer, HttpRequest/Response | `net/HttpServer.*`, `net/HttpData.*` | the parse state of the connection's request | `onMessage`, `onRequest`, `parseRequest`, `setResponse` |
| TimerQueue, Timer, Timestamp | `net/TimerQueue.*`, `net/Timer.*`, `base/Timestamp.*` | the ordered set of timers, the timerfd | `addTimer`, `handler`, `getExpired`, `reset`, `insert`, `restart` |
| EventLoopThreadPool, EventLoopThread | `net/EventLoopThread*` | `numThreads_`, `loops_`, `next_`, per thread `loop_` | `setThreadNum`, `start`, `startLoop`, `threadFunc`, `getNextLoop` |
| Thread, CountDownLatch, Condition, Mutex | `base/` | `started_`, `tid_`, the latch's count | `start`, `join`, `wait`, `countDown`, `notify` |
| AsyncLogging, Logfile, AppendFile, FixedBuffer | `base/` | `currentBuffer_`, `nextBuffer_`, `buffers_`, the logging thread's spares, the FILE | `append`, `threadFunc`, `start`, `stop`, `Logfile::append/flush` |
| Logger, LogStream | `base/Logging.*`, `base/LogStream.*` | one `AsyncLogging`, made once | `LOG <<`, `output` |
| Buffer | `net/Buffer.*` | a vector and two indices | `append`, `retrieve*`, `findCRLF`, `makeSpace`, `readFd`, `prepend`, `shrink` |
| Poller | `net/Poller.*` | `pollfds_`, `channels_` | the poll(2) variant of Epoller, not used by EventLoop |
| util, `test1.cc`, build files | | a cached thread id | |

How they interact. `test1.cc` makes one `EventLoop` and one `HttpServer` on it
and calls `loop()`. The loop's thread blocks in `epoll_wait`; channels it returns
call back into the Acceptor, TcpConnections, the TimerQueue or the loop's own
eventfd handler; then the functors other code has queued are run. Destruction of
a connection goes through such a functor, so that the object outlives the handler
it is closed in. Every `LOG` in any thread appends to the asynchronous log, whose
own thread writes the file. Other threads reach a loop only through
`queueInLoop`/`runInLoop` and `quit`; a thread pool with a loop per thread exists
but is never started.

What is hard about it, and where each part can go wrong:

* *EventLoop*: the order of push, eventfd write, eventfd read, swap and sleep.
  Correct: no functor waits without a wake-up, functors run once and in order,
  `quit` is noticed.
* *Channel/Epoller*: descriptors are reused at once, and `disableAll` is called
  two and three times over; the kernel may have no room for one more descriptor, which
  the code only logs. Correct: the map, the indices and the kernel agree.
* *TcpServer*: callbacks of one report run one after another on a connection the
  first may have closed, on tests of the report that do not exclude each other;
  resets and ends of file come at any moment; other
  threads hold connections. Correct: asserts hold, every connection has one owner
  until it is freed, nothing refers to a freed one, pending output is being
  waited for, what is gone is freed, and new clients are accepted.
* *AsyncLogging*: three pairs of buffers change hands between threads. Correct:
  nothing lost, doubled or reordered; the spares are ready; full buffers reach
  the file.
* *TimerQueue*: one timerfd for all timers, set from inside their callbacks, on
  another clock than the expirations. Correct: it is armed for the earliest, no
  timer is early, forgotten, leaked or deleted twice.
* *Thread start*: two handshakes with notifications that come early, late or for
  nothing. Correct: `start` returns, with loops that exist.
* *HttpRequest*: pieces of a request parsed from the start of a buffer that is never
  retrieved from, by a parse state that is never reset. Correct: a request is
  answered when, and only when, all of it is there.
* *Buffer*: one vector, two indices, and a second buffer on the stack behind it;
  growing and moving happen in the middle of a read or a send. Correct: the bytes
  come out as they went in, and the asserts hold at every boundary.
* *Poller*: positions in `pollfds_` kept in the channels, and swapped on removal.
  Correct: every channel finds its own entry.
* *LogStream*: numbers written in place, the most negative one included, in what room
  there is. Correct: the text is the number, whole or not at all.

PROJECT.json lists these hazards one by one, at their lines, with the properties
aimed at each.

## 2. Modules

| Module | Models | Used by |
| --- | --- | --- |
| `TaskQueue` | abstract: tasks in one line, each run once, in order | refinement target of `EventLoop` |
| `EventLoop` | `loop()` and the calls of other threads | `EventLoopProofs`, `MCEventLoop` |
| `Channel` | a channel, its registration, `updateChannel` and `removeChannel` on it, as operators | `Epoller`, `TcpServer` |
| `Epoller` | `ChannelMap_` and the kernel against several channels and reused descriptors | `Poller` |
| `Poller` | `pollfds_` and its map, given the same calls as `Epoller` | `EpollerProofs`, `MCEpoller` |
| `TcpServer` | connections from accept to free, in one loop, with peers and worker threads | `TcpServerProofs`, `MCTcpServer` |
| `Buffer` | the vector and its indices, as operators | `TcpConnection` |
| `ByteStream` | abstract: what came out is a growing prefix of what went in | refinement target of `TcpConnection`, twice |
| `TcpConnection` | the bytes of one connection, through both Buffers | `TcpConnectionProofs`, `MCTcpConnection` |
| `HttpRequest` | the parser and `HttpServer`'s answers, for a request in pieces | `HttpRequestProofs`, `MCHttpRequest` |
| `LogQueue` | abstract: the file is a growing prefix of what was appended | refinement target of `AsyncLogging` |
| `LogStream` | the `<<` operators and number conversions of a log line, as operators | `AsyncLoggingProofs`, `MCAsyncLogging` |
| `AsyncLogging` | the log's buffers, thread and file | `AsyncLoggingProofs`, `MCAsyncLogging` |
| `TimerQueue` | timers, the timerfd, two clocks | `TimerQueueProofs`, `MCTimerQueue` |
| `EventLoopThreadPool` | starting threads with loops, and the round robin | `EventLoopThreadPoolProofs`, `MCEventLoopThreadPool` |
| `EventLoopProofs`, `EpollerProofs`, `TcpServerProofs`, `TcpConnectionProofs`, `HttpRequestProofs`, `AsyncLoggingProofs`, `TimerQueueProofs`, `EventLoopThreadPoolProofs` | theorems | |

Composition: `Channel` holds what both `Epoller` and `TcpServer` need of a
channel. `Epoller` lets the owners of channels do anything the asserts of
`removeChannel` allow, provided they remove a channel before they destroy it;
`TcpServer` checks, with `FreedAfterRemoval`, that connections keep that promise.
`Poller` extends `Epoller` and makes each of its
steps on both. `TcpServer` has the life of many connections and one bit per buffer;
`TcpConnection` has the bytes of one that is connected and well. In the same way `TcpServer`, `TimerQueue` and `EventLoopThreadPool` take from
`EventLoop` that a queued functor is run (`EveryFunctorRuns`), instead of carrying
the eventfd along.

Names are the source's, spelling included (`runingPendingFunctors_`,
`Disconnetcing`). A definition called a *slip* in its comment is a mistake the code could
have held; it is in no next-state relation. PROJECT.json names, for each property
of each passing run, the slip that makes TLC find that property violated.

### State and steps against the code

*EventLoop.* `pc` is the place in `loop()`; `tempFunctors` is the local of
`doPendingFunctors`; `caller[t]` says whether thread `t` is between the push (or
the write of `quit_`) and its `wakeUp()`. Calls of the owner thread are one step,
since no other thread can see between its push and its write. `wakeup` is whether
the eventfd's counter is zero. `runingPendingFunctors_` starts as either Boolean:
no constructor sets it. The pollers' 10 s timeout is an action (`PollTimeout`).
A functor the owner queues outside `loop()` while the flag is down gets no
wake-up, and waits for the timeout if nothing else happens: a third case besides
the two that the comment at `EventLoop.cc:164-167` names. No code of the program does it.
The history variable `unannounced` keeps such functors apart, and the properties
about wake-ups are about all others.

*Channel, Epoller.* A channel is a record: `events`, a set of poll's flags (reading is
POLLIN and POLLPRI, as `readEvent_` has it; POLLRDHUP the code tests but never asks
for), `index` (-1, 1 or 2 as in the source), and `reg`, the kernel's registration.
`epoll_ctl` refuses an ADD for want of memory or watches (`room`, which comes and goes
with `RoomChanges`), a second ADD, and a MOD or DEL without one. The code logs all of
these alike and goes on; the model keeps the first apart (`refused`, until an ADD succeeds
or the channel is deleted) from any other (`ctlError`), since the first is the kernel's doing and
the others would be the code's. Asserts are tests that set `assertFailed`.

*Poller.* `pollfds_` is a sequence of records, and `idx[c]` the `index_` a Poller
would have given `c`, counted from 0 as in the source. The descriptor of an ignored
entry is -fd-1, exactly. A failed assert leaves its line in `failedAt`, and from then
on only Epoller goes on. That happens: Epoller sets `index_` back when a channel is
removed and Poller does not, so a removed channel that is used again meets the
assert at `Poller.cc:71`; no other assert can fail (`PollfdsIndexed`). And a channel
whose interest was once empty is never polled again, since nothing turns its -fd-1
back (`muted`); for all others the two pollers watch the same (`PollersAgree`), but
for what epoll had no room to register, which poll(2) needs no room for.

*Buffer, TcpConnection.* A Buffer is a record of its cells, their number and the two
indices, and every member function an operator on it; a pointer is the number of
a cell. `Shrink` leaves the indices alone, as the code does, so what it returns is
right only when `readerIndex_` is `kCheapPrepend`; it has no caller. In
`TcpConnection`, `received`, `taken`, `accepted` and `wire` are the histories of the
four ends of the two streams. `readv` may give any number of bytes up to the room in
the cells and in `extrabuf`; `write` may take any number up to the kernel's room. The
callback takes bytes by any of Buffer's functions, or none (HttpServer's takes none),
and sends and shutdowns may come inside it, as from an echoing server, or from a
functor. A send after our shutdown raises SIGPIPE (`fault`), which ends the process.

*TcpServer.* `phase` is the loop's place; `cur`, `rev` and `calls` are the channel
in `handler()`, the callbacks it has still to make, and the calls the message
callback has still to make, so that peers, the kernel and workers come in between.
A connection record holds `state_`, the channel, whether output is pending, and what the
kernel knows of the socket: what is unread (`rx`: nothing, data, or an urgent byte
alone, which POLLPRI announces and read skips), what the peer did, whether we shut down
our side. `Reports` is what epoll_wait may say of it, any combination of POLLIN, POLLPRI,
POLLOUT, POLLERR and POLLHUP that such a socket can show. `Channel::handler` tests
POLLHUP against POLLIN when it begins (`HandlerBegins`) and runs the read callback for
POLLIN or POLLPRI (`OnRead`), so one report may run both. A message callback may also
not return (`"spin"`, the parser's loop at `HttpData.cc:37`): nothing happens after that
(`Spinning`). The kernel may refuse to register a new connection (`Channel`'s `room`,
drawn in `NewConnection`); such a connection is listed, never read and never freed. That the
acceptor's own registration was accepted is assumed: without it there is no server. Of
another thread's `closeConnection` the test of `state_`, the assignment and the queueing
are three steps (`WorkerCalls`, `WorkerSetsState`, `WorkerQueues`). A write may take all, part or
none; after a reset the first write fails with the error and the next raises
SIGPIPE, which nothing handles: the process ends (`fault`). Ownership is computed:
a connection is freed when neither `connections_`, nor a functor that holds a
shared_ptr, nor a worker has it. Functors bound to `this` hold none. The order of
handlers within a round is any order.

*HttpRequest.* A request is a sequence of symbols, words and the one-byte characters the
parser looks for; a pointer into `inputBuffer_` is a position in it, since nothing is
retrieved. Each `case` of `parseReqLine` and of `parseRequest` is an action, and so is
each answer. The request line that is not complete makes `parseReqLine` search up to a null
pointer (`HttpData.cc:189`): either `std::find` gives the null pointer back, or the
process reads past the buffer (`fault`). An answer after `shutdown()` raises SIGPIPE, as in
`TcpServer`; a shutdown while an answer is still being written does nothing.

*LogStream.* A stream is what its FixedBuffer holds. `convert` is the loop of the
code with C's division, which rounds towards zero, and the table it indexes by a
remainder that may be negative; `zero` is the middle of that table. `append` compares the
room with the length cast to an int (`AsInt`), which for texts of 2^31 bytes and more is
not the length.

*AsyncLogging.* A buffer is its messages and its length in bytes. The critical
sections of `append` and of `threadFunc` are one step each; the condition variable
is the difference between `lpc = "wait"` and `"lock"`, with spurious wake-ups.
The FILE (`stdio`) passes any prefix on at any append and everything at a flush.

*TimerQueue.* `now()` and the `timerfd_settime` that follows it are one instant. Times
count from the present, in units of the 100 microseconds that
`howMuchTimeFromNow` clamps to; `Tick` moves every expiration and the timerfd,
`Jump` (somebody sets the clock) moves the expirations only. Adding timers is
allowed wherever the loop's thread runs user code: before `loop()`, in handlers,
in functors and in timer callbacks, as often as there are objects.

*EventLoopThreadPool.* `base` is the starting thread's place in `start`,
`startLoop`, `Thread::start` and the two waits; `child[t]` is the started
thread's. `setThreadNum` may be called any number of times before `start`, with 0 too,
`getNextLoop` before and after it, and `start` a second time, which fails the pool's
assert. `pthread_create` may fail.

## 3. Runs

"States" are distinct states.

| Run | Instance | States | Shows |
| --- | --- | --- | --- |
| `EventLoop` | 2 threads, 3 functors | 44,275 | `NoLostWakeup`, `QuitIsNoticed`, `EveryFunctorRuns`, `QuitStopsLoop`, implements `TaskQueue` |
| `Epoller` | 3 channels, 3 descriptors, each call to both pollers | 248,865 | `MapAgrees`, `AssertsHold`, `KernelAgrees`, `PollfdsIndexed`, `PollersAgree` |
| `TcpServerHttp` | 2 connections, 2 descriptors, what HttpServer's callback does, urgent bytes on one connection, `epollEvents_` of size 1 | 510,947 | `AssertsHold`, `OwnedOnce`, `NothingDangles`, `QuiescentConnections`, `FreedAfterRemoval`, `GoneConnectionIsFreed`, `BacklogIsServed` |
| `TcpServerThreads` | 1 connection, 1 worker, `closeConnection` used | 248,821 | `DestroyedAtMostOnce` |
| `TcpConnection` | 7 bytes in both directions together, messages of 1 and 3, buffers of 2 | 99,572 | `AssertsHold`, `FinComesLast`, `OutputDrains`, implements `ByteStream` in each direction |
| `HttpRequest` | 10 requests, in up to 3 pieces | 58,159 | `AnsweredAsReceived`, `EveryPieceIsAnswered` |
| `AsyncLogging` | buffers of 4, messages of 1 to 3, 5 messages | 43,455 | `NothingLost`, `SparesReady`, `NothingHeldBack`, `FullBuffersAreWritten`, implements `LogQueue` |
| `TimerQueue` | 2 timers, one clock step | 13,905 | `TimerfdArmed`, `FiledOnce`, `NotEarly`, `EveryTimerRuns` |
| `EventLoopThreadPool` | 0 to 3 threads, 3 tasks a loop | 1,788 | `AssertsHold`, `LoopsAreReady`, `DealtEvenly`, `StartReturns` |

`TcpServerHttp`, `HttpRequest` and `TimerQueue` also check `TypeOK`; all types are
proved (section 5). The other three runs find what a comment, the README or an assert
says to be violated (section 6).

Before the `AsyncLogging` run starts, TLC evaluates three named assumptions of
`MCAsyncLogging` that compare `LogStream`'s functions with a reference:
`ConvertIsDecimal` (the text of every integer, the ends of a 32-bit int included,
reads back as that integer, has no leading zero, and leaves room for its NUL),
`ConvertHexIsHexadecimal`, and `LinesFit`. `AsyncLoggingProofs` has the first two for
every number, and that every line leaves the stream's last byte.

### Bounds, and why they are enough

Every safety property of these runs is also proved without bounds; the bounds
matter to the liveness properties and to how soon a mistake shows.

* `Functors`, `Threads`: three functors can be at once running, swapped out and
  being queued; two callers can overlap each other and the loop.
* `Channels`, `Fds`: a descriptor can be closed and given to another object while
  two others are watched, and a pollfd removed from the front, the middle or the end of three.
  Channel objects are interchangeable
  (symmetry); descriptors are not, since Poller computes with them.
* `kCheapPrepend`, `kInitialSize`, `kExtra`, `SockRoom`, `MaxBytes`: a message of three
  bytes fills the two cells of a new Buffer and spills into `extrabuf`, or is cut
  by the kernel's room of two; seven bytes make a buffer grow, be read out, and be moved to the
  front when it is filled again. Two kinds of bytes would do to see an order; the
  four let a line end be found.
* `Conns`, `Fds` of `TcpServer`: two connections are enough for one to be reported
  in the round in which the other is destroyed and its descriptor and memory are
  used again; one of the two may get urgent bytes (`Urgent`), whose reports meet plain
  ones of the other; `InitEvents = 1` makes the array of ready events too small at once, as
  sixteen busy connections would. `MaxBacklog = 1` bounds clients waiting, not
  clients served; `MaxPending = 2` bounds what a worker queues ahead of the loop.
* `Streams`, `MaxPieces`: requests with and without headers, body and second space, with
  the close header last or not, with versions and methods known and unknown, each cut
  anywhere; three pieces let an answer go wrong, the parser resume, and the finished state be
  met once more.
* `Capacity`, `Sizes`, `Limit`, `MaxMessages`: a message fits with a byte to spare,
  exactly does not fit, or needs a buffer alone; five messages make up to four
  buffers, so that more than two go through `resize(2)`; `Limit = 2` is reached
  inside a round and between rounds.
* `Whens`, `Intervals`, `MaxLate`, `MaxJumps`: expirations past, now and ahead, and
  intervals shorter than a callback. Two timers are enough for one to be added,
  earlier or later, while the other waits or runs. Times more than `MaxLate` past
  are not told apart; the code only asks whether they are past and which is first.
* `NumThreads`, `MaxTasks`: one thread starts while two run, the round robin
  wraps more than once, and the pool may be empty.

Deadlock is checked everywhere but in `AsyncLogging`, where the program really
stops, when nothing more is logged, and when `stop()` waits for a logging thread
that waits for messages (a hazard PROJECT.json lists), and in `TcpConnection`, where it
ends with SIGPIPE.

## 4. Fairness

* `EventLoop`: the loop's thread is scheduled, `epoll_wait` returns when the
  eventfd is readable, and a thread that is about to write to it does. Nothing
  is assumed of other channels, and nothing of the 10 s timeout: it would hide a lost
  wake-up.
* `TcpServer`: the loop's thread is scheduled and `epoll_wait` returns when
  something is ready. Peers and workers owe nothing; the kernel may prefer the
  same ready sockets every time. Callbacks are not assumed to return, since
  HttpServer's need not (`HttpData.cc:37`): `GoneConnectionIsFreed` and `BacklogIsServed`
  state that premise themselves (`Up`: the process lives and no callback spins). The first also excepts a
  connection epoll had no room for, and the second asks that descriptors become free
  again and again, without which accept cannot succeed.
* `TcpConnection`: callbacks return, and `handleWrite` is called while the channel
  asks for POLLOUT and there is room. That the peer goes on reading is not assumed of the
  system: it is the premise of `OutputDrains`.
* `HttpRequest`: the thread in `onMessage` goes on. Clients owe nothing.
* `AsyncLogging`: the logging thread is scheduled. Nobody owes another message.
* `TimerQueue`: time passes, the loop's thread is scheduled and enters `loop()`.
* `EventLoopThreadPool`: every thread that exists is scheduled, the base thread while it
  is in `start()`. Nobody owes a call of the pool, nor the kernel a thread: `StartReturns`
  excepts a `pthread_create` that fails (`CreateFailed`), which the code tells no one.

Fairness is weak throughout: each of these steps stays possible until it is taken.

## 5. Proofs

Every safety property a passing run checks, and each refinement of an abstract
specification, is also a theorem, for every value of the constants. The pattern is the
same throughout: an inductive invariant, checked by TLC on the runs' instances first, one
lemma per action, then the properties from it.

`EventLoopProofs` (any `Threads`, any `Functors`):

* `TypeCorrect`: `Spec => []TypeOK`.
* `ShapeInvariant`: `LoopShape`, which says that the flag is up whenever functors run,
  that the local vector is empty outside `doPendingFunctors`, and that callbacks run only
  where `loop()` makes them. `NoLostWakeup` alone is not inductive: a functor queued from
  a functor gets its wake-up only because the flag is up, and one queued from a handler
  needs none only because the swap is still to come.
* `WakeupsAreNotLost`: `Spec => []NoLostWakeup` from the two above.
* `QuitIsNotSleptThrough`: `Spec => []QuitIsNoticed`.
* `ImplementsTaskQueue`: `Spec => TaskQueueSpec`, with the swapped vector followed by the
  pending one as the queue. A push is a `Post`, `RunFunctor` a `RunHead`, the owner's
  `runInLoop` a `RunNow`, every other step a stutter.

`EpollerProofs` (any `Channels`, any `Fds`):

* lemmas on the operators of `Channel`: whatever mask is asked for in whatever status, the
  `epoll_ctl` chosen is one the kernel accepts if it has room, one it had no room for
  leaves the channel `refused` and nothing else, and `removeChannel` leaves nothing
  registered (`TcpServerProofs` has its own copy of them);
* the invariant `EpollInv`: types, at most one live channel per descriptor (the kernel
  gives no descriptor out twice), `MapAgrees`, the asserts, and every live channel in step
  with the kernel. The asserts need `MapAgrees` to be preserved, and `MapAgrees` needs one
  channel per descriptor: a new channel may only enter an empty entry. From it
  `TypeCorrect`, `MapIsExact`, `AssertsAlwaysHold`, `KernelIsExact`;
* `StillAnEpoller`: with a `Poller` beside it Epoller takes no other steps, so all of this
  holds of the two together;
* the invariant `BothInv` of the two: while no assert of `Poller.cc` has failed the maps
  are equal, the channels in the map and the entries of `pollfds_` are one to one through
  `idx`, and an entry says what its channel asks for, with the descriptor made negative
  once the channel has been without interest (`muted`). Removal moves the last entry into
  the gap and gives its channel the gap's index, which is right only if they are one to
  one. From it `EveryPollfdIsIndexed` and `PollersWatchTheSame`.

`TcpServerProofs` (any connections, descriptors, backlog and sizes) has two invariants:

* `LoopInv` holds whatever callbacks are set and whatever worker threads do: types, listed
  connections exist and what is not listed reads nothing (`ObjectsOK`), what a round has
  still to handle and for whom a read callback is still to come (`HandlingOK`,
  `ReadingOK`), whatever is to be destroyed is there and is queued once (`QueuesOK`), a
  worker's pointer keeps its connection alive (`WorkersOK`). From it `TypeCorrect` and
  `NeverDestroyedTwice`.
* `HttpInv` is of the program as it is, where the loop alone uses the connections and the
  callback is `HttpServer`'s. That is the hypothesis `HttpOnly`: no workers, and
  callbacks that only call `send` and `shutdown`, in any number and order, or do not
  return, which is more than `HttpServer.cc:43-76` does; the run `TcpServerHttp` is an
  instance of it. It cannot be dropped: `TcpServerLateSend` and `closeConnection`
  (section 6) show the asserts to fail without. The invariant gives each connection one
  of three conditions, `Listed`, `Closing` or `Destroyed`, with
  the state, the index, the interest and the owner that go together (`StatesOK`), says
  that `ChannelMap_` is exact and descriptors are not shared (`MapOK`), that every functor
  is a `connectDestroyed` (`FunctorsOK`), and that only what is listed is reported
  (`ReportsOK`). None of the properties is inductive alone: no assert fails because of
  `StatesOK`, which needs one owner and an exact map. The one assert that can fail,
  `TcpServer.cc:272`, needs a read callback on a connection an earlier callback of the
  same report closed; `Torn` says of which report that is left: POLLHUP and POLLPRI without
  POLLIN, of a socket being reset whose urgent byte is unread. The failed assert stops the
  process with everything else as it was, so the rest of the invariant holds then too.
  From it `NoAssertFails`, `OneOwner`, `NoneDangles`, `QuietWhenAsleep` and
  `FreedOnlyAfterRemoval`. The last is what `Epoller` takes for granted of its channels'
  owners.

`TcpConnectionProofs` (any sizes and messages):

* lemmas on `Buffer` (any bytes, any `kCheapPrepend` and `kInitialSize`): what each
  operator does to `Contents`, the readable bytes, in a Buffer whose indices are in order:
  appending, in the cells or after growing or moving, puts the bytes at the end
  (`AppendBytesAppends`, `ReadFdAppends`); retrieving takes them from the front; and
  `EnsureWritableGivesRoom` gives the asserts. The copy within the vector is the heart of
  it: moving to the front reads every cell before it is overwritten;
* the invariant `ConnectionInv`: what was read is what was taken followed by the contents
  of `inputBuffer_`, what was accepted is what was written followed by the contents of
  `outputBuffer_`, the channel asks for POLLOUT exactly while the latter is not empty, and
  a socket is shut down only when it does not. `StreamsKeepOrder` and `FinComesLast` are
  not inductive without the buffers' contents;
* from it `TypeCorrect`, `AssertsNeverFail`, `FinIsLast` and `StreamsStayInOrder`, the
  last a refinement of `ByteStream` in each direction.

`HttpRequestProofs` (any `Streams` of the symbols, any cut): `HttpInv` is types, where the
parser may be (`ParserOK`), that what it has taken is in the stream (`Seen`), and that the
answers given are right and before the first the parser is where the first piece takes it
(`AnswersOK`). `AnsweredAsReceived` compares an answer with a grammar that looks at the
stream as a whole, so the invariant must relate each parse state to the grammar. The least
CRLF and its like exist by well-foundedness. From it `TypeCorrect` and
`AnswersFollowTheStream`.

`TimerQueueProofs` (any timers, times, intervals and clock jumps): `TimerInv` is types,
every live timer's pair in exactly one of the set and the handler's vector (`Filed`), what
is empty outside the handler (`PhasesOK`), `NotEarly` and `TimerfdArmed`. `getExpired`
gives up everything before the present, so `NotEarly` needs the pairs to carry the timers'
own times. From it `TypeCorrect`, `AlwaysArmed`, `NeverEarly` and `TimersFiledOnce`.

`EventLoopThreadPoolProofs` (any number of threads): `PoolInv` says how far a thread must
have come for what the base thread has already seen of it (`Done`), where the base thread
stands against the number of loops (`Position`), and how many tasks each loop has for the
round robin's position (`Dealt`). From it `TypeCorrect`, `AssertsNeverFail`,
`LoopsStayReady` and `DealtOutEvenly`.

`AsyncLoggingProofs` (any capacity, sizes, limit and number of messages; any stream and
line):

* the texts of numbers. `Lsds` and `LsdsHex` are recursive functions on infinitely many numbers, so
  first each is shown to have a value: on the numbers from -n to n there is exactly one
  function with their equation, by induction on n, and these agree where they overlap.
  Then `ConvertIsDecimal` and `ConvertHexIsHexadecimal`: the text stands for the number,
  digit by digit (`IsTextOf`), whatever its sign. `LongestTexts` bounds the text of a
  64-bit integer by 20 characters;
* `OperatorsAddWhole`: every `<<` adds its text whole or not at all and leaves a byte
  free, for which `kMaxNumericSize` (32) need only be above 20; so a line is shorter than
  the buffer it was made in (`LineLeavesAByte`), which is what `SizesFit` asks of the
  messages of `AsyncLogging`;
* `LogInv` is the types and `Spares`, which is that a round has at least two buffers to
  take its spares back from; from it `TypeCorrect` and `SparesAreReady`.
  `NothingStaysBack` is inductive as it is;
* `FlattenSeq`, of the community modules, is recursive too: what it does to one more
  sequence is proved the same way. With it `QueueInv`, which adds to `LogInv` that the
  spare `append` finds is empty and that file, FILE, batch, full buffers and current
  buffer together are what was logged. From it `NothingIsLost` and `ImplementsLogQueue`, a
  refinement of `LogQueue`.

Induction over data is by least elements: a set of numbers that contains 0 and each
successor has no least number outside it (`NatLessThanWellFounded`), for the library's own
induction theorems take an operator the provers cannot instantiate.

The assumptions on constants, all evaluated by TLC in the runs: `NoChannelIsNone`,
`FdsAreNumbers`, `BufferConstants`, `ConnectionConstants`, `Numbers`, `SizesFit`,
`ConstantsTyped`, `NoneIsNoConnection`, `TimesAreIntegers`, `NoneIsNoTimer` and
`StreamsAreSymbols`. `EnoughObjects` is for the liveness of `TcpServer` and no proof uses
it. The theorems about `LogStream` have `SizesAreNumbers` among their hypotheses, those
about `HttpInv` in `TcpServerProofs` have `HttpOnly`.

Only model-checked: all liveness (TLAPS does not do liveness under fairness or ENABLED),
and the three properties a run finds violated. No module declares a RECURSIVE operator.

## 6. Where the code and what it says of itself differ

* `TcpServerUrgent` / `RemovedOnce`. `Channel::handler` keeps POLLHUP from closing the
  connection only when POLLIN is set (`Channel.cc:42`), but reads on POLLPRI too (49). A
  reset that poll sees before the end of the stream, with an urgent byte unread, runs
  `closeCallback_`, `errorCallback_` and `readCallback_`; the last reads 0 and closes the
  connection once more, and the assert at `TcpServer.cc:272` fails.
* `TcpServerLateSend` / `FdFreeInMap`. A `send()` from another thread whose functor
  runs after `connectDestroyed` registers the removed channel again; the entry it
  leaves fails the assert at `Epoller.cc:69` when the descriptor is used again.
* `AsyncLoggingTail` / `MessagesAreWritten`. Messages in a buffer that never fills are
  never written, though `AsyncLogging.cc:24` says append wakes the logging thread
  and `README.md:11` that messages go to the log directly.

`TcpServerThreads` checks what remains true when workers do all of this, and
`closeConnection()` besides, which no run is about: it sets `Disconnetcing`, then queues a close
that asserts `Connected` (`TcpServer.cc:97`), so every call on an open connection aborts.
The program itself never calls it. And where `epoll_ctl` has no room for a new
connection (`Epoller.cc:114`), the log says so and nothing else does: the connection is
kept, unread, and its descriptor lost (`GoneConnectionIsFreed` excepts it).

`HttpRequest` also shows what no text of the repository denies: a request that comes
in two pieces is first answered 400 and shut down, and the rest of it then raises
SIGPIPE (`fault`); a request without headers is refused; and whatever follows a request that
was answered is answered 200 unread. `AnsweredAsReceived` is what holds in spite of it.

## 7. Not modelled, and why

* Text: the time at the head of a log line, HTTP responses, addresses; the URI and the headers other
  than Connection. No state depends on it.
* Destructors at the end of the program: `test1.cc` never ends the loop.
* `Buffer::swap`, which exchanges two records, and lengths near 2^64. Buffer's asserts
  on the arguments of `retrieve` and `prepend` are the caller's to keep.
* The poll timeout of `TcpServer`'s loop: it changes nothing there.
* `Thread::join` outside the log, `Thread::~Thread`; write errors in
  `AppendFile::append`.
* `snprintf` of doubles: `PutDouble` takes its text.
* `Timestamp::valid()` in `TimerQueue::reset`: false only of the default value.
* Connections spread over several loops: `newConnection` uses `loop_` whatever
  `getNextLoop` says, and nothing starts the pool.

## 8. Plan

What is left, most important first:

1. A run that finds `onRequest`'s inverted test (`HttpServer.cc:70-71`, whose comment
   says which way is right).
2. The pool against `TcpServer` (README.md:23 says io threads get the connections).
3. A `TcpServer` whose connections have a `TcpConnection`'s buffers: the two models
   meet only in the flag that output is pending.
