# The muduo reactor of muduoLearning, in TLA+

This directory specifies the concurrent core of the `jmuduo` library in this
repository (`src/jmuduo/muduo/net` and `src/jmuduo/muduo/base`): a
reactor in which each thread runs at most one `EventLoop`, and everything that
belongs to a loop (channels, timers, connections) is touched only in that
loop's thread. What is hard about such a library is not a single function but
the hand-over between threads, the order of the callbacks of one round, and the
lifetime of objects that several loops know. That is what the models keep;
bytes, addresses, logging and formatting are abstracted.

`src/muduo` holds an unannotated copy of the same library and `src/08`,
`src/09` stand-alone exercises; `src/build` is generated. They are not modelled.
The build is the debug build of the repository: `assert` is active, and a
failed assertion is modelled as the program stopping there.

## 1. Inventory

| Component | State | Operations | Interacts with | Hard part |
|---|---|---|---|---|
| `EventLoop` | `quit_`, `pendingFunctors_`, `callingPendingFunctors_`, eventfd, active channels | `loop`, `runInLoop`, `queueInLoop`, `quit`, `wakeup` | every other component runs inside one | wakeups from other threads against the swap of the functors |
| `EventLoopThread`, `EventLoopThreadPool` | `loop_`, mutex and condition, `next_` | `startLoop`, `threadFunc`, destructor; `start`, `getNextLoop` | owns an `EventLoop` on the stack of its thread | publication, quit and join |
| `TcpConnection` | `state_`, channel interests, output buffer, callbacks | `send`, `shutdown`, `connectEstablished/Destroyed`, `handleRead/Write/Close/Error` | its loop, `TcpServer` through `closeCallback_` | `state_` without a lock, partial writes, several events in one round |
| `TcpServer`, `Acceptor` | `connections_`, `started_`, `listenning_` | `start`, `newConnection`, `removeConnection(InLoop)`, destructor | base loop and I/O loops | removal passes through two threads; destruction at any time |
| `TimerQueue`, `Timer`, `TimerId` | `timers_`, `activeTimers_`, `cancelingTimers_`, timerfd | `addTimer`, `cancel`, `handleRead`, `reset` | loop functors, user callbacks | cancel from callbacks, reused addresses, two clocks |
| `Channel`, `PollPoller`, `EPollPoller` | `events_`, `index_`, `channels_`, `pollfds_` | `updateChannel`, `removeChannel`, `poll` | every owner of a descriptor | index bookkeeping on removal |
| `Connector`, `TcpClient` | `state_`, `connect_`, retry delay and timer, `channel_` | `start`, `stop`, `restart`, `retry`, `handleWrite/Error` | timers, queued `resetChannel` | a retry timer that outlives `stop` |
| `Buffer` | reader and writer index over a vector | `append`, `retrieve`, `prepend`, `makeSpace`, `readFd` | connections | boundaries of `kCheapPrepend` |
| `BlockingQueue`, `BoundedBlockingQueue`, `CountDownLatch`, `ThreadPool` | queue, mutex, conditions | `put`, `take`, `run`, `stop`, `wait` | user threads | which condition is notified, tasks left at `stop` |
| `AsyncLogging`, `LogFile` | current/next/full buffers | `append`, `threadFunc`, `stop` | front-end threads, back-end thread | buffer exchange, dropping when overloaded |
| HTTP, inspector, protobuf RPC | parser state, outstanding calls | `parseRequest`, `CallMethod`, `onRpcMessage` | connections | partial input, responses before registration |
| Base utilities | – | – | – | I/O and conversions, no shared state of their own |

`PROJECT.json` lists the files of each component and the hazards at their
lines. What makes the modelled components correct:

* `EventLoop`: no functor waits while the loop sleeps; functors run once and in
  order; `quit` ends the loop.
* `EventLoopThread`: the pointer handed out is to a loop that exists; start and
  destruction return.
* `TcpConnection`: bytes leave in order and exactly once; POLLOUT is watched
  exactly while there is something to write; FIN follows the data; the user sees
  up, messages, down.
* `TcpServer`: a connection is deleted, and not before its channel left the
  poller; the map knows every live connection; the destructor returns.
* `TimerQueue`: the two sets agree; each `Timer` has exactly one owner; no timer
  waits on a timerfd that is not armed for it; cancel means the right timer.
* `Connector`, `TcpClient`: one attempt at a time, no descriptor leaked or closed
  while it is polled; a stopped client stays stopped; one that wants a connection
  goes on trying.
* `Channel`, pollers: what the kernel watches is what the channels ask for; no
  deleted channel is handled; nobody who is ready is left out for ever.
* `ThreadPool`, `CountDownLatch`: no worker sleeps over a queued task; tasks run in
  order; `stop` and `wait` return.
* `AsyncLogging`, `LogFile`: each message is logged once, in order, or dropped
  with a notice; files roll; messages in a buffer that never fills are written.
* `Buffer`, HTTP: the buffer is a byte stream; requests are answered in order and
  as they deserve, however the bytes are split.
* RPC: a call is completed at most once and with its own answer.

## 2. Modules

| Module | Models | Run by |
|---|---|---|
| `Mailbox` | what a loop promises its callers: a FIFO of functors, each run once | refined by `EventLoop` |
| `EventLoop` | `EventLoop.cc`: the loop thread and its callers | through `EventLoopThread` |
| `EventLoopThread` | `EventLoopThread.cc`, composed with `EventLoop` (EXTENDS) | `eventloop` |
| `EventLoopProofs` | the theorems about `EventLoop`, alone and inside `EventLoopThread` | TLAPS |
| `TcpConnection`, `MCTcpConnection` | `TcpConnection.cc`, `Channel::handleEvent` | `tcpconnection`, `tcpconnection_half_closed` |
| `TcpConnectionProofs` | the theorems about `TcpConnection`, `Buffer` and `RpcCodec` | TLAPS |
| `TcpServer`, `MCTcpServer` | `TcpServer.cc`, `EventLoopThreadPool.cc`, the part of `Acceptor.cc` and `TcpConnection.cc` on the way of a connection, several loops | `tcpserver`, `tcpserver_start` |
| `TcpServerProofs` | the theorems about `TcpServer` | TLAPS |
| `TimerQueue` | `TimerQueue.cc`, `Timer.cc` | `timerqueue` |
| `TimerQueueProofs` | the theorems about `TimerQueue` | TLAPS |
| `Connector` | `Connector.cc` and the rounds of its loop | through `TcpClient` |
| `TcpClient` | `TcpClient.cc`, composed with `Connector` (EXTENDS) | `tcpclient` |
| `TcpClientProofs` | the theorems about `TcpClient` with its `Connector` | TLAPS |
| `Registry` | what a poller promises the loop | refined by `Poller` |
| `Poller` | `PollPoller.cc`, `EPollPoller.cc`, `Channel`'s registration, `EventLoop::removeChannel`, `~Acceptor` | `poller` |
| `PollerProofs` | the theorems about `Poller` | TLAPS |
| `Condition` | `Condition.h`: waiting and notification | through `ThreadPool` and `AsyncLogging` |
| `ThreadPool` | `ThreadPool.cc`, `CountDownLatch.cc` | `threadpool` |
| `ThreadPoolProofs` | the theorems about `ThreadPool` | TLAPS |
| `LogFile` | `LogFile.cc`, as operators | through `AsyncLogging` |
| `AsyncLogging` | `AsyncLogging.cc`, composed with `LogFile` and `Condition` | `asynclogging` |
| `AsyncLoggingProofs` | the theorems about `AsyncLogging` with its `LogFile` | TLAPS |
| `Buffer` | `Buffer.h`, `Buffer.cc`, as operators | through `HttpServer` |
| `HttpServer`, `MCHttpServer` | `http/HttpServer.cc`, `HttpContext.h`, on a `Buffer` | `http` |
| `RpcCodec` | `protorpc/RpcCodec.cc`, as operators | through `RpcChannel` |
| `RpcChannel` | `protorpc/RpcChannel.cc` at both ends, `RpcServer::onConnection` | `rpc` |

Common conventions:

* A thread is a program with a control point (`pc`, `tpc`, `opc`, `ipc`). A step
  ends where another thread can observe or disturb the code: at a mutex, at a
  read or write of an unlocked shared field, at a system call, and wherever the
  library calls the user back.
* In user code (a callback, or code outside the loop) any public operation may be
  called, with inputs from the constants.
* `EventLoop` shows that its queue of functors is a FIFO mailbox from which no
  functor is forgotten while the loop runs. The other modules use a sequence of
  functors in its place; `TcpServer` keeps batch and pending functors apart,
  because there a loop may quit between the two.
* `failed` names the assertion at which the program stopped, or the use of a
  destroyed object; no step follows.
* History variables (marked as such) record what happened and are never read by
  the model of the code.
* A definition named `X_...` and marked "defect" is `X` with a plausible slip.
  Nothing uses it but the check that the property named with it in
  `PROJECT.json` notices the slip.

### EventLoop

State and code correspond by name (`quit` is `quit_`, and so on); `functors` is
`doPendingFunctors`' local vector, `active` what is left of `activeChannels_`,
`wakeupFd` the counter of the eventfd, capped at `EventfdMax` because the real
counter is (the failing write is only logged). A call from another thread is two
steps, `QueueFrom`/`QuitFrom` and `Wakeup`, since the mutex is released before
the eventfd is written. `Poll` returns all ready channels; `PollNothing` is the
timeout or a signal. Channels other than the eventfd's are one "user" channel:
their callbacks can do the same things.

### EventLoopThread

`opc` is the owner in `startLoop` and the destructor, `ipc` the new thread in
`threadFunc`; in between run all actions of `EventLoop`. A condition variable is
`opc = "wait"` with a `notified` flag, and may wake up spuriously. Other threads
that got the pointer queue functors as long as the object exists; only the owner
and the loop's own callbacks quit the loop. Between `Publish`, which notifies
`startLoop`, and `EnterLoop`, where `loop()` sets `quit_` to false, the owner may
already destroy the thread.

### TcpConnection

A message is the sequence of its bytes, each byte a pair of message and index.
`write` takes any prefix, refuses (`EWOULDBLOCK`) or fails (`EPIPE`, other);
`poll` reports any combination of events the state of the socket allows, and
`todo` holds the callbacks `handleEventWithGuard` will make for it, in its order.
`send` and `shutdown` from another thread are split where `state_` is read and
written. `owner` is what the `TcpServer` does with the connection: it holds it,
queues `connectDestroyed` after `closeCallback_`, or is destroyed first. The
functors of `send` and `shutdown` carry a bare `this`; the model assumes that a
thread keeps its `TcpConnectionPtr` while they wait (the source marks the lines
with a FIXME). The input buffer belongs to the user and is not kept.

### TcpServer

A connection is the number `nextConnId_` gave it, which makes its name in the map.
`server` says where the base thread is: in its loop, in `start()`, or in the
destructor; while it is in `start()`, another thread may call `start()` too.
The thread of a pool's loop is `"entering"` from the return of `startLoop` until
`EnterLoop`, which sets `quit_` to false; then its loop alternates between the
events of a round (`phase = "events"`) and its batch of functors (`"run"`), and
leaves after a batch when told to quit, losing what is pending. `told` records that
the destructor called `quit()` and differs from `quit` when the call was lost
(`QuitLost`). Who holds a `TcpConnectionPtr` is computed (`Held`): the map,
the functors, the batches. A connection without holder is deleted. The
destructor runs in the base thread, loop by loop over `connections_` and thread
by thread over the pool, while the I/O loops go on.

### TimerQueue

A `Timer` is an address, which is used again after `delete`, with a sequence
number, which is not. `timers` and `active` are the two sets; `expired` is
`handleRead`'s vector and `todo` its part not run yet. Wall clock and timerfd are
different clocks: `SetClock` moves one, `Tick` both. A time unit is the 100
microseconds below which `howMuchTimeFromNow` does not go. `addTimer` from another
thread is split between `runInLoop` and the read of `timer->sequence()`; if the
timer was deleted in between, that read finds an arbitrary number, among them the
one of a new timer at the address. `ids` keeps with every `TimerId` the timer it was
returned for, and `asked` the timers whose own `TimerId` was cancelled, so that the
two can be told apart. The destructor of `TimerQueue` runs after the last callback
and is left out.

### Connector and TcpClient

`Connector` has the loop's round in it, since what can go wrong depends on it: the
channels of a round are handled in any order, functors queued in a round run after
it, and `removeChannel` asserts that no other channel of the round is removed.
`channel` is `channel_` with the time between `removeAndResetChannel` and
`resetChannel` as a state of its own (`"removed"`). `sockets` counts descriptors
that are open and not handed over. An attempt is decided by the kernel, or fails
at once, or meets an error the code only logs (`gaveUp`). The delays are left out:
a retry timer fires some time after it was set. `slow` records that the loop took
longer than that time to come to what it had queued before: the timer ran out before
`resetChannel` was run (`TimerDue`), or in the very round that set it, because
another timer made the timerfd active (`DueInRound`).

`TcpClient` adds `newConnection`, `removeConnection` and the destructor. Its user
calls in the loop thread, from the handler of another channel, or in another
thread, where `connect()`, `stop()` and the destructor are split at each unlocked
flag (`clientConnect`, then `connect`, then the queued functor). `removeConnection`
is split between its test and `restart()`, because `stop()` in another thread can
come in between. The timer by which the destructor keeps the connector for a second
(`hack`) is in the queue when `HackSet` holds: in the loop thread at once, from
another thread behind the functors queued before it. `SlowRound` is `DueInRound`
for either timer. Of a connection only its state, its close callback, its channel
and its holders are kept; `TcpConnection` models the rest.

### Registry and Poller

`Registry` says what the loop expects: a table of interests, and a `poll()` that
reports the ready channels, all of them up to a capacity. `Poller` is both
implementations in one module, chosen by `kind`: `pollfds` is the array with the
negated descriptors, `index` the position in it or the state of `EPollPoller`,
`epoll` the kernel's set. `channels` maps descriptors to channels; descriptors are
used again after a channel is deleted. The round is in the model, with
`activeChannels_` and `currentActiveChannel_`, since handlers update, remove and
delete channels while others of the round wait. The owners behave as the
library's do (see the module's head). `~Acceptor` of a server that was never
started, which disables and removes a channel no poller has seen, is an action of
its own (`DestroyAcceptor`). `ReEnabled` says with which poller a channel is enabled
again after it asked for nothing; the `PollPoller` cannot do it (known behaviour,
below), and no owner of the library does.

### Condition and ThreadPool

`Condition` is a function from threads to control points in which some are
`"waiting"`; `notify` wakes any one of them, and the modules that use it add
spurious wakeups. A critical section is one step. `ThreadPool` has the owner in
`start`, `stop` and `CountDownLatch::wait`, and any thread in `run`. A task does
nothing, counts the latch down, or hands another task to the pool.

### LogFile and AsyncLogging

A message has length 1 and is its number, so that order and loss can be seen;
a buffer is a sequence of messages and `None` a moved-from pointer. What the back
end does outside the mutex is one step per `output.append` (`Drop` for the notice,
`Write` for each buffer, with `written` as the index of the loop) and one for the
rest of the round, so that other threads append between any two writes. `LogFile`
keeps every closed file, with the second it was opened in as its name.

### Buffer, HttpServer

`Buffer` is its vector and two indices, with `readFd`'s second buffer. In
`HttpServer` a byte is CR, LF or the whole text of a line, which keeps the cases
that matter (a read that ends inside a line is one that ends before its CR, or
between CR and LF). `taken` is what the parser has retrieved so far. `parseRequest` makes one turn of its loop per step. The
reference definition `Answer` reads a request as a whole.

### RpcCodec and RpcChannel

A frame is length, tag, payload and checksum; four bytes that make an integer are
one, and a payload is one or two bytes. `CallMethod` is three steps: it takes an
id, sends, and registers the call, in this order, as the code does; the loop thread
can also make it inside the closure of a response (`pc = "closure"`), before the
codec retrieves the frame. The client has no services and receives only responses.
Services answer in any order. A peer that does not speak the protocol can add bytes that are no frame, a wrong
checksum or a wrong tag; `"stuck"` is the loop of `onMessage` that then never ends.

## 3. Runs

One passing run for each component, with safety and liveness together (`EventLoop`
is run inside `EventLoopThread`), and two runs for the disagreements kept as
findings.

| Run | Constants | States | What it shows |
|---|---|---|---|
| `eventloop` | an `EventLoopThread`, its owner and 2 threads, 3 functors, eventfd saturates at 1 | 216 k | `NoLostWakeup`: the loop never enters `poll` on a functor a thread or a callback queued. `IsMailbox`: refinement of `Mailbox`. `QueuedFunctorRuns`, `QuitStopsLoop`: no poll timeout is needed. `StartReturns`: `startLoop` returns, and only a loop that exists. `QuitFindsLoop`: the destructor's `loop_` is not dangling unless a callback quit the loop. `RunningLoopIsJoined` |
| `tcpconnection` | one thread, messages of 2 and 1 bytes, mark at 2, one read | 219 k | `BytesInOrder`, `WritingIffBuffered`, `WarnedOncePerExcursion`, `FinAfterData`, `CallbackProtocol`, `AssertionsHold`; `ConnectionProgresses` (`BufferDrains`, `ShutdownSendsFin`, `PeerEndIsSeen`) |
| `tcpserver` | 0, 1 or 2 I/O threads, 3 connections | 287 k | `NoDanglingChannel`, `UpAndDown`, `MapAndPool` (`MapCoversLive`, `RoundRobin`), `AssertionsHold`; `ClosedIsDeleted`, `DestructorReturns` |
| `timerqueue` | 2 timers on 2 addresses, times 0 to 2, intervals 0 and 1, one cancel, one clock change | 253 k | `QueueConsistent` (`SetsAgree`, `OneOwner`), `TimerfdCovers` (`NoTimerForgotten`, `ArmedInTime`), `CancelledStaysOut`, `OnlyNamedTimersDie`, `DueTimerRuns` |
| `tcpclient` | 2 connections, 3 calls of the user | 1440 k | `AttemptsAccounted` (`OneAttempt`, `StoppedStaysStopped`), `AssertionsHold`; `StillTrying` |
| `poller` | 3 channels, 3 descriptors, 2 kinds of events, an event list that starts with 1 | 1234 k | `Consistent` (`TablesAgree`, `ActiveAreAlive`). `IsRegistry`: both pollers refine `Registry` |
| `threadpool` | 0 to 3 workers, 3 tasks, a latch of 2 | 244 k | `NoSleeperWhileQueued`, `TasksInOrder`; `CallsReturn` |
| `asynclogging` | buffers of 3, 4 or more dropped, 7 messages, files of 3 messages and periods of 2 s, 3 s | 273 k | `BuffersGoRound` (`EachMessageOnce`, `SparesReturn`), `FilesRoll`; `LogAdvances` |
| `http` | 3 requests of 5 kinds, a buffer of 2 + 6 bytes, a second one of 4 | 398 k | `Answers` (`AnswersInOrder`, `AnswersAll`) against the reference `Answer`; `BufferIsStream` |
| `rpc` | 2 threads, 2 calls, payloads of 1 and 2 bytes, an unknown method | 346 k | `ResponsesMatch`; `CallCompletes` |

Why these bounds reach the interesting cases:

* Three functors give one that runs, one in the batch and one pending at the same
  time; the owner and two threads may each be between `queueInLoop` and `wakeup`; an
  eventfd that saturates at 1 makes the failing write frequent.
* A message of two bytes can be split by `write`; together with the other one it
  passes the mark both exactly and by more than it. One thread is enough for the
  races of `TcpConnection`: each is between one caller and the loop thread.
* Three connections on two I/O loops put two on one loop and let `next_` wrap. A
  pool of no threads is the default of `setThreadNum`: connections then live in the
  base loop and their removal runs in place.
* Two timers and two addresses allow two timers in one batch, a timer created in
  the other's callback, and an address used again: a one-shot timer is deleted and
  the second one takes its place while an old `TimerId` is still known. One
  repeating timer expires more than once before the clock stops at 2.
* Three calls are connect, stop and connect again, or connect, disconnect and the
  destruction; the rounds are as slow as they like; two connections let a client come back after its first one closed.
* Three entries of `pollfds_` have a first, a middle and a last one, so that a
  removal moves an entry; an event list of 1 is too short for two ready
  descriptors and grows twice.
* Three workers are a woken, a sleeping and a passing one. Three tasks fill the
  latch of two and leave one to be spawned.
* A buffer of size 3 takes two messages, since `append` asks for more room than the
  message needs. Seven messages then make three full buffers and a current one,
  which is more than `MaxBuffers`, with two more messages afterwards. A file takes
  three messages, so that two buffers written in one second do not roll twice.
* The buffer of six bytes is shorter than two requests, so that it moves, grows,
  and takes bytes from the second buffer of `readFd`.
* Two calls whose frames have different lengths, cut anywhere, and answered in
  either order.

Deadlock checking is off where the system may stop: an owner that is done, a
program stopped by an assertion, a clock or a count of calls at its bound.

Bounds in guards: `MaxReads` (reads that return data), `MaxTimers`, `MaxTime`,
`MaxCancels`, `MaxJumps`, `MaxConns`, `MaxCalls`, `MaxTasks`, `MaxMsgs`, `MaxNow`,
`MaxRequests`, each message and each functor once, one pending `listen` at a time,
foreign bytes once; a channel object of `Poller` is used once, its descriptor again.

### Fairness

Only what the scheduler and the kernel give: a thread that can run does, and a
call that was begun is finished. `WF` on the steps of the loop thread includes
that user callbacks return. Nothing is assumed of the poll timeout (that would
hide a lost wakeup), of when users call, of clients, or of clock changes.
`TcpConnection` assumes in addition, for `BufferDrains` and what follows from it,
that a peer which keeps its end open goes on reading, so that `write` in the end
takes bytes (strong fairness of the event that reports POLLOUT), and that a
functor which stays queued is run although events keep coming (strong fairness
of `RunFunctor`: each round of `loop()` ends with `doPendingFunctors`).
`TimerQueue` assumes that time passes. `TcpClient` assumes that the kernel decides
an attempt (it has a timeout for it) and that timers expire, but not that an
attempt ever succeeds. `ThreadPool` assumes that tasks end, and `AsyncLogging` that
the timed wait of the back end ends, which is what its time limit is for.
`RpcChannel` assumes that a service answers each request it was given.

### Findings

| Run | The code | The repository says |
|---|---|---|
| `tcpconnection_half_closed` | `connectDestroyed` in `kDisconnecting` removes a channel that still reads and does not tell the user | `Channel.cc:61` assert, `TcpConnection.cc:248` |
| `tcpserver_start` | the first `start()` in another thread than the base loop's aborts in `EventLoopThreadPool::start` (`EventLoopThreadPool.cc:42`) | `TcpServer.h:64-65`: "It's harmless to call it multiple times.", "Thread safe." |

### Known behaviour

What the models contain and the passing properties except, or the modelling
brought up, without a run of its own. Each exception is named in the comment of the
property that makes it. Where an assertion or a comment of the source says otherwise,
it is given.

* `EventLoopThread`, and `TcpServer` with it: a `quit()` between the publication of
  `loop_` and the start of `loop()` is overwritten by `quit_ = false`
  (`EventLoop.cc:129`; the comment at line 164 says that `quit()` ends the thread),
  and the destructor that called it waits for ever. `RunningLoopIsJoined` is about
  loops that have begun, and `ClosedIsDeleted` and `DestructorReturns` except the lost
  call (`QuitLost`).
* `TcpConnection`: `shutdown()` from a thread that races with `handleClose`
  (`raced`; the header says it is not thread safe). A `send` queued behind bytes
  that drain after `shutdown()` meets the FIN and fails. The functors of both carry
  a bare `this` (`TcpConnection.cc:86`, `:214`).
* `TcpServer`: connections whose I/O loop exits with `connectDestroyed` still
  pending (`Served`); `removeConnectionInLoop` may run on a destroyed server
  (`TcpServer.cc:144`, marked unsafe there; `TcpServer.h:86` calls `removeConnection`
  thread safe).
* `TimerQueue`: `addTimer` in another thread reads `timer->sequence()` after the
  loop may have run and deleted the timer (`TimerQueue.cc:120`), although the header
  calls it thread safe (`TimerQueue.h:47`, `EventLoop.h:78`). The `TimerId` then holds
  any number; when it is the one of a new timer at the same address, cancelling it
  deletes that timer. `OnlyNamedTimersDie` excepts the timers whose name was given
  away like that (`NamedByMistake`) and shows that every other timer is safe. A
  `cancel` in the loop thread overtakes another thread's `addTimerInLoop`; a cancel
  of a timer of the same batch lets it run once more (`cancelled` counts a timer
  from the moment it was added; `CancelledStaysOut` speaks of later rounds).
* `TcpClient`, `Connector`: a second `connect()` while connected, or after `stop()`
  with a retry timer left, fails an assertion of `startInLoop` or `connecting`;
  `stop()` between `removeConnection`'s test and `restart()` is undone (`raced`);
  `disconnect()` does not end an attempt; errors such as `EACCES` end the attempts
  with a line in the log (`gaveUp`); `stop()` or the destructor in the handler of
  another channel fails `EventLoop.cc:261` when the attempt is decided in the same
  round, although `Connector.h:43` lets `stop()` be called anywhere; a retry timer
  that runs out before `resetChannel` is run, in a round that lasts longer than the
  delay, fails `assert(!channel_)` of `connecting` (`Connector.cc:133`); `~TcpClient`
  in the handler of another channel, in the round in which the attempt succeeded,
  deletes the connector before `resetChannel` is run and fails `assert(!channel_)` of
  `~Connector` (`Connector.cc:39`), and so does the timer that keeps the connector for
  a second when the loop is slower than that; `~TcpClient` in another thread can be
  overtaken by a callback, and with a connection nobody else holds it deletes a
  channel the poller still has. `AssertionsHold` lists all of these.
* `Poller`: the `PollPoller` negates `pfd.fd` of a channel without interests and
  never restores it, so that enabling the channel again has no effect
  (`PollPoller.cc:99`; `Poller.h:43`: "Changes the interested I/O events."). A first
  update with no events leaves an entry that is not negated, against which
  `removeChannel` asserts (`PollPoller.cc:117`): `~Acceptor` of a server that was never
  started does this (`Acceptor.cc:55`). With the `EPollPoller`, which is the default,
  it does no harm; there a second `disableAll` adds the descriptor again with no
  events.
* `ThreadPool`: tasks queued at `stop()` are dropped unless a worker takes one
  more; a second `stop()` would join the threads twice.
* `AsyncLogging`: messages appended after the last exchange are lost at `stop()`;
  its `notify` may be lost too, which costs `flushInterval_` seconds.
* HTTP: `onMessage` answers one request, so that a second one in the same read
  waits for more bytes (`pipelined`); bodies are not read; a line without a colon
  ends the headers; a line refused for its version stays in the buffer with its method
  already set, so that any further bytes have it parsed again and fail the assertion
  of `setMethod` (`HttpRequest.h:55`); `HttpRequest::swap` forgets `version_`, which the
  next request line overwrites.
* RPC: `CallMethod` sends before it registers the call, so that the response to a
  call of another thread than the loop's may come first and is then lost
  (`overtaken`); `send` does not check `kMaxMessageLen`, so that a larger frame is
  refused by the other end (the constants of the run, and the hypothesis of
  `FrameIsFoundAgain`, keep to it); a bad frame stays in the buffer and `onMessage` never returns;
  calls that are outstanding when the connection goes down are not completed, and
  neither are calls of unknown methods; a service that answers later than that
  uses a deleted channel.

## 4. Proofs

TLAPS checks the following for every value of the constants.

| Module | Theorem | Statement |
|---|---|---|
| `EventLoopProofs` | `TypeCorrect` | `Spec => []TypeOK` |
| | `WakeupNeverLost` | `Spec => []NoLostWakeup` |
| | `ImplementsMailbox` | `Spec => IsMailbox` |
| | `DestructorFindsLoop` | `SpecThread => []QuitFindsLoop` |
| | `StartLoopReturnsALoop` | `SpecThread => []StartedExists` |
| | `LoopOfThreadWakesUp` | `SpecThread => []NoLostWakeup` |
| | `LoopOfThreadIsMailbox` | `SpecThread => IsMailbox` |
| `TimerQueueProofs` | `TypeCorrect` | `Spec => []TypeOK` |
| | `TimerNeverForgotten`, `TimerfdInTime`, together `TimerfdAlwaysCovers` | `Spec => []TimerfdCovers` |
| | `SetsAlwaysAgree`, `TimerHasOneOwner`, together `QueueAlwaysConsistent` | `Spec => []QueueConsistent` |
| | `CancelledNeverQueued` | `Spec => []CancelledStaysOut` |
| | `TimerDiesByName` | `Spec => OnlyNamedTimersDie` |
| `TcpConnectionProofs` | `NoByteLost` | `Spec => []BytesInOrder` |
| | `WritesWhileBuffered` | `Spec => []WritingIffBuffered` |
| | `WarnsOnce` | `Spec => []WarnedOncePerExcursion` |
| | `UserSeesProtocol` | `Spec => []CallbackProtocol` |
| | `NoAssertionFails` | `Spec => []AssertionsHold` |
| | `FinComesLast` | `Spec => FinAfterData` |
| | `BufferIsByteQueue` | what `append`, `readFd`, `retrieve` and `makeSpace` do to `Peek(b)`, for every `Buffer` |
| | `FrameIsFoundAgain` | what the codec finds in `Encode(payload) \o rest`, and in a part of `Encode(payload)` |
| `TcpServerProofs` | `ChannelNeverDangles` | `Spec => []NoDanglingChannel` |
| | `EveryConnectionUpAndDown` | `Spec => []UpAndDown` |
| | `MapAndPoolHold` | `Spec => []MapAndPool` |
| | `NoAssertionFails` | `Spec => []AssertionsHold` |
| `TcpClientProofs` | `AttemptsAreAccountedFor` | `Spec => []AttemptsAccounted` |
| | `NoAssertionFails` | `Spec => []AssertionsHold` |
| `PollerProofs` | `PollersAreConsistent` | `"poll" \notin ReEnabled /\ Spec => []Consistent` |
| | `ImplementsRegistry` | `"poll" \notin ReEnabled /\ Spec => IsRegistry` |
| `ThreadPoolProofs` | `NoTaskIsSleptOver` | `Spec => []NoSleeperWhileQueued` |
| | `TakenInOrder` | `Spec => []TasksInOrder` |
| `AsyncLoggingProofs` | `LogFilesRoll` | `Spec => []FilesRoll` |
| | `LogKeepsEveryMessage` | `Spec => []BuffersGoRound` |

Assumptions on the constants, which TLC evaluates in every run:

* `EventLoop`, `EventLoopThread`: `EventfdMax` is a positive natural number, and
  the owner is one of the threads.
* `TimerQueue`: addresses are non-zero natural numbers (0 stands for no address),
  intervals and bounds natural numbers.
* `TcpConnection`: every message has a natural number of bytes, the high water
  mark is positive.
* `TcpServer` (`LoopsAssumption`): each thread of the pool has a loop of its own,
  which is not the base loop; `EventLoopThread` creates it on the thread's stack.
* `TcpClient` (`BoundsAssumption`): the bounds on connections and calls are natural
  numbers.
* `Poller`: finitely many descriptors, an event list of at least one, and `None` is
  no channel. That no channel of a `PollPoller` is enabled again after `disableAll` is
  not an assumption of the module but a hypothesis of its two theorems; nothing in
  `PollPoller` restores a negated descriptor, so without it `Consistent` is false.
* `ThreadPool`: the numbers of threads and tasks are natural, the latch starts
  with a positive count.
* `AsyncLogging`: a buffer has room for a message, more than two buffers are needed
  before some are dropped, and `None`, the null pointer, is not an empty buffer.
  `LogFile`: sizes and intervals are natural numbers, the period is not zero.
* `Buffer`: `kCheapPrepend` and the size of `extrabuf` are natural numbers, the
  initial size a positive one. `RpcCodec`: `kMaxMessageLen` is a natural number.

The sets of threads, functors, messages, addresses and channels may be infinite.

**EventLoop.** `NoLostWakeup` speaks of the moment the loop is in `poll`. It is
not inductive: whether a functor is covered is decided earlier, when it is
queued. The inductive invariant `IInv` adds to the types

* `WakeupCovers`: whenever a functor is pending and the loop is at a control point
  from which it reaches `poll` without passing the swap of `doPendingFunctors`, the
  eventfd is readable, or some thread is between `queueInLoop` and its `wakeup`;
* `FlagTellsPhase`: `callingPendingFunctors_` is set exactly while functors run,
  which is what `queueInLoop` in the loop thread decides by;
* `VectorIsLocal`: the local vector is empty outside `doPendingFunctors`.

The refinement maps the mailbox to `functors \o pendingFunctors`, that is what is
left of the batch before what is pending, and the history `ran` to itself; the
swap is then a stuttering step because the batch is empty when it happens.

**TimerQueue.** Four layers, each proved from the ones before.

* Types. `timerfd >= -1` needs that `howMuchTimeFromNow` is positive.
* `Armed`, the conjunction of the two timerfd properties, is inductive as it
  stands: the proof needs that `Earliest` is the least expiration and that the
  delay is monotone in it.
* `Owned`: `SetsAgree` and `OneOwner` in pointwise form (`Agree`, `OwnersApart`),
  strengthened by `BatchIsReal` (the entries of the vector still carry their
  timers' expirations), `BatchIsLocal` (no vector outside `handleRead`) and
  `AddsDiffer` (no two functors add the same timer, without which the second one
  would leave its timer with two owners).
* `CancelInv`: `CancelledStaysOut` is decided in `reset`, so the invariant must say
  that `cancelingTimers_` names exactly the timers of the batch that were cancelled
  (`CancelNoted`), which needs that sequence numbers are not shared or reused
  (`SequencesDiffer`, `SequencesOld`), that `callingExpiredTimers_` is set exactly
  during `handleRead` (`FlagTellsPhase`), and that a timer not yet added is not
  counted as cancelled (`WaitingNotCancelled`).

The action property `OnlyNamedTimersDie` follows from the last two and `Names`: a
timer that is cancelled, or about to be, was named by a `TimerId` that was returned for
it (`asked`) or by one that was not (`NamedByMistake`).

**EventLoopThread.** `Published` ties `loop_` to the control point of the new
thread; `Unquit` says that before the destructor's `quit()` only the loop's own
thread can have ended `loop()`. The steps of `EventLoop` matter only through what
they do to `quit_` and `pc` (`LoopStepStays`, `CallStays`).

The properties of the loop itself hold in the composition too, although its owner
does what `EventLoop` alone does not: it queues functors before `loop()` begins,
calls `quit()` from its destructor, and its thread leaves `loop()` and takes the
loop off its stack. `LoopOfThread` carries the loop's own `IInv` until the thread
function has returned, and after that says that the loop is quiet. Every step of
the composition is then a step of `EventLoop` or leaves it alone
(`ThreadTakesLoopSteps`), with one exception, the `wakeup()` of a thread that was
late and finds the loop gone, which changes nothing a mailbox knows of.

**TcpConnection.** `IInv` is the type invariant, the three properties of the
buffer (`DataInv`), which are inductive together, and four parts for the control:
`FirstInv` (`connectEstablished` is the first functor and nobody has the
connection before it), `StateInv` (`state_` against what the user was told),
`TodoInv` (an event is handled to its end and comes to `handleClose` at most once,
which is where a second `down` would come from) and `OwnerInv` (while the server
exists, `connectDestroyed` is queued at most once, after the connection went
down). The functors are followed by position (`Shifted`): a step leaves them in
place or moves them up by one.

**TcpServer.** The properties speak of a connection that nobody holds any more; what
makes them true is where its functors are. `IInv` says of every connection

* `Life`: how `state_`, the interests, the poller and the two histories go
  together;
* `Fun`: which functors can be queued for it, where, how often and in which order:
  `connectEstablished` only in its own loop and only while it is `kConnecting`;
  `removeConnectionInLoop` only in the base loop, once, and with the connection
  still in the map as long as the server serves; `connectDestroyed` only in its own
  loop, once, after it left the map, and behind `connectEstablished` if that has not
  run;
* `Own`: until `connectDestroyed` has run, the map, a queued `connectDestroyed` or
  an exited loop accounts for it,

and of the rest `LoopInv` (batches, exits and quits of the loops), `StartInv`,
`FailInv` and `PoolInv`: the loops before `next_` have had exactly one connection
more than the others, from which `RoundRobin` follows. A queue is batch and pending
functors together (`Q`), so that the swap changes nothing; each functor is followed
by its index (`At`), and a step appends one (`PushFacts`), takes the first
(`TakeFacts`), or both, in different loops (`RunRemoveStep`).

**TcpClient.** The assertions of `Connector` hold because of what has happened
before: a `resetChannel` that has run, a timer that is alone. `IInv` says

* `AttemptInv`: `kConnecting`, the channel in the poller and the one open socket go
  together, the channel is `removed` exactly while one `resetChannel` is queued, and
  the poller reports only a channel of a running attempt;
* `TokenInv`, as long as `connect()` was called at most once: the thread inside
  `connect()`, a queued `startInLoop`, the retry timer and the attempt or connection
  exclude each other, so whoever starts an attempt finds `kDisconnected` and no
  channel;
* `UpInv`: while a connection is up the connector is `kConnected`, and no
  `resetChannel` is pending when that connection can close, since the round in which
  it was made ends with the functors; this is why `restart()` finds no channel;
* `ConnInv` and `GoneInv`: a connection that is up is `connection_`; after the
  destructor ran in the loop it is detached and nothing can begin an attempt;
* `StopInv`: from the call of `stop()` on, nothing sets `connect_` again but a
  `connect()` or the `restart()` that `stop()` found under way (`raced`);
* `HackInv`: when the timer by which `~TcpClient` in the loop keeps the connector runs
  out, nothing needs the connector any more (`Needed`: a channel not yet reset, a
  queued `startInLoop` or `stopInLoop`), unless the loop was `slow`; this is why the
  connector of a client destroyed without a connection is not deleted in use;
* `RoundInv`, `ClientInv`, `FailInv`: the rounds of the loop, who destroys the client,
  and which assertion can have failed.

The second half (`AttemptInv`, `UpInv`, `TokenInv`, `GoneInv`) is claimed while no
assertion has failed. What `startInLoop`, `stopInLoop` and a queued or finished
functor do is stated once (`Started`, `Stopped`, `Grew`, `Shrank`, `ResetComes`) and
used by every step that calls them.

**Poller.** `IInv` gives each entry of the tables in terms of the channel it belongs
to: `pollfds_[index + 1]` is the `Entry` of each registered channel and every entry
has one (`PollTable`), and the epoll set is a function of `channels_`, `index_` and
the interests (`EpollTable`). It needs `Lives` (two living channels never share a
descriptor, although descriptors are used again), `MapOfLiving` and `AskersKnown`.
That `removeChannel` moves the last entry is where `PollTable` is hard: the moved
entry may be negated, and its channel is found through the map. In
the refinement the registry's capacity is the length of the event list, or the
number of descriptors where `poll` has no such limit. `AskersKnown` and the tables
make the kernel's ready set the channels due; the rest is counting, since poll
reports as many of them as the list holds.

**ThreadPool.** `NoSleeperWhileQueued` counts; it is inductive with the types and
`UnbornBeyond` (`start()` creates the threads in order). The lemmas say what
`notify`, `notifyAll`, taking and finishing do to the number of woken workers.

**AsyncLogging and LogFile.** There are two layers.

* `Sound` holds the types and `SparesReturn`, and of the back end that
  `buffersToWrite` is used only between the exchange and the end of a round and that
  nothing was written of one that is too long (`WritesLocally`); of the log file
  `FileRolls`: its name is the time of the last `rollFile`, `count_` is at least the
  number of appends since the period ended, so that it bounds them, and once there
  was one the period has ended for good, since periods follow each other
  (`PeriodMonotone`). `append_unlocked` is proved once, for each of its ways
  (`AppendKeeps`), also that what it appends comes after all that was written before
  (`Extended`), whether it rolled or not.
* `Stream` is `EachMessageOnce` taken apart: the messages are in four places, the
  files, the rest of `buffersToWrite`, `buffers_` and `currentBuffer_`. Each is in
  order, each is older than the next, together they are what was appended and not
  dropped, and a notice is only in the files. A step moves messages from a place to
  the next; there is one lemma for each way to do so (`FlowGrows`, `FlowFills`,
  `FlowSwaps`, `FlowWrites`, `FlowDrops`), about values and not about states.
  `FlowDrops` needs the strict order: it is why what is dropped is nowhere else.

**Buffer.** `IsBuffer` adds to the indices' order that the reader is never below
`kCheapPrepend`, which makes the assertion of `makeSpace` hold. The readable bytes
are followed by index through `Copy` (`CopyIs`, `PeekIs`); `readFd` with bytes in
`extrabuf` is a write that fills the vector followed by an `append`. The theorem is
what `TcpConnection` and `RpcCodec` use when they take a buffer as the sequence of
its bytes, and it is the step by which `BufferIsStream` keeps its first half.

**RpcCodec.** `FrameIsFoundAgain` is about one frame and whatever follows. `HasFrame`
and `FrameRetrieved` only look at the length in front, so the proof is a comparison
of the bytes of `Encode` with those `Body` and `Payload` cut out. A payload has to
fit `kMaxMessageLen`, which `send` does not check.

Each inductive invariant was checked by TLC on the instance of its module's run
before it was proved.

Only model-checked, and why:

* all liveness properties (`QueuedFunctorRuns`, `QuitStopsLoop`, `StartReturns`,
  `RunningLoopIsJoined`, `ConnectionProgresses`, `ClosedIsDeleted`,
  `DestructorReturns`, `DueTimerRuns`, `StillTrying`, `CallsReturn`, `LogAdvances`,
  `CallCompletes`): the prover has no usable rule for fairness;
* `HttpServer` (`Answers`, `BufferIsStream`): the properties compare the responses
  with what a whole request is to be answered and the buffer with the concatenation
  of the requests, by operators that fold over sequences (`SelectSeq`,
  `FlattenSeq`); what those compute for every sequence needs induction over data,
  which the installed provers cannot do. That the buffer is a queue of bytes is
  proved (`BufferIsByteQueue`);
* `RpcChannel` (`ResponsesMatch`): that each frame is found again is proved
  (`FrameIsFoundAgain`); that a whole stream is a sequence of such frames, at any
  point of its way through wire and buffer, is a statement about all concatenations
  of frames and would need the same induction.

## 5. Plan

In this order; each item names the module, what it composes with, and what it is
for.

1. Done: the modules of section 2 and the proofs of section 4.
2. `ResponsesMatch` as a theorem, with the places where the frames of a stream
   begin as a history variable, so that no induction over the stream is needed.
3. Models: the reserve descriptor of `Acceptor`; the two blocking queues as
   monitors of their own.

## 6. Not modelled, and why

* `InetAddress`, `Socket`, `SocketsOps`: thin wrappers of system calls; their
  effect is in the models as the choices of the kernel.
* `BlockingQueue`, `BoundedBlockingQueue`: the monitor of `ThreadPool::take` without
  `running_`; nothing in the library uses them.
* The reserve descriptor of `Acceptor::handleRead`: descriptors are not counted.
* `Buffer::prepend`, `shrink`, `swap` and the integer accessors: only the RPC codec
  and examples use them; `RpcCodec` takes a buffer as a sequence of bytes.
* `Inspector`: a table of commands on the HTTP server. `add()` takes `mutex_`, the
  look-up of a command in `onRequest` does not, so that adding commands while the
  server runs is a data race.
* Logging front end, time zones, dates, file utilities: formatting and I/O on
  which no property of the reactor depends.
* The examples (`src/jmuduo/examples`) and tests: users of the library. What a
  user may do is in the models as the choice of calls in callbacks and threads.
* `src/muduo`, the unannotated copy of the same library, and `src/08`, `src/09`.
* Real time: only the order of timers and of clock readings is kept.
