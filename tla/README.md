# A verification project for muduo_hhl

muduo_hhl is a C++ network library in the reactor style: event loops, one per
thread, that wait in `epoll_wait`, call the handlers of the descriptors that
are ready, and run functors that other threads hand to them; on top of them
timers, TCP connections, servers and clients; and beside them an asynchronous
logger. This directory holds TLA+ modules that model its concurrent core, TLC
configurations that check them on small instances, and TLAPS proofs.

Paths such as `net/EventLoop.cpp` are relative to the root of the repository.

## Inventory

| Component | State it keeps | Operations | Talks to |
|---|---|---|---|
| `EventLoop` | `looping_`, `quit_`, `callingPendingFunctors_`, `pendingFunctors_` under `mutex_`, an eventfd, active channels | `loop`, `quit`, `runInLoop`, `queneInLoop`, `wakeup`, `runAt/After/Every`, `cancel` | polls through `Epoller`, calls `Channel`s, owns a `TimerQueue` |
| `EventLoopThread` | `loop_`, a thread, a mutex and a condition | `startLoop`, destructor | constructs an `EventLoop` in its own thread |
| `EventLoopThreadPool` | the loops, `next_` | `start`, `getNextLoop` | used by `TcpServer` |
| `TimerQueue`, `Timer`, `TimerId` | two ordered sets of timers, `cancelingTimers_`, a timerfd | `addTimer`, `cancel`, `handleRead`, `reset` | requests of other threads arrive as functors |
| `Channel`, `Epoller` | events wanted and reported, index (`KNew`, `KAdded`, `KDeleted`), `addedToLoop_`; map from descriptor to channel | `update`, `remove`, `handleEvent`; `poll` | the kernel's epoll set |
| `TcpConnection` | `state_`, `reading_`, its channel and two `Buffer`s | `send`, `shutdown`, `forceClose`, `startRead`, `stopRead`, `connectEstablished`, `connectDestroyed`, handlers | closes by calling back its server or client |
| `TcpServer`, `Acceptor` | map of connections, next id; listening socket, spare descriptor | `start`, `newConnection`, `removeConnection` | two loops: base loop and I/O loop |
| `TcpClient`, `Connector` | the connection; `connect_`, `state_`, retry delay, channel | `connect`, `disconnect`, `stop`, retry with back-off | a timer for retries |
| `Buffer` | a vector, `readerIndex_`, `writerIndex_` | `append`, `retrieve*`, `prepend`, `unwrite`, `readFd` | used by every connection |
| `AsyncLogging`, `LogFile`, `FileUtil` | current and spare buffer, full buffers; a file, its size and period | `append`, `threadFunc`, `stop`; `append`, `rollFile` | front-end threads and one back-end thread |
| `ThreadPool` | a bounded queue of tasks, threads | `start`, `run`, `stop` | used by no other code |
| `thread`, `CountDownLatch`, `Condition`, `MutexLock` | started and joined flags, a count | `start`, `join`, `wait`, `countDown` | everything with a thread |
| sockets, addresses, time, process helpers | none worth a model | wrappers of system calls | |

What is hard here, and hard to test: a wakeup or a `quit` that falls between a
test and a `poll`; the life of a loop that lives on another thread's stack;
timers that callbacks add and cancel while the batch they belong to is running,
and `TimerId`s whose address was reused; the end of a connection, which crosses
two loops while the peer, the loop and user threads act on it. Each such place
is listed with its line in `PROJECT.json` under `hazards`.

What makes each component correct:

- `EventLoop`: a functor handed over runs once, in order, and soon; `quit` ends
  the loop.
- `EventLoopThread`: `startLoop` returns a live loop, the destructor leaves none
  behind and returns.
- `TimerQueue`: the sets agree, every `Timer` has one owner, a cancelled timer
  does not come back, the timerfd is armed while timers wait, for the earliest.
- `TcpConnection`: asserts hold, the user hears of the end once, output keeps
  going out, a shutdown waits for it, a closed connection is removed everywhere.
- `Connector`: one attempt at a time, retried until it succeeds or is stopped.
- `TcpClient`: destructed at any time, it is not called afterwards and leaves
  nothing behind.
- `TcpServer`, `Acceptor`, `EventLoopThreadPool`: a connection is held until it
  was destroyed in its loop, and removed once; connections are dealt out evenly;
  running out of descriptors does not stop the server from emptying the listen
  queue.
- `Buffer`: `readerIndex_ <= writerIndex_ <= size`, contents preserved when space
  is made, integers come out as they went in.
- `AsyncLogging`: what was appended is written once and in order unless it is
  dropped for overload, and buffers do not run out.

## The modules

### `TaskQueue` and `EventLoop`

`TaskQueue` is the promise of `runInLoop` and `queneInLoop`: a first-in
first-out queue where each functor runs at most once. `EventLoop` is the code:
the loop thread (`loopPc`) and other threads (`pc[t]`). A step is what a thread
does between two accesses to shared state, so pushing a functor (`QueneInLoop`)
and writing the eventfd (`Wakeup`) are two steps, as they are in
`queneInLoop`, whose lock is released before `wakeup()`. Channel callbacks
(`"io"`) and functor bodies (`"body"`) are user code, which may queue, run and
quit as often as it likes before it returns. `While`, `Poll`, `HandleRead`,
`DoPendingFunctors`, `CallFunctor` and `EndPendingFunctors` are the statements
of `loop()` and of `doPendingFunctors()`.

Abstractions: the eventfd counter is 0 or 1 (only whether it is zero matters:
a read returns all of it); at most one user channel is active per iteration,
before or after the eventfd's; a functor has an identity and is handed over
once. `loop()` may be called again after it returned. `early` records the
functors that the loop thread queued while it was not in `loop()`: the code
writes no eventfd for these, and the first `poll` may sleep over them until
another event or its timeout. `NoLostWakeup` states this exception.

### `EventLoopThread`

The owner (`ownerPc`) in `startLoop` and in the destructor, and the started
thread (`threadPc`) in `startFunc` and `threadFunc`, over an instance of
`EventLoop` whose only other thread is the owner. `pthread_create` may fail;
`pthread_cond_wait` may return for no reason; the loop may quit on its own.
A dereference of `loop_` after it became `NULL` is the state `"crashed"`; the
comment at `net/EventLoopThread.cpp:63` admits it, so it is no finding, but the
properties are stated with it in view.

### `TimerQueue`

Objects on the heap with their addresses (`heap`), the two sets, the batch of
`handleRead` and the timerfd. `HandleRead` is `handleRead` up to the callbacks,
`RunTimer` each callback, `Reset` the rest. In between, user code may add and
cancel. Addresses are reused as soon as a timer is deleted. Another thread's
`addTimer` allocates at once and inserts later (`AddTimerElsewhere`,
`RunQueuedAdd`). `EventLoop::cancel` called in another thread binds the address
of its own parameter (`net/EventLoop.cpp:106`), so `cancelInLoop` later reads a
dead object: `CancelInLoop` takes any `TimerId` of the right type, which
includes every one a correct caller could pass.

Time counts units of 100 microseconds, the shortest delay `resetTimerfd`
programs (`FiringTime`). Wall clock and monotonic clock advance together.

### `TcpConnection`

One connection from `newConnection` to `connectDestroyed`, its `Channel`, the
`Epoller`'s view of it and the server's map. The I/O loop is not the base loop,
the case with the most interleavings. Actions of the I/O loop are the handlers
in the order of `handleEventWithGuard` and the functors of its queue; user code
in the loop calls methods at once (`LoopCall`), the user thread in steps
(`UserCall` tests `state_`, `UserSetState` writes it, `UserQueue` queues the
functor), because that is how the code does it. There are two operations for the
three `send`s. `"send"` is that of a string and of a `Buffer`, which test
`state_` and queue `sendInLoop` when they are called in another thread.
`"sendBytes"` is `send(const void*, int)` (`net/TcpConnection.cpp:68`), which
tests nothing and calls `sendInLoop` in whatever thread it is called; outside the
loop it has a step for the tests, one for the append (`UserAppend`) and one for
`enableWriting` (`UserEnable`). These race with the loop's handlers, so their
outcome is a choice: the append is kept or undone, and `events_` gets the bit on
top of the value the loop left, or of an older one, or loses it. An assert that fails stops
everything and is recorded in `failed`, as is a functor bound to `this` that runs after the last
`TcpConnectionPtr` is gone.

Of the output only the number of bytes waiting is kept. The asserts of the
build are active (the Makefile does not define `NDEBUG`);
`assertInLoopThread` only logs and is left out. `SIGPIPE` is taken to be
ignored. `sockets::shutdownWrite` shuts down the *reading* side in this code,
and the model does as the code does.

`racy` becomes true when the user makes a call that the connection is not safe
against: anything but `"send"` from another thread, `startRead` and `stopRead`
anywhere. The header marks `shutdown` "NOT thread safe" and says nothing of the
others. The invariants about asserts, destruction and the callbacks are stated
for behaviours without such a call; see "Findings" for why.
`OutputWatched` and `ShutdownAfterOutput` except only `"sendBytes"` outside the
loop, which `unqueued` records: it appends before it watches, and a
`shutdownInLoop` or `handleWrite` may come between. With that one call allowed beside the safe ones,
`AssertsHold`, `DestroyedClean`, `DownOnce`, `OutputWatched` and
`ShutdownAfterOutput` are all violated.

### `Buffer`

The vector with its two indices; `Content` is what it is to its users, a
sequence of bytes with two ends. The operators with the names
of the methods (`makeSpace`, `ensureWritableBytes`, `append`, `readFd`,
`retrieve`, `unwrite`, `prepend`) map a Buffer to a Buffer, and the actions are
the calls. `std::copy` and `vector::resize` are modelled by what they do to the
bytes, stale bytes included, so that a byte copied from or to the wrong place
shows. Calls that fail the asserts on their arguments are no steps.

`BufferInts` adds the integers (`appendInt64` to `prependInt8`) and
`net/Endian.h`: an integer is its two's complement bytes in memory, least
significant first, and `hostToNetwork` turns them round. The four widths are one
operator with the width as a parameter, and `pow` has the powers of the base as a
recursive function, so that a proof can unfold it. `IntsTravel` says in every reachable state of a
buffer that each integer survives being appended or prepended and read.

### `Connector`

The connector of a client: `startInLoop`, `connect`, `connecting`, `retry`,
`stopInLoop` and the handlers are operators of their names, called by functors,
retry timers, events of the channel, and by `start`, `stop` and `restart`, which
another thread executes in two steps (it sets `connect_`, then queues). The
errors of `connect(2)` are three cases, by what the code does with them: in
progress, retried, given up. A retry timer is taken to fire no earlier than the
functors queued when it was set have run (its delay is 500 ms or more), but in
any order otherwise.

### `TcpClient`

A client composed with its `Connector`: the module instantiates `Connector`
(`C`), whose steps are its own steps, and adds the client's connection, the
pointers to it (the client's, the user's, those in functors) and the timer with
which the destructor holds the connector for a second. Each step that lets go
of a pointer says what the destructors find (`Destructed`). The functors of
connector and connection share one queue, as they share the loop's. The client
and its destructor are used in the loop thread, since the code says that
anything else is "not 100% safe". The one-second timer is taken to be longer
than the loop needs to run the functors that are queued. `TcpClientEnd` holds
what is recorded of the end of the program and what may be found there, for
`TcpClient` and for the proofs.

### `TcpServer`

The server with its `Acceptor` and `EventLoopThreadPool`: `start` (in the base
loop's thread and in another one, even both), the threads of the pool one at a
time, `listen`, `handleRead` with `newConnection` and the round robin, and the
way of a connection out: `handleClose` in its loop, `removeConnectionInLoop` in
the base loop, `connectDestroyed` in its loop again. Loops have queues of
functors that keep the connection alive; of the connection itself only its
`state_` is kept. `Shutdown` is `shutdown` and the first part of `forceClose`,
which leave it `kDisconnecting` with its channel still reading (`stopRead` is not
in this model). User code may call the public `removeConnection` at any time
after the connection is up; `connectDestroyed` then closes a connection that is
`kConnected`, and for one that is `kDisconnecting` the assert `isNoneEvent()` of
`Channel::remove` fails. Descriptors are a number that
can be opened. The branch of `handleRead` for `EMFILE` is four steps, because
other threads may open and close descriptors, and the client may leave, between
its system calls. Descriptors of connections are never given back: `~Socket` is
empty.

### `LogStream`, `LogFile` and `AsyncLogging`

`LogStream` is the promise, up to the call of `LogFile::append`: lines come out
in order and once; a line as long as
a buffer is lost; under overload lines that follow one another are dropped and
the stream has an entry that says so. `AsyncLogging` is the code: `append` in
any thread (one step, it holds the mutex), the owner in `start`, `stop` and
`join`, and the back end in `threadFunc`, with a step for the critical section,
for the drop, for each buffer written and for the rest of an iteration.
`Condition::waitForSeconds` passes its seconds as an absolute time and returns
at once, so that waiting is no state of the model. The destructor does what
`stop` does.

`LogFile` gives `append`, `rollFile` and `flush` as operators on the state of a
log: what the kernel has (`disk`), what stdio still buffers, the bytes of the
current file, the times of the last roll and flush. `fwrite` may keep any tail
of its entries that fits in its buffer. Day, sizes and intervals are constants.
`fopen` is taken to succeed. When it fails, `assert(fp_)` of `AppendFile`
(`src/FileUtil.cpp:21`) ends the program: for the safety properties that is a
behaviour which stops there, and `LineComesOut` assumes that it does not happen.

### Proof modules

A module `X_proofs` extends module `X` and holds theorems about it, for
`EventLoop`, `EventLoopThread`, `TimerQueue`, `TcpConnection`, `Connector`,
`TcpServer`, `Buffer` (with `BufferInts`) and `AsyncLogging`. What is proved about
`TcpClient` is in `Connector_proofs`, which instantiates it as `TC` and shares
the lemmas about the loop's queue. See "The proofs". A definition whose name
begins with `M` before the name of another is a deliberately broken variant of
it; putting it in place must violate the property that `PROJECT.json` pairs it
with.

## The runs

| Run | What it shows | Bounds |
|---|---|---|
| `event_loop` | no lost wakeup, no lost quit, FIFO and exactly once (refinement of `TaskQueue`), queued functors run, quit stops the loop | 2 threads, 3 functors |
| `event_loop_thread` | published loops live, `startLoop` returns one, destructor leaves none and returns if the loop had been entered | 2 functors |
| `event_loop_thread_join` | **violated**: `join()` waits for ever when `quit()` comes between publication and `loop()` | no functors needed |
| `timer_queue` | the sets agree, one owner per timer, cancelled stays out, deletion only when done, no stall without cancels | 2 addresses, 3 timers, 4 time units |
| `timer_queue_earliest` | **violated**: a new earliest timer does not rearm the timerfd | 2 addresses, 2 timers |
| `tcp_connection` | asserts, clean destruction, one down callback, output watched, shutdown after output, removal after the peer closes | output of 2, user code adds when fewer than 2 functors wait and fewer than 2 closes happened; every call in the loop, every one but `stopRead` in the other thread |
| `buffer` | indices in order, each call exact in what it adds or takes, growth only when full, integers survive | two byte values, integers of 1 and 2 bytes, strings of up to 3, vector up to 7, `kCheapPrepend` 2, extra buffer 2 |
| `connector` | one attempt at a time, sockets accounted for, next attempt coming, stop settles | 3 starts, user code calls when fewer than 3 functors wait, delays 2, 4, 5 |
| `tcp_client` | nothing calls what was destructed, a destructed client leaves nothing behind | one `connect`, delays 1 and 2, user code calls when fewer than 4 functors wait |
| `tcp_client_close` | **violated**: the peer closes, and the channel is destructed while added to the loop | the same |
| `tcp_server` | connections held until destroyed, removed once, dealt out evenly, no assert fails without `removeConnection` of user code; the spare descriptor comes back; the listen queue drains | up to 2 I/O loops, 2 threads that start, 4 clients, 3 descriptors, 1 descriptor of other threads, 1 `removeConnection` of user code |
| `async_logging` | order and once up to `LogFile::append` (refinement of `LogStream`), spare buffers, flush, every line comes out | 4 lines of length 1 or 3, buffers of 3, batches above 2 cut, clock to 3, day of 2, stdio keeps 1 entry, files of 3 bytes |

Why the bounds are enough. In the loop a lost wakeup needs two threads and one
functor, an overtaking needs two functors of which one is queued while a batch
runs; three allow a batch of two with one queued behind it. For timers the
interesting cases are two timers in a batch, one that cancels the other, and a
third that reuses the address of a deleted one; four units of time let a
repeating timer run twice. For a connection, an output of 2 has a partial and a
full write, and the second close is what the properties forbid; a `stopRead` of
the other thread is queued and then does what the loop's own does, and leaving it
out there keeps the run short. A vector of 7
with strings of 3 has every relation of readable, writable and prependable
space to the length, including prepended contents and a move by one byte. Two
starts make attempts overlap, a third comes on top of a pending timer, and the
delays double once and reach their maximum. Four clients go round two loops
twice, and with three descriptors the last one meets `EMFILE`. In the logger a
line of 1 and a line of 3 fill a buffer, fit in one, and are too long for one;
four lines make a batch of three buffers and more, which is cut (the code's 25
is 2 here); in three units of time a file is rolled by size, by the day and not
at all because the second is the same. Two byte values make integers of two
bytes that are negative and not symmetric. Addresses are
symmetric; functors and threads are too, but liveness is checked and symmetry
is not used there.

Fairness. The loop thread keeps running and user code returns (`LoopStep`); a
thread that pushed a functor goes on to write the eventfd; `poll` returns when
the eventfd is readable. These are what the scheduler and the kernel guarantee.
I/O events and the timeout of `poll` (`kPollTimeMs`, 5 s) are *not* assumed in the passing
runs, so liveness does not rest on them; `event_loop_thread_join` does assume
the timeout, so that its counterexample owes nothing to its absence. For the
connection: both loops run, and poll returns when a watched event is there. For the connector: functors,
timers and events are each handled in the end, and nothing is assumed of the
network; the same for the client, with the timer of its destructor. For the
server: every loop runs its functors, and the base loop accepts while the
listening socket is readable; `accept` is not assumed to succeed, but not to
fail for ever for other reasons than descriptors. For the logger: the back end
keeps running, and `pthread_join` returns when it has ended. A timer queue has no liveness property here: `NoStallWithoutCancel` says as a
safety property what would stall it.

Deadlock is checked for the loop; elsewhere the system may rightly stop (a
destroyed object, a failed assert, the bound on the clock), as the `.cfg`
files say.

## Findings

- `quit()` before `loop()` is overwritten by `quit_ = false`; the destructor of
  `EventLoopThread` can wait for ever (`net/EventLoop.cpp:121`).
- `TimerQueue::insert` reports a change of the earliest timer only for an empty
  queue, against the comments at its caller (`net/TimerQueue.cpp:206`). The same
  run explains a related stall: when the timer the timerfd is armed for is
  cancelled, the timerfd fires for nothing and `reset` does not arm it again.
- `TcpClient::removeConnection` queues no `connectDestroyed`, so that the assert
  `!addedToLoop_` of the channel's destructor fails when the peer closes a
  client's connection (`net/TcpClient.cpp:118`).

Three more failures of asserts are in the models without a run of their own.
Each is shown by making the named definition the only INVARIANT of a
configuration:

- `forceClose` from another thread may close twice (`net/TcpConnection.cpp:126`):
  `RemoveAssertHolds` with `UserOps = {"forceClose"}`, `LoopOps = {}` in
  `MCTcpConnection.cfg`.
- A channel without events is added back to the epoll set
  (`net/Epoller.cpp:107`) and may report HUP after the close: `CloseAssertHolds`
  with `LoopOps = {"stopRead"}`, `UserOps = {}`.
- `stop()` and then `start()` on a connector that is connecting fail the assert
  of `connecting` (`net/Connector.cpp:88`): the old channel is reset by a functor
  that is queued behind `startInLoop`: `ConnectingAssertHolds` with
  `MCConnector.cfg`. Two `start()`s do, too.

Known from the models, and stated as exceptions of their properties: `stop()`
right after `start()` of an `AsyncLogging` fails the assert at the head of
`threadFunc` (`RunningAtStart`); lines appended after the last swap are not
written; a roll loses what stdio still buffers of the old file; user code that
calls `removeConnection` while the peer closes fails `assert(n == 1)`, and after
`shutdown` the `isNoneEvent()` of `Channel::remove`; `send(const void*, int)`
outside the loop may put a closed channel back into the poller, and shut down
under its own output; a client
destructed when its connection has just come up leaves `resetChannel` queued
for a connector that is gone; user code that lets go of the last pointer to an
open connection, after its client was destructed, fails the assert of
`~TcpConnection`; another thread that opens a descriptor inside the `EMFILE`
branch takes the spare one for good.

Seen while reading, with nothing for a checker to explore: `Socket`'s destructor
does not close (`net/Socket.cpp:12`), against the comment at
`net/TcpConnection.cpp:296`; `sendInLoop` never lowers `remaining` by what it
wrote, so it appends bytes from behind the message (`net/TcpConnection.cpp:194`);
`bindOrDie` passes `sizeof(sizeof(...))` as the length of the address
(`net/SocketOps.cpp:105`); the `snprintf` of `TcpClient::newConnection` lacks an
argument (`net/TcpClient.cpp:93`); "drop log!" is written with a length of 20
(`src/AsyncLogging.cpp:112`); `AppendFile::append` computes `n - len` of
unsigned numbers (`src/FileUtil.cpp:28`); `ThreadPool::start` increments its
index twice (`net/ThreadPool.cpp:34`).

## The proofs

`EventLoop_proofs` proves, for any set of threads and of functors:

- `TypeCorrect`: `TypeOK`, which also ties `looping_` and
  `callingPendingFunctors_` to the place of the loop thread.
- `WakeupNotLost`: `NoLostWakeup`. It is not inductive: it speaks of `poll`
  only, and says nothing of how the loop gets there. `PendingHasWakeup` extends
  it to every place outside the stretch from the return of `poll` to the swap of
  the queue, where a waiting functor needs no wakeup because the swap is sure to
  come. The step that matters is `HandleRead`, which clears the eventfd: it
  happens only inside that stretch.
- `QuitNotSleptThrough`: `QuitWakesPoll`. When the loop moves to `poll` it has
  just read `quit_` as false; later only another thread can set it, and that
  thread then owes a wakeup.
- `ImplementsTaskQueue`: `FifoExactlyOnce`, the refinement, with
  `queue <- functors \o pendingFunctors_`. The swap is a stutter because it
  happens only when `functors` is empty, which `TypeOK` gives.

They rest on lemmas about sequences in the same module and on no assumption
about the constants.

`Buffer_proofs` proves, from `BufferAssumption` (0 is a byte, the strings are
strings of bytes, the sizes are natural numbers) and for any sizes:

- `IndicesInOrder`: `IndexOrder`, which is inductive as it stands. Its last
  conjunct, `kCheapPrepend <= size`, is what `retrieveAll` needs.
- `CallsAreExact`: `EachCallExact`. One lemma per method says what it does to the
  contents (`MakeSpaceKeeps`, `WrittenAdds`, `AppendAdds`, `ReadFdAdds`,
  `RetrieveTakes`, `UnwriteTakes`, `PrependAdds`); `MakeSpaceKeeps` also shows
  that the asserts of `makeSpace` and `ensureWritableBytes` hold.
- `GrowthIsNeeded`: `GrowsOnlyWhenFull`, an action property, from the same
  lemmas.
- `IntegersTravel`: `IntsTravel`, for a base of any size and integers of any
  widths, with `IntsAssumption` (the bytes are `0..(Base - 1)`). It needs no
  invariant beyond `IndexOrder`; the work is in the arithmetic. Division with a
  remainder is unique (`Division`) and two divisions are one (`DividedTwice`);
  the powers obey their recursion (`PowSteps`); numbers with the same `n` digits
  are the same modulo `pow[n]` (`SameDigits`) and so the same in two's complement
  (`TwosComplement`). So the `CHOOSE` of `HostInt` finds the number that
  `HostBytes` wrote (`HostBytesTravel`), and the methods put those bytes where
  they are read (`ValidIntsTravel`).

`EventLoopThread_proofs` proves, with no assumption and any set of functors,
`PublishedLoopIsAlive`, `StartLoopGivesALoop` and `NoLoopOutlivesItsOwner`. The
three properties are not inductive: each looks at one of the two threads. `Inv`
says what `loop_`, `alive` and `looping_` tell of the place of the started
thread (`ThreadOfLoop`) and how far that thread must be for the owner to be where
it is (`OwnerBehind`). The lemma `LoopSteps` gives what the steps of the
instantiated `EventLoop` do to `looping_`.

`TimerQueue_proofs` proves, from `BoundsAssumption` (delays, intervals and bounds
are natural numbers) and for any set of addresses:

- `Invariance`: the inductive `Inv`. Its parts: both sets and the batch file a
  timer under what its cell on the heap says (`Filed`); a cell that is in use is
  in exactly one of sets, batch and `adding` (`Owned`); sequences are unique and
  at most `s_numCreated_` (`SeqsUnique`); `cancelingTimers_` names the cancelled
  timers of the batch, and no other timer that exists was cancelled
  (`Cancelled`); what is no longer to run of the batch has run (`RanSoFar`).
- `SetsInStep`, `TimersOwnedOnce`, `CancelHolds` and the action property
  `OnlyTheDoneAreDeleted` follow. `CancelledStaysOut` alone does not survive
  `reset`, which puts timers of the batch back: that it skips the cancelled ones
  is `Cancelled`, and that a stale `TimerId` skips nobody is `SeqsUnique`.
- `NoStall`: with `Armed` on top of `Inv`. While nothing was cancelled, the
  batch of a `handleRead` is not empty, because some timer is due when the timerfd
  fires, and so `reset` arms it again. `Earliest` of a set that is not empty
  exists by the well-foundedness of the natural numbers (`EarliestIs`).

`Connector_proofs` proves, from `ConnectorAssumption` (the initial delay is
positive and at most the maximum), `NoSocketLost` and `NextAttemptComes` with the
type invariant, and `OneAttemptAtATime`. The last needs `OneInv`, which follows
the one start through its functor, its timer and its channel: the functor waits
only before the first attempt (`StartIsFirst`), `resetChannel` waits exactly
while the channel is removed and not reset (`ResetIsOne`), and then a timer that
was set meanwhile is still fresh, so it cannot fire before the reset
(`TimerIsOne`).

The same module proves `DestructedClientIsLeftAlone`: `NothingCallsTheDead` of
`TcpClient`, with no assumption. The property only looks at how the program
ended, so its inductive invariant `Life` is all of the argument: the connector,
started once and in the loop, fails no assert and has `resetChannel` queued
exactly while it has a removed channel (`ClientAttempt`); an open connection is
held by a client that is alive, or no longer names the client and is left to
`forceCloseInLoop` or to the user (`Pointers`); a dead client has cleared
`connect_` or was connected, `stopInLoop` comes while the connector connects,
and the connector is held as long as it has a channel or a functor bound to it
(`Destructing`). `DestructorsFind` turns `Life` after a step into what the
destructors at its end meet, and there is one lemma per group of actions. An
earlier form without the last conjunct of `Pointers` was not inductive: a
`connectDestroyed` that waits must belong to a connection.

`TcpConnection_proofs` proves, from `ConstantsAssumption` (the bounds are natural
numbers) and for any set of calls of user code in the loop and elsewhere:

- `OutputIsWatched` and the action property `ShutdownWaits`, racy calls included
  but for `send(const void*, int)` outside the loop. `Inv` says that until the
  connection goes down the channel is registered for writing exactly while output
  waits, and that nothing has asked for its removal.
- `NoAssertFails`, `GoesDownOnce`, `DestroyedCleanly`, for behaviours without a
  racy call: `send` of a string or a `Buffer` anywhere, and any `send`, `shutdown`
  and `forceClose` in the loop. `Life` describes the connection in each state:
  which functors wait, what map, loop and poller hold, and that a connection that
  went down is removed in one of two places, the queue of the base loop or that of
  the I/O loop (`Removing`).

`TcpServer_proofs` proves, from `TcpServerAssumption` (all bounds are natural
numbers) and for any number of I/O loops, starting threads, clients and
descriptors:

- `IdleFdComesBack`, by `IdleInv`: inside the `EMFILE` branch a descriptor is
  free, or held by the client just accepted, unless another thread stole it.
- `Invariance` and `OwnedUntilTheEnd`. `Inv` says that connections come only when
  the pool is complete (`Started`), that a functor waits in the loop that is to
  run it (`Placed`), and where each connection is on its way: being
  established, up, closed with either its removal or its destruction waiting,
  once, destroyed, or asked for by user code (`OnItsWay`). The count of the functors
  that hold a closed connection comes from it (`HeldOnce`), and so does that only
  a connection user code asked for can meet a failing assert (`FailedByUser`).
- `ConnectionsDealtEvenly`, by `Dealt`: the loops up to `next_` have one
  connection more than the others. `DealtEvenly` alone would let the next one go
  to a loop that is ahead.

`AsyncLogging_proofs` proves, from `AsyncLoggingAssumption` (buffers hold
something, a batch of two is not cut) and `LogFileAssumption`:

- `SparesNeverRunOut`: `Inv` says for every place of the back end which of
  `newBuffer1`, `newBuffer2` it holds and how long the batch then is
  (`SparesHeld`), and that the front end has used up its spare only with a full
  buffer behind it (`NextUsedUp`), so that the batch for which `newBuffer2` is
  given away has two.
- `FlushReachesDisk`: `LogInv` says that in the first file what was written is
  what is on disk followed by what stdio buffers (`Whole`), whatever part of an
  `fwrite` stays buffered; there is one lemma per method of `LogFile`.
- `LinesComeInOrder`: `StreamInOrder`, the refinement of `LogStream` up to the
  call of `LogFile::append`, where the stream's queue is every line that waits, of the batch and of the front end's
  buffers, flattened. `FlattenSeq` is a recursion over data; the module proves
  induction over the natural numbers for a set (`SetInduction`, from
  well-foundedness) and by it that the recursion exists and has its equations
  (`FlatExists`, `FlatSteps`), and that it distributes over `Append` and `\o`
  (`FlattenAppend`, `FlattenConcat`). `StreamInv` adds to `Inv` that
  nothing is written before the file is open and that a line which fits a buffer
  fits an empty one; `ToWrite` is what the back end has still to write. Then one
  lemma per kind of step: `append` puts a line behind all others (`AppendLinePuts`), the swap moves lines without
  reordering them (`SwapKeepsOrder`), the drop cuts lines that follow one another
  (`DropCuts`), a write emits the lines of one buffer (`WriteEmits`), recycling
  touches only spent buffers (`RecycleKeepsOrder`).

All these inductive invariants were model-checked on the bounds of the runs
before they were proved.

Every safety property that a passing run checks is proved. Model-checked only:
the liveness properties, since fairness is out of the prover's reach, and the
findings.

## Not modelled

See `components` in `PROJECT.json`. Out of place in a model: the wrappers of
system calls and conversions of addresses, time and process helpers, the
formatting of log lines (`Logging`), and `main.cpp`, a demonstration.
`ThreadPool` is used by nothing and its `start` is undefined behaviour from the
first thread on. Left out of modelled components: the bytes of a connection's
output, the destructors of `Acceptor` and `EventLoopThreadPool` (a server lives
as long as its loop), a client used outside its loop's thread, what the data race
of `send(const void*, int)` does to the memory of the output beyond keeping or
undoing an append, an `fopen` that fails, short writes of a log file, and a wall
clock that steps.

## Plan

1. Done: `TaskQueue`, `EventLoop` and its proofs, `EventLoopThread`,
   `TimerQueue`, `TcpConnection`, `Buffer` and its proofs, `BufferInts`,
   `Connector`, `TcpClient`, `TcpServer` with `Acceptor` and
   `EventLoopThreadPool`, `AsyncLogging` with `LogFile`.
2. Done: proofs of every safety property of the passing runs, the refinements of
   `TaskQueue` and `LogStream` included.
3. Left: a client used outside its loop's thread, short writes of a log file and
   a wall clock that steps, each of which is in "Not modelled" above.
