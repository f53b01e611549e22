# A TLA+ verification of rawmd

rawmd is a rewriting of the muduo network library: a reactor (`net/`) over a
small base of threads, queues, logging and time (`base/`). This directory holds
TLA+ models of both, the TLC runs that check them on small instances, and TLAPS
proofs for every instance of the parts that matter most. Everything is
translated from the code under `src/`; `PROJECT.json` says which definition
stands for which lines.

## The system

| Part | State | Operations | What is hard | What makes it correct |
|---|---|---|---|---|
| EventLoop | flags, `pendingFunctors_`, eventfd, active channels | `loop`, `quit`, `runInLoop`, `queueInLoop`, `wakeup`, `updateChannel`, `removeChannel` | other threads act at any point of a round; callbacks change the channels being dispatched | no sleep on work or on `quit`; each functor once, in order; no removed channel is called |
| EventLoopThread | `loop_`, the thread | `startLoop`, `threadFunc`, destructor | the loop lives on another thread's stack | `startLoop` returns a live loop; the destructor returns |
| TimerQueue, Timer, TimerId | two ordered sets, canceling set, timerfd | `addTimer`, `cancel`, `handleRead`, `reset` | callbacks add and cancel timers inside a batch; addresses are reused; two clocks | no leak, no dangling pointer, no missed alarm, a cancelled timer stays out |
| Poller, PollPoller, EPollPoller | array / kernel list, map, `index_` | `updateChannel`, `removeChannel`, `poll` | three structures that must agree after swaps, ignoring, deleting and reuse of descriptors | a `poll` that does not fail reports ready channels that are interested, and some if there are any |
| TcpServer, Acceptor, TcpConnection, Channel, Socket | connection map, states, shared pointers, descriptors | `start`, `listen`, accept, `handleRead/Close/Error`, `connectDestroyed`, destructors | lifetimes across callbacks and threads; EMFILE | every connection up and down once, destroyed once after it left the poller; every descriptor has one owner |
| BlockingQueue, BoundedBlockingQueue, circular_buffer | queue / positions, waiters | `put`, `take` | one `notify` per operation, spurious wakeups | FIFO; nobody waits beside what it waits for |
| ThreadPool | `queue_`, `running_`, workers | `start`, `run`, `take`, `stop` | `stop` racing `take` | each task at most once; `stop` returns |
| MutexLock, Condition | pthread mutex, `holder_` | `lock`, `unlock`, `wait` | `holder_` is read without the lock and not kept by `wait` | no thread outside believes it holds the lock |
| CountDownLatch | `count_` | `wait`, `countDown` | one call notifies | nobody passes early, nobody stays |
| ThreadLocal | a pthread key, one object per thread | `value`, destructors, `fork` | objects are made on first use and deleted by the end of their thread | each thread has its own object, which goes with it |
| Thread, CurrentThread | thread-local ids, Thread members | `start`, `join`, `fork` | copies in forked children | every thread sees its own id |
| LogFile, AppendFile | current file, stdio buffer, times | `append`, `flush`, `rollFile`, crash | three conditions decide each roll; the clock may be set back | the files in name order are the log |
| LogStream, Logger | a fixed buffer, cached time text, global functions | `<<`, `formatTime`, `finish`, destructor | the buffer at its end; the per-second cache | right text, right time, nothing behind the buffer |
| Date, TimeZone | zone data | calendar and local-time conversions | centuries, instants before 1970, changes of offset | agreement with the calendar; round trips |
| ReadSmallFile | descriptor, buffer | `readToString`, `readToBuffer` | short reads, growing files | what the file had from the position on, without gaps |
| ProcessInfo | thread-local results of a scan | `openedFiles`, `threads`, `procname` | `/proc` changes during a scan; several threads scan at once | a scan that opened its directory returns what was there all the time, and nothing that never was |
| StringPiece | a pointer and a length | construction, cutting, comparison | NULs, prefixes, bytes above 127 | one total order, that of the texts |
| Echo servers and client (`net/preface`) | lists of connections, events | the three servers' loops, the client's | erasing while iterating, full descriptor tables and event buffers, clients that are killed | everyone is served or turned away, with the right answer |

The pieces meet as follows. A Channel belongs to one EventLoop, which keeps it
in a Poller; the Poller's report is dispatched through the Channel to an
Acceptor, a TcpConnection, the TimerQueue or the loop's own wakeup. Other
threads reach a loop only through `queueInLoop` and `quit`, that is through a
vector under a mutex and an eventfd. TcpConnections are held by shared pointers
in the server's map, in queued functors and in client code.

## Modules

* `EventLoop` models `loop()` with a position between any two steps another
  thread can see: the test of `quit_`, `poll()`, each channel, the swap of
  `pendingFunctors_`, each functor. Client code inside callbacks and other
  threads call every public operation. A critical section under `mutex_` is one
  step, because what it does touches nothing but what the mutex guards.
  `FunctorQueue` is what it promises: each functor runs once, in the order of
  queueing. `EventLoop` implements it with the concatenation of the swapped
  vector and `pendingFunctors_` as the abstract queue.
* `EventLoopThread` extends `EventLoop` with the owner's thread; its `Next` is
  the loop's steps while the EventLoop exists, and the steps of `startLoop`,
  `threadFunc` and the destructor.
* `TimerQueue` takes the functor queue as FIFO (`ops`), which `EventLoop` is
  shown to provide, and models heap addresses explicitly, so that reuse of an
  address by `new` and reads of deleted Timers are visible.
* `Poller` is the abstract specification; `PollPoller` and `EPollPoller` are
  shown to implement it. The client is a set of descriptors whose channels are
  created, enabled, disabled in any order and as often as it likes, and removed
  when they are interested in nothing, as the assertions of `Channel::remove`
  and `removeChannel` demand. A poll may fail.
* `TcpServer` puts the server, the acceptor, its connections and their channels
  into one loop with the kernel (backlog, sockets, descriptor table) around
  them. It has its own small loop, abstracted from `EventLoop` to the order of
  dispatch and the functor queue.
* `DefaultPoller` chooses one of the two in its initial state, as
  `newDefaultPoller` does, and is what TLC runs.
* `FifoQueue` is the abstract queue, which `BoundedBlockingQueue` implements with a
  circular buffer; `Queues` puts it and `BlockingQueue` into one run.
* `PoolWithLatch` composes `ThreadPool` and `CountDownLatch` the way
  `test/ThreadPool_test.cpp` does: tasks count down, other threads wait.
* `Process` composes `Thread` with what threads use: `MutexLock`, `ThreadLocal`,
  `ProcessInfo`, or `ReadSmallFile`, one of them in a behaviour. The threads that
  exist are those that lock, hold values and appear in `/proc/self/task`; the ids
  they compare are those `Thread` caches; the end of a thread, a fork and the end
  of a process act on both sides in one step.
* `Logging` extends `LogStream` (the buffer and the conversions, as operators on
  streams). `LogFile` is shown to implement `LogSink`, which is all a Logger
  knows of it: lines in the order they came in, of which a crash leaves a
  prefix, and of which only a write that fails may lose some before they are
  written. `LogOutput` puts both on one clock; a behaviour follows one of them.
* `EchoServers` has the two example servers over epoll, the one over `poll()` and
  copies of the client, with the kernel's half of each connection; each system
  call that another process can come before is a step. `MCEchoServers` gives
  the lines.
* `Conversions` steps through the inputs of the pure algorithms of `Date`,
  `TimeZone`, `LogStream` and `StringPiece` and compares each with an independent
  definition; `MCConversions` gives the sets a configuration cannot write.
* `LoopProofs` (`EventLoop` and the pollers), `TimeProofs` (`TimerQueue` and
  `Conversions`), `QueuesProofs`, `PoolProofs`, `TcpServerProofs`, `ProcessProofs`,
  `LogOutputProofs`, `EchoServersProofs`: theorems, each about the specification of
  the run of the same part.

In every module a definition marked "Mutant" is a plausible error in the
definition next to it. It is not part of the specification; it replaces that
definition once for each property, to see that the property notices.

## Runs

`PROJECT.json` lists each run with its properties. Several of these are
conjunctions of named parts that state one idea (`ListsSound`, `Bounded`,
`Lifecycle`, `CalendarRight`, ...); the parts are stated and commented in the modules.

| Run (module) | Question | Bounds and why they are enough |
|---|---|---|
| `event_loop` (EventLoopThread) | lost wakeups, lost quits, stale dispatch, order of functors, start and end of the thread | the owner and another thread; two functors, one running while the other arrives; two channels, so that one removes the other; an eventfd that is full at 1 |
| `timer_queue` (TimerQueue) | lists, ownership, alarms, progress | the loop and one other thread; two timers, one-shot and repeating, in two addresses that `new` may reuse; three ticks let a repeating timer come back; one setting of the wall clock |
| `pollers` (DefaultPoller) | agreement of the structures, refinement of `Poller` with the interest each poller heeds | three descriptors: removal at the front, in the middle and at the end of the array, of ignored entries and others; descriptor 0; an event list of capacity 1 that must grow |
| `tcp_server` (TcpServer) | lifetimes, descriptors, EMFILE, progress | two connections, so that one ends while the other is active; two descriptors with the spare one, so that the second client meets EMFILE; another thread that calls `start()`, takes a descriptor and drops pointers |
| `queues` (Queues) | lost notifications, FIFO, progress | three threads: a waiter, a waker and one that gets in between; three slots, so that positions wrap |
| `thread_pool` (PoolWithLatch) | notifications, stop, the latch | three workers and three tasks; a count of two, so that one call goes below zero; two waiters, so that waking one is not enough |
| `process` (Process) | identity, joining, `holder_`, thread-local values, scans of `/proc`, reads | two Thread objects and four ids, for trees of processes and threads (three ids where no mutex is used); three values, one per id; two descriptors; a file longer than the buffer, in reads of every length, and two calls on one object |
| `logging` (LogOutput) | room and ends of lines, the time cache, fatal messages; order, size, period and flush interval of the log file | two threads, two messages and one change of a global around a change of second; a buffer that every kind of piece meets at its end; four lines of two sizes across the end of a period, one setting back of the clock, one call in which a write fails, a crash |
| `echo_servers` (MCEchoServers) | lists, rounds, answers, progress | three clients and two descriptors, so that the third meets EMFILE; one event slot at first, so that it must grow while more is ready; lines up to the size of the buffer |
| `conversions` (MCConversions) | calendar, local time, numerals | every day from 1900 to 2509, which has all kinds of century; instants around up to two changes between two of four kinds of local time (two standard times, an hour and half an hour of saving) and files cut short anywhere; all integers and pointers of twelve bits; pairs of texts of up to three characters, NUL, the parentheses and a byte above 127 among them |

Deadlock is checked wherever the system has no end; the configurations that
say otherwise model something that ends (a pool that is stopped, an object that
is destroyed) or whose inputs are bounded (lines, pieces, calls).

Two runs must fail; each checks a sentence of the repository against what its
code does.

* `loop_thread_quit_lost` (`EventLoopThreadQuit.cfg`): `~EventLoopThread` calls
  `quit()` after `threadFunc` has published `loop_` and before it has entered
  `loop()`, which sets `quit_` to false. The quit is forgotten and `join()` never
  returns. `RunningLoopJoined`, a part of `LoopProgress` in `event_loop`, shows
  that the destructor does return when `loop()` has started.
* `timer_id_race` (`TimerQueueId.cfg`): `addTimer` on another thread reads
  `timer->sequence()` after the loop may have run and deleted the Timer.

## Observations and contracts of the callers

What the modelling met besides, and what the client actions of the models
therefore keep to. None of it has a run of its own.

* `queueInLoop` on the loop's thread, but outside `loop()`, does not call
  `wakeup()`: the functor waits for another event or for the poll timeout. The
  clients of `EventLoop` queue from callbacks and from other threads.
* `~EventLoopThread` calls `quit()` through a pointer to an EventLoop on the stack
  of `threadFunc`, which may have returned or return during the call.
* `~EventLoopThread` of an object whose `startLoop()` was never called calls `quit()`
  through the null `loop_` (EventLoopThread.cpp:28); `DestroyUnstarted` ends the
  process there.
* `ThreadPool::run` accepts tasks after `stop()`: they are queued and no worker is
  left to run them. `TasksRun` promises only what is handed to a running pool.
* `cancel` on the loop's thread overtakes an `addTimerInLoop` that another thread
  has queued, and the timer then runs; `CancelsReach` is the direction that holds,
  for a cancel that is queued. A timer cancelled by an earlier callback
  of its batch still runs in that batch; it is only not restarted.
* `PollPoller` never restores the descriptor of a channel that is enabled again
  after `disableAll` (PollPoller.cpp:98-104), although the comments there speak of
  ignoring it temporarily: such a channel is not watched any more. The history
  variable `silenced` marks these channels, `EntriesMatch` shows that they are
  exactly the ignored ones, and `PollsAsPromised` is the promise of `Poller` for the
  other channels. A program that enables again therefore does have to care which
  poller it got.
* `PollPoller::removeChannel` asserts at line 118 that the entry is ignored. A
  channel that `disableAll` has registered, because it was never enabled, is not,
  and the assertion fails; `~Acceptor` of a server that never listened makes just
  these calls. `StructuresMatch` shows that no other assertion of the pollers
  fails, and `Sound` of `TcpServer` that it fails exactly when a server that never
  listened is destroyed, and that no other assertion of the server does.
* `accept()` with ENFILE, ENOBUFS or ENOMEM, which are shortages of the whole
  system, ends the process through LOG_FATAL (`AcceptFatal`), where EMFILE only
  turns a client away.
* `EPollPoller` adds a channel that is disabled twice to the kernel's list again,
  with no events; hang-ups on it are then reported. Its `removeChannel` takes it
  out again.
* `Channel::disableWriting` masks with `kWriteEvent`, not with its complement, so it
  keeps the interest in writing and drops the one in reading. Nothing in the
  repository calls it.
* An echo server exits on every error of `read()`: one client that is killed with
  a reply unread resets its connection, and ECONNRESET ends the server for all.
  The one over `poll()` also exits when it is out of descriptors. `EndsForCause`, a
  part of `EchoSound`, says that there is no other cause, and in particular that
  no connection without data is ever read.
* The epoll servers close a connection before EPOLL_CTL_DEL, which therefore
  always fails, unnoticed. That the descriptor may be given out again in the
  same round does no harm, because the kernel forgets it at `close()`.
* The servers read up to 1024 bytes into a buffer of 1024 and use `strlen` on it;
  only the client's `fgets` limit keeps the NUL.
* `openedFiles` and `threads` ignore the result of `scandir` (ProcessInfo.cpp:195, 241),
  which fails at the limit of descriptors, just when a count of them is wanted. They
  then return 0 or no thread; `ScanRight` says that they do so in no other case.
* `ProcessInfo::numThreads` takes the first "Threads:" of `/proc/self/status`, which
  the name of the process, two lines above, may contain.
* `~ThreadLocal` leaves the values of all threads undeleted, and a forked child
  keeps copies of values of threads it does not have.
* `readToString` leaves `*content` alone when the file could not be opened, so a
  caller that ignores the error sees what was in it.
* The functor that `TcpServer::start` queues holds a raw `Acceptor` pointer: the
  server must outlive it. A server destroyed inside a callback removes channels
  that are active in the same round, which `removeChannel` asserts against. In
  the model the server is destroyed outside `loop()` when no `listen()` is
  pending, or by a functor that is queued after every `start()` has returned;
  that it then comes after their `listen()` is part of `Sound`.
* If another thread takes the spare descriptor in the EMFILE branch of
  `Acceptor::handleRead`, the listening socket stays readable and the loop spins
  until a descriptor is free; `ClientsAnswered`, a part of `ServerAnswers`,
  therefore supposes that the rest of the process opens nothing.
* A `BoundedBlockingQueue(n)` holds n - 1 elements, since `circular_buffer`
  keeps one slot empty; `capacity()` says n, and n = 1 blocks every `put`.
* After `Condition::wait` the mutex is held with `holder_` unset, so
  `assertLocked()` would fail there. `NoFalseClaim` is the direction that holds.
* `readTimeZoneFile` reports success for a file it could not read, so such a
  zone is `valid()` without a local time.
* From thread id 100000 on, the printed id is longer than `t_tidStringLength`, and the
  assertion at Logging.cpp:76 fails at the first message of such a thread
  (`TidAsserts`): the process ends and nothing is flushed. `FatalFlushed` says
  that, while no setter is called, every other end comes after a fatal message
  was flushed.
* `Logger::setTimeZone` assigns a `shared_ptr` (Logging.cpp:225) that `formatTime` of
  another thread may be reading (141-143), with no lock between them, which is a
  data race. The model takes the assignment as one step, that is, it shows what
  threads see of a zone that is set as if the pointer were atomic; `setOutput`,
  `setFlush` and `setLogLevel` are taken in the same way.
* `AppendFile` looks at no result of `fflush` and `fclose` (FileUtil.cpp:31, 59), so a
  write that fails loses buffered lines and nobody is told; `IsSink` says that
  such lines were not on disk and that no other call loses any.
* The suffix "Z" of a time is chosen when the line is written, the text before it
  once a second; after `setTimeZone` they may disagree until the second is over.
* `fromLocalTime` looks back by 3600 seconds, at the end of daylight saving only:
  where a zone saves half an hour, or sets its standard time back, the instants
  just before the change do not come back from their local time. `RoundTrip` says
  that these are all that do not.
* `findLocaltime` takes a file's first kind of local time before the first change,
  even if it is daylight saving time, and the last change for the end of all
  changes; comments at TimeZone.cpp:230 and 250 call for better. `LocalRight` leaves
  both cases out (`Told`).
* For a file that ends before its abbreviations, `tm_zone` points behind the end of
  an empty string unless the index is 0 (TimeZone.cpp:294); `ZoneNamed` says that
  this is the only such case.
* `readTimeZoneFile` checks neither that the index of a kind is one it has read
  (TimeZone.cpp:199-200) nor that changes ascend, which `lower_bound` needs, also
  for the local times of changes. `Files` are well formed, and `FromLocal` is
  modelled where the local times ascend.

## Fairness

Liveness is stated under weak fairness of steps that need nothing but a
processor and, at most, a mutex: the loop's own thread, a thread that is inside
`quit()`, `queueInLoop()`, `put()`, `take()`, `start()` or `stop()`, a worker.
Callbacks and tasks are assumed to return. Nothing is assumed of clients (nobody has to call
anything), of the ten-second timeout of `poll()`, or of spurious wakeups.
Mutexes are taken as fair, which weak fairness of the step under the mutex says;
pthread mutexes are so in practice only, and no safety property rests on it. In
`TimerQueue` time passes. In `EchoServers` the server, a single process that waits
for nothing but events, is scheduled; nothing is assumed of the clients. In `PoolWithLatch` a waiter passes because the tasks
that count down run (`TasksRun`, a part of `PoolProgress`), unless the pool is stopped.

## Proofs

`LoopProofs` proves, for any sets of threads, functors and channels and any
capacity of the eventfd:

* `TypeCorrect`, `NeverSleepsOnFunctors`, `NeverSleepsOnQuit`,
  `NeverDispatchesRemoved`: types, and the invariants of the run `event_loop`;
* `ImplementsFunctorQueue`: the refinement of `FunctorQueue`.

The invariant `NoLostWakeup` is not inductive: it speaks of the loop inside
`poll()` only, and the wakeup that ends that poll may have been due long before.
`LoopInv` adds two facts. `FlagsMatchPc`: `eventHandling_`,
`callingPendingFunctors_` and `looping_` say where the loop is, which is what
`queueInLoop` decides on. `PendingAnnounced`: at every position from which the
loop reaches `poll()` without passing `doPendingFunctors`, pending functors are
announced by the eventfd or by a thread about to write it. The proof has one
step for each action. The refinement rests on three lemmas about concatenated
sequences: appending to the pending vector appends to the abstract queue, the
swap leaves it alone, and running the first of the swapped vector removes its
head.

`QueuesProofs`, for any finite set of threads: `TypeCorrect`; `TakersAwake`, the
invariant `NoLostNotify`, inductive together with the types, by counting the
awake takers. For the bounded queue and any `maxSize`:
`BoundedKeepsAwake`, from `BoundedInv` (`BoundedSound`, and a thread inside `put()`
has an element), and `BoundedImplementsFifo`, where the abstract queue is read
from the circular buffer at positions modulo `maxSize`.

`PoolProofs`, for any count, waiters and finitely many calls: `TypeCorrect`,
`PassesOnTime` and `NobodyLeftBlocked`, from `LatchInv`: `count_` is the initial
count less the number of calls, so it meets zero in exactly one call, and who
has passed found it at zero or below. `PoolUsesLatch` shows that every step of
pool and latch together is a step of the latch or leaves it alone, so that these
hold in the composition; `PoolIsSound` is the invariant of the pool, inductive
once no task is queued twice.

Of the pollers, for any finite set of descriptors, `LoopProofs` proves `StructuresAgree` and
`PollersKeepPromise`, the refinement of `Poller` by both, with `events` mapped to what
the poller heeds (`Heeded`), after any sequence of calls. `PollInv` adds to the
invariant that every entry of `pollfds_` is the one `index_` of its channel names,
which the swap with the last entry in `removeChannel` has to keep; `EPollInv` that
`index_` tells whether a channel is in the map and in the kernel's list.

`TimeProofs`, for any addresses, threads, and instants: `TimersSound`,
`DeletionsJustified` and `CancelsInOrder`, from `ListInv`: besides `ListsSound`,
what each queued functor, each entry of the running batch and each noted cancel
says of the Timer at its address, so that an address that `new` hands out again
is mistaken for none of the old ones; `TimerfdKeepsTime`, from `AlarmInv`, which
adds the case of a timer for the epoch, whose expiration `reset()` takes for none.

`TcpServerProofs`, for any number of clients, descriptors and threads:
`AssertionsNeverFail`, `DescriptorsHaveOneOwner` and `ConnectionsEndOnce`, the three
invariants of the run, from one: `ServerInv`. None of the three is inductive
without the others: that `Release` closes the right sockets rests on what the poller's
map and the queue say of each connection (`Watches`), that a closing connection
finds itself in `connections_` on the position of the loop (`Phases`: only its own
event removes a connection while the loop handles events), and that `listen` meets a living
server on the order in the queue (`Lifetime`: the destruction is queued behind every
`listen`), as does when the one assertion that may fail does (`Lifetime`: the
poller knows the acceptor's channel once the server listens). The proof has one lemma per part and in it one step per action that
touches the part, the rest in groups.

`ProcessProofs`, for any threads and processes: `IdsAreRight` (`ThreadInv`: who
writes `tid_`, and when, in each process that a fork has made), `NobodyMisled`
(`HolderInside`: who is named by `holder_` is inside or waits), `EachItsOwnValue`
(`LocalInv`: values are apart and alive), `FilesReadWhole` (`ReadInv`: what was read
is the file from the start of the call to `offset`), `ScansAreRight` (`ScanInv`:
what a scan of a directory has passed, what was there all the time, and that a scan
keeps its directory open, which no other scan of the process has).
`std::sort` in `threads()` is modelled by the rank of each number, and the lemmas
about ranks show that the result is in order.

`LogOutputProofs`: `FilesBounded`, from `FileInv` (`PeriodKept` and `InTime` relate
`startOfPeriod_`, the last flush, the buffered lines and the clock while nobody
sets it back); `FileIsSink`, the refinement of `LogSink`, which needs that the
files after the open one are empty (`LaterEmpty`), since a file is opened only in
a second later than the last roll, and that what a call leaves in the files and
the buffer is a beginning of what was there, all of it if no write fails, and at
most one line more (`Moves`); `MessagesStampedRight`, from `StampInv`: the
cached text was made in the cached second; and `MessagesWhole`, from `LineInv`: a
stream never reaches `SIZE`, a number that is appended leaves room for its NUL, and
until a setter is called a thread about to abort has output its message where
`g_flush` flushes it.

`EchoServersProofs`, for any clients, lines, number of descriptors and first size
of `events`: `EchoServersSound`, the invariant of the run, from `EchoInv`. That a
round serves every connection reported is the part furthest from inductive:
`Rounds` names the connections a server still has to come to (`Due`: what is left
of the events, or what was reported and is in `pollfds` at the iterator or behind
it), and says that they are those not served, that `nready` counts them, and that
each has something to read, so that no connection without data ends the server.
What erasing an entry while iterating does to a list is stated as lemmas about
positions in sequences.

`TimeProofs` also proves the invariants of the run `conversions`:

* `CalendarsRight`, for every day from 1900 on, from `CalendarInv`: `today` is a
  date, and its day number and day of the year are those that were counted. That
  the quotients of `getJulianDayNumber` go on by one from day to day, and that
  those of `getYearMonthDay` undo them, are lemmas about quotients of a year that
  begins in March (`FromMarch`, `Quotients`). UTC times are compared where their
  seconds fit in 32 bits, from 1902 to 2037.
* `ZonesRight`, for any kinds of local time, changes and instants, from
  `ZoneInv`: `data_` is what the file or the offset makes, and the local time, and
  the time it came back to, are those of the functions. What these give is
  computed from the change that an instant stands at (`Stands`), for the search by
  UTC and by local time: `OnceBack` for a local time that comes once, `RepeatedBack`
  for one that a change repeats. There is no assumption on offsets: that
  `fromLocalTime` has one hour of saving written into it (`TimeZone.cpp:317`) is
  part of what `RoundTrip` says.
* `TextsRight`, for integers and pointers of any width and for any texts, from
  `NumberInv` (the number has its width) and `PiecesInOrder`, which rests on
  `PieceInv`: both pieces lie inside their memory. That the digits, which are taken
  from the end, have the value of the number is shown with the least magnitude
  that fails; the order of two pieces with the first position where they differ.

The assumptions are those named in the modules that declare the constants, and
TLC evaluates them in the runs. Most say that threads, descriptors or calls are
finite, that a null value is none of the real ones, and that sizes are positive.
Those with content: the eventfd can hold at least one (`ConstantsAssumption`);
`NumbersFit` is what `LogStream::staticCheck` checks of `kMaxNumericSize`, and the
line number, the errno and the pointer a Logger writes are numbers of the widths
it has (`LoggingAssumption`); the two halves of `LogOutput` share a clock
(`MaxSecond <= MaxTime`); the abbreviation of a kind of local time lies in the
abbreviations (`ConversionAssumption`). `WidthAssumption` is a fact: the provers know of a power
only that it is an integer.

The provers cannot use the induction theorems, which take an operator as a
parameter. Where a result rests on a recursive function (the concatenation of
the files, the digits of a number, the value of a numeral, the days before a year), the
proof takes the least counterexample instead, which a lemma about sets of numbers
provides.

Every invariant, action property and refinement of the passing runs is proved.
Only model-checked is all liveness (the leads-to properties of the runs): fairness
and ENABLED are beyond the prover.

## Not modelled

* `Timestamp` formatting, `InetAddress`, `Endian`, `Types`, `Exception`: values
  and text. In `ProcessInfo`, functions that make one system call or read one
  file.
* `AtomicInteger`: a cover of one builtin each; where a module uses an atomic
  number it is one step.
* Socket options, addresses and the bytes of a connection: no property tells
  them apart. There is no output side in `TcpConnection`. Urgent data, which
  `kReadEvent` asks for with POLLPRI and which `handleRead` reads like any other, is
  part of the data of a socket; `listenOrDie` is taken to succeed, for if it fails
  the process ends.
* `test`: the programs there; the models take from them how the parts are used.
* The setup of the examples before their loop, and a line of the client that
  arrives in parts, which the loopback interface they use does not do.
* A line that `fwrite` writes in part before it fails: `LogFile` has lines that are
  taken whole or not at all.
* Destruction of a `Thread` before its thread has ended, which the class does
  not guard against and its users avoid; failure of `pthread_create`.
* A `TimerQueue` shares its loop with everything else through `ops` only; the
  fairness of the loop to the timerfd is the one `EventLoop` shows for channels.

## Plan

Done: the modules above, in this order: `EventLoop` and its proofs,
`EventLoopThread`, `TimerQueue`, the pollers, `TcpServer`, the base library,
logging and time; then `ReadSmallFile`, `ThreadLocal`, `ProcessInfo`, `StringPiece`,
the echo servers, the abstract sink of the log file, and the order of queued
cancels; then the proofs, those of the example servers and of the conversions last.

Next: a server with its loop in an EventLoopThread, so that `TcpServer` and
`EventLoop` are composed and the server's loop is shown to be an abstraction of
`EventLoop`; the poller inside `EventLoop` shown to be the abstract `Poller`.
