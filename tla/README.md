# A TLA+ model of yamq

yamq is a small C++11 library for network servers: an event loop with a
hand-over of functors between threads, a byte buffer, TCP and HTTP servers on
top of it, timers, an asynchronous log and a thread pool. This directory holds
the TLA+ specifications of its core, the TLC models that check them on small
instances and TLAPS proofs of their main invariants.

Paths below are relative to the root of the repository (`rpc/...`, `log/...`,
`base/...`); `PROJECT.json` maps every definition to its lines.

## 1. The system

### Components

| Component | State | Operations | Depends on |
|---|---|---|---|
| `EventDispatcher` (`rpc/event_dispatcher.*`) | `_pending_functors` under `_mutex`; the atomics `_stop`, `_pending_functor_done`, `_calling_pending_functor`; `_channels`; an eventfd | `Start`, `Stop`, `RunInEvd`, `SyncRunInEvd`, `Wakeup`, `RegisterChannel`, `UpdateChannel`, `RemoveChannel`, `AddTimer`, `CancelTimer` | selector, timer queue |
| `EpollSelector`, `PollSelector` (`rpc/epoll_selector.*`, `rpc/selector.*`) | the kernel's epoll set; a vector of `pollfd` with an index map | `Add`, `Update`, `Remove`, `Select` | kernel |
| `Channel` (`rpc/channel.*`) | descriptor, interest mask, attached or not | `EnableRead`, `EnableWrite`, `DisableWrite`, `Remove`, `HandleEvent` | dispatcher |
| `IoBuffer` (`rpc/io_buffer.*`) | a vector, reader and writer index | `Put`, `Prepend`, `Get*`, `Seek`, `Retrieve`, `Shrink`, `Reset`, `findCRLF` | none |
| `Connection` (`rpc/tcp/connection.*`) | status, descriptor, input and output buffer | `establish`, `HandleRead`, `HandleWrite`, `Send`, `ForceClose` | channel, dispatcher, buffer |
| `Acceptor` (`rpc/tcp/acceptor.*`) | the listening socket | `Listen`, `HandleRead` | channel |
| `multi::Server`, `Server` (`rpc/tcp/server_multi.*`, `rpc/tcp/server.*`) | `_connections`, `_next_id`, `_next_evd_id`, the workers | `Start`, `newConnect`, `closeConnect`, `removeConnect` | acceptor, connections, one dispatcher per `IoWorker` |
| `HttpContext`, `HttpServer`, `HttpRequest`, `HttpResponse` (`rpc/http/*`) | parser state, request, response | `parseRequest`, `onMessage`, `onRequest` | `multi::Server` without workers, buffer |
| `TimerQueue` (`rpc/timer/*`), `rbtree` (`base/rbtree/*`) | a red-black tree of timers, a map from identifiers to nodes, a timerfd | `AddTimer`, `CancelTimer`, `HandleRead` | dispatcher |
| `LogWorker` (`log/asynclogging.*`) | `_buffer`, `_buffersFilled`, `_buffersAvailiable`, `_stop` under `_mutex` | `append_async`, `flush`, `threadFunc`, destructor | `LogFile` |
| `LogFile`, logging front end (`log/*`) | a `FILE`, its size, the index of the next file; the level | `append`, `flush`, `roll`, `LOG(...)` | stdio |
| `ThreadPool` (`base/thread_pool.*`) | `_tasks`, `_stop` under `_mutex`, two condition variables | `addTask`, `threadFunc`, destructor | threads |
| `SharedQueue`, `Thread`, `any`, `stacktrace` (`base/*`, `log/debug/*`) | | wrappers and utilities | |

### How they interact

A thread constructs an `EventDispatcher` and runs its loop: select, dispatch
the events to the channels, run the pending functors, test `_stop`. Everything
a connection does happens in the loop of its dispatcher; other threads reach it
only through `RunInEvd` (queue and go on) and `SyncRunInEvd` (queue and spin on
a shared flag). In `multi::Server` the main loop accepts, keeps the table of
connections and hands each connection to one of the workers' loops; the worker
hands the removal back. The log and the thread pool are used by threads at will
and synchronise with mutexes and condition variables.

### What is hard

* Functors are pushed while the loop swaps and runs them without the lock; the
  completion flag is shared by all synchronous callers and cleared outside the
  lock; the wake-up of the loop may not happen at all.
* A connection's channel lives in one thread, its table entry in another;
  status is tested in one thread and acted on in another; a handler goes on
  after the callback that closed its connection; descriptors are reused.
* The log backend writes without the lock while `flush()` writes with it; the
  pool of buffers may run dry; shutdown races with all of them.
* The thread pool has two condition variables, `notify_one`, spurious
  wake-ups and a destructor that notifies only one of the two.
* The buffer has index arithmetic at the borders of growing and compacting.
* The red-black tree repairs itself in cases that need several insertions and
  deletions to meet, and moves entries between nodes to which others point.
* Timers are named by any thread without a lock, expire while callbacks add,
  cancel and repeat others, and share one timerfd that has to be set in time.
* HTTP requests arrive in pieces or several at once, and all of a connection
  share one parser context; a response may be written in part and be cut off.
* The log file rolls, is removed or replaced by others, cannot be opened or
  written, is flushed without the lock of `append`, and is continued after a crash.

### What makes each part correct

* Dispatcher: functors of other threads run exactly once and in order;
  everything queued is run; synchronous calls return, after their functor ran.
* Channels, selector, connections: all tables agree about who owns a
  descriptor; the output is complete and in order; write interest is on exactly
  while output is buffered; a closed connection leaves every table.
* Buffer: it is a queue of bytes.
* Log: no accepted message is lost, duplicated or reordered; no buffer leaks;
  messages become durable; `flush()` and shutdown do what they say.
* Thread pool: tasks are executed once, in order; the bound holds; nobody
  sleeps forever; destruction drains the queue.
* Tree: it is a balanced search tree, and an ordered map to its user.
* Timers: the timerfd is set for the earliest timer; callbacks run in the order
  of the expiries; every waiting timer fires.
* Selector on poll: the index map names the entry of every descriptor.
* HTTP: every response belongs to its request and leaves in order.
* Log file: what `append` reported is in the files, in order, unless stdio
  failed or the process was killed; what was flushed survives; files respect the
  roll size.

`PROJECT.json` lists the hazards line by line, each with the properties that
are about it or the reason why there is none.

## 2. The modules

| Module | Models | Role |
|---|---|---|
| `Executor` | | what the dispatcher promises to other threads |
| `EventDispatcher` | `rpc/event_dispatcher.cpp` | loop, `RunInEvd`, `SyncRunInEvd`, `Stop`, `Wakeup`; implements `Executor` |
| `EventDispatcher_proofs` | | its proofs |
| `LogWorker` | `log/asynclogging.cpp` | frontend, backend, `flush`, destructor |
| `ThreadPool`, `ThreadPool_proofs` | `base/thread_pool.cpp` | producers, workers, destructor; proofs |
| `ByteQueue` | | what the buffer promises |
| `IoBuffer` | `rpc/io_buffer.*` | all operations on bytes; implements `ByteQueue` |
| `TcpServer`, `TcpServer_proofs` | `rpc/tcp/*` (multi-threaded server), `rpc/channel.*`, `rpc/epoll_selector.cpp`, the channel table of the dispatcher | composition of acceptor, loops, connections, other threads and peers; proofs |
| `OrderedMap` | | what the tree promises |
| `RbTree` | `base/rbtree/rbtree.cpp` | insertion, deletion and queries on the heap of nodes; implements `OrderedMap` |
| `TimerQueue`, `TimerQueue_proofs` | `rpc/timer/*` | timers in the loop and from other threads, over the promises of `OrderedMap` and `Executor`; proofs |
| `InterestMap` | | what a selector promises |
| `PollSelector`, `PollSelector_proofs` | `rpc/selector.cpp` | the selector on `poll`; implements `InterestMap`; proofs |
| `HttpServer` | `rpc/http/*`, `rpc/tcp/connection.cpp` | parser, requests and responses on one connection |
| `LogFile` | `log/logfile.*` | append, roll, reopen, flush, crash and restart |
| `Http_proofs` | | proofs about `IoBuffer` and `HttpServer` |
| `Logging_proofs` | | proofs about `LogWorker` and `LogFile` |
| `SeqLemmas` | | lemmas about sequences and numbers that the proofs share |
| `MC*` | | instances for TLC |

`Http_proofs` and `Logging_proofs` extend the two modules of one path through
the program at once. So that their names do not meet, `HttpServer` and `LogFile`
have `HttpInit`, `HttpNext`, `HttpSpec`, `HttpTypeOK` and `FileInit`, `FileNext`,
`FileSpec`, `FileTypeOK` where the other modules have `Init` and so on.

### EventDispatcher

`pending`, `done`, `calling`, `stop` are the members of the same names;
`loop` is the place of the loop thread in `Start`/`runPendingFunctor`, `batch`
its local vector, `pc` and `call` the place of every other thread in a call.
A critical section or one access to an atomic is one step: `Push` (the push
under the lock) and `ClearDone` (the store after the unlock) are separate, as
are `SwapPending`, the runs, `EndCalling` and `PublishDone`.

`Wakeup` writes to `_wakeup_fds[0]`, which the constructor never assigns. The
outcome is a choice: the process aborts (the write fails), an unrelated
descriptor takes the bytes, or it is the eventfd by chance. `Select` returns
after 100ms whatever happens, so it is always enabled.

`Executor` says: functors run in the order in which other threads handed them
over, each once; those of the loop thread run at once. The refinement mapping
is the identity on the history variables.

### LogWorker

A buffer is the sequence of its messages; the empty buffers of the pool are a
number. `hand` is the backend's local buffer. The steps of the backend are the
critical sections of `threadFunc` and, between them, the write and the fflush
without the lock. `flush()` holds the mutex for its whole run; it is divided
into steps because the backend writes meanwhile. `flusher = "fatal"` is
`LOG(FATAL)`, which flushes and aborts. `logged` is what was appended to the
`LogFile`, `synced` how much of it was flushed.

### ThreadPool

Both condition variables with `notify_one` (any waiter), `notify_all` and
spurious wake-ups; a waiter that wakes up tests its predicate again under the
lock. `MaxTaskSize = 0` is the unbounded queue. The constructor's threads
exist from the initial state on.

### IoBuffer

The vector with its stale bytes, the reader and the writer index, 0-based. The
operations compute the next buffer as functions (`MakeSpace`, `Compact`,
`PutInto`, `SeekIn`, ...), the actions are the public operations. Assertions
that are contracts of the caller are guards; the build compiles all of them
out (`NDEBUG`). `findCRLF` reads past the readable bytes, possibly past the
vector; what it finds there is a choice. `moved` is a history variable: the
bytes put in or handed out. `ByteQueue` speaks about `Content(b)`.

### TcpServer

Dispatcher 0 is the main one, 1 to `WorkerNum` those of the workers; with
`WorkerNum = 0` the main loop serves the connections itself, as the code does.
`con` holds the members of every connection, `channels` and `epoll` the tables
of every dispatcher, `open` the kernel's descriptors, `batch` the events of
the last `Select` that are not yet dispatched, `act` the handler a loop is in
and what it still has to do. The hand-over between loops is the queue that
`Executor` promises (`queue`), so the interleavings inside `RunInEvd` are not
repeated here.

A functor or handler is one step, except where other threads matter in the
middle of it: `HandleRead` before and after its close callback, the two handlers of
one event, `ForceClose` before and after the hand-over, `newConnect` before
and after the hand-over of `establish` (`NewConnect`, `InsertConnect`).
The callbacks of the user may do nothing, send or close a connection.

A failing `epoll_ctl`, `readv`, `accept4` or `send` with `EPIPE` is
`LOG(FATAL)` in the code: `fatal` names what ended the process. `late` records
that the code used a closed connection: its channel was removed twice
(`remove`), an event came for it (`event`), a handler wrote to it after its
last reference (`freed`) or wrote its output (`write`). All four happen.

### RbTree

The heap of the tree: `t` has the root and the fields of all nodes, with `Nil`
for the sentinel, whose `parent` the deletion writes. Loops are recursive
operators; the two mirror images of a case are one definition with a side as
its parameter, except the last case of `rbtree_del_fixup`, whose copies differ in
the source (line 289). `mirrored` remembers that this copy ran. A repair that
finds the sentinel as a sibling reads through NULL: `crashed`.

`OrderedMap` speaks about nodes and their keys: inserting adds a node,
deleting removes the entry of a node, either together with its node or by moving the
next greater entry into it and freeing that one's node.

### TimerQueue

`timers` are the `Timer` objects with a phase, `ref` is `_ref`, `tree` maps
nodes to timers, `armed` is the time of the timerfd. `AddTimer` is two steps
(`NameTimer`, `PublishTimer`), because nothing protects the identifier and
the map. `HandleRead` of the queue is divided at its callbacks, in which the
user may add and cancel timers; so may the handlers of other channels.
Deletion from the tree uses both outcomes that `OrderedMap` allows, so a
cancellation can move an entry away from the node its timer points to.

Use of a freed timer, of a node that is not in the tree any more, and a failed
read of the timerfd end the program (`fault`). All of them happen: a timer that
fired can be cancelled, a callback can cancel its own timer, a handler can set
the timerfd anew after `Select` reported it. The properties speak about the
time before.

### PollSelector

`pollfds` and `idx` are the vector and the index map. `events` is what the last
`Select` reported and the loop has not handled; registrations and removals
happen in between. `InterestMap` is a map from descriptors to interest and a
set of pending reports, each for what was asked when it was made.

### HttpServer

One connection. The client's requests are sequences of lines, of which only
what the parser looks at is kept; input is counted in half lines and output in
half responses, so everything can be cut. `onMessage` is divided into the lines it
parses and the answer. `findCRLF` may find the end of a line that was consumed
before (see section 5); this ends the behaviour (`stale`). `Meaning` is what a
request asks for, told from its lines alone and not by the steps of the parser:
of several `Connection` headers the last one counts (`LastConnection`). The user's
callback may set or clear the wish to close (`setCloseConnection`), whatever the
request asked for.

### LogFile

The n-th message is some number of characters n; `content` are the files by
inode, `dir` their names, `file` the `AppendFileWrapper` with the buffer of its
`FILE`. `append` holds the mutex from `BeginAppend` to the end of the roll;
`flush` reads the pointer and flushes in two steps, without the mutex (`inFlush`).
`Written(i)` is the file `i` with what is still buffered for it, `Places(n)` where
the characters of the message `n` are in these files.
`fopen`, `fwrite`, `fflush` and `fclose` may fail. The code discards the results
of the last two; a buffer that stdio could not write out, or only in part, is
gone then, as the C libraries of Linux do it (`Outcomes`, `WriteOut`). History
variables keep the characters that were lost (`lost`) and the messages that
were in such a buffer (`env.doubtful`). Others may remove files (`Unlink`) or
create them, also in place of an existing one (`Replace`), and the process may
be killed at any step and started again, which loses the buffer.

## 3. The runs

| Run | Instance | Result |
|---|---|---|
| `event_dispatcher` | 2 callers, 2 functors | 5 properties hold |
| `log_worker` | 4 messages, 2 buffers of 2, 2 flushes | 6 properties hold |
| `thread_pool` | 2 workers, 2 producers, 4 tasks, bound 2 | 6 properties hold |
| `io_buffer` | prepend 1, initial room 2, extra buffer 2, pieces of at most 2 bytes | 2 properties hold |
| `tcp_server` | 2 connections, 2 descriptors, 2 messages of 2 bytes, 1 worker, 1 closing thread | 5 properties hold |
| `tcp_server_remove` | 1 connection | `RemoveFindsChannel` violated |
| `rb_tree` | 8 keys, any number of operations | 4 properties hold |
| `rb_tree_balance` | 4 keys | `RedBlack` violated |
| `timer_queue` | 3 timers, identifiers up to 2, 4 ticks, 2 cancellations | 4 properties hold |
| `poll_selector` | 3 descriptors | 2 properties hold |
| `http_server` | 3 requests of 6 kinds, among them one with the `Connection` header twice and one with its value in another header | 3 properties hold |
| `log_file` | 3 messages of 1 or 2 characters, roll size 2, buffer of 2, 2 failing opens, 1 short write, 1 buffer not written out, 1 removal or replacement, 1 restart, 2 flushes | 3 properties hold |

### What the passing runs show

* `event_dispatcher`: what ran, what is in the batch and what is queued is
  what was pushed (`FunctorsConserved`). A synchronous caller whose push was
  outside the window between the swap and the store of the completion flag
  finds its functor done (`SyncOutsideWindowRan`); inside the window it may not.
  Functors are run and spinning callers return (`PostedEventuallyRun`,
  `SyncEventuallyReturns`), without relying on the wake-up. A caller of
  `SyncRunInEvd` that comes after the last round spins forever; the property
  says so by its exception for the exited loop.
* `log_worker`: buffers and messages are conserved in every interleaving of
  frontend, backend and `flush()`. The file is in order unless a `flush()`
  overtook the backend (`FileInOrder`). `flush()` misses at most the buffer in
  the backend's hand. Accepted messages become durable by the timeout alone.
  Shutdown ends when there was something to write.
* `thread_pool`: the bound holds with waiting, notified and arriving producers;
  accepted tasks are executed although the pool is destroyed; the destructor
  ends; a producer blocked on the full queue is released even by a pool that is
  being destroyed, provided there are at most as many producers as places
  (`WaitersCovered` is the reason). With more producers than places
  the destructor can strand some: it never notifies `_fullCondition`.
* `io_buffer`: no sequence of operations takes the indices out of the vector,
  `makeSpace` makes room without losing content (`MakeSpaceMakesRoom`), and growth,
  compaction, swapping and the two-part read are invisible (`ImplementsByteQueue`).
* `tcp_server`: as long as no closed connection was used again (`late` empty),
  channel table, epoll set, descriptors, connections and server table agree,
  output is complete and in order and reaches the right peer, write interest
  is exact and a closed connection is in the table only until the queued removal
  runs. `epoll_ctl` fails only after such a use.
* `rb_tree`: whatever the repairs do, the tree stays a search tree over the
  allocated nodes with correct parent links (`SearchTree`); it is red-black and no
  repair meets the sentinel until the faulty case has run
  (`BalancedUntilMirrored`). The queries answer (`QueriesAnswer`); the successor
  of the greatest node is the root, not the sentinel. To its user it is an
  `OrderedMap`.
* `timer_queue`: between the handlers the timerfd is set for the earliest timer
  or before it (`ArmedInTime`), callbacks run in the order of the expiries
  (`NoOvertaking`), the tree never holds a freed timer (`TreeHoldsWaiting`) and
  waiting timers fire, also those whose identifier another thread took at the
  same time (`WaitingEventuallyFires`).
* `poll_selector`: see the proofs; the run is their small instance.
* `http_server`: the i-th response answers the i-th request by what that one
  says, however input is cut (`AnswersMatchRequests`), up to the first request
  whose end cannot be told by its lines. Responses leave in order, in full
  while the connection is open, and one without a length ends it (`WireInOrder`).
  A client that waits is answered (`WaitingClientAnswered`).
* `log_file`: every character that `append` reported is in one file, in order, or
  was lost when the process was killed or `fflush` or `fclose` failed, each time a
  buffer at most (`ContentInOrder`), unless a short write made the code write a
  message again. Messages appended before a flush that returned survive a crash,
  also when the flush met a roll, unless they were in a buffer that stdio failed
  to write out (`FlushedSurvives`). Files outgrow the roll size by less than a
  message per run and by one more for each roll that failed (`RollBound`).

### What the violations show

| Run | The repository says | The code does |
|---|---|---|
| `tcp_server_remove` | `assert(it->second == channel)` (`rpc/event_dispatcher.cpp:111`) | a close by another thread is queued for the loop; before it runs, the message callback closes the connection, and then both remove the channel (with the peer's shutdown in place of the message it is the same) |
| `rb_tree_balance` | "a red-black tree in C" (`base/rbtree/README.md:1`) | line 289 of `rbtree.cpp` colours `w->right` where its mirror image needs `w->left`: after inserting 3, 2, 4, 1 and deleting 4 the tree is not red-black, and deleting 3 reads through NULL |

### Bounds

Functors, messages, tasks, timers and connections are used at most once each, which
bounds the number of calls. Two callers are enough for one to push into the
window of another's completion; two functors for an order. Four messages with
two buffers of two let the frontend fill a buffer, run the pool dry, lose a
message and go on; a second flush can come while the first one's backend write
is pending. Four tasks with two places and two producers let a producer be
blocked while the other one is notified or arrives. The prepend area and the
initial room of the buffer are as small as a piece of data, so every branch of
`makeSpace` and of `Retrieve` is taken from fresh, half-consumed and full
buffers. Two connections with two descriptors share a descriptor one after the
other or are open at the same time; messages of two bytes are the smallest
that can be written in part. `tcp_server` was also run with no worker;
connections, descriptors, messages and threads are symmetric
there (it has no liveness property).

The operations of the tree are not bounded, only its keys: with eight keys
every case of both repairs occurs, on both sides and repeated towards the
root. `malloc` takes the address named after the key if it is free: the names
of the addresses do not matter. (`Shape`, the view of the run, forgets them.)
Three timers with three identifiers let `nextId` wrap around and skip; four
ticks let a timer that repeats, one that was added in between and one that
expired be in the queue at once. Three descriptors are the least for a removal
by swapping whose index is used again. Three requests are a first, one that
inherits and one after it. In `log_file` one long or
two short messages fill a file, so three roll it and its successor; each failure happens
as often as its combinations with the others matter (an open fails in the roll
and again in the reopening, a buffer is not written out by the first flush and
the second one returns, or the process is killed after it).

### Fairness

* Dispatcher: weak fairness of the loop (the owner calls `Start`, `Select`
  returns after 100ms) and of every thread inside a call. None for making calls.
* Log: weak fairness of the backend (`wait_for` has a timeout of 300ms), of the
  thread inside `flush()` and of the destructor after `Join`. None for logging,
  flushing or shutting down.
* Thread pool: weak fairness of every worker, of a producer that was woken and
  of a destructor that has begun. None for `addTask`, for destruction or for
  spurious wake-ups, so no property depends on one.
* Timers: weak fairness of the clock, of the loop (as above; callbacks return)
  and of a thread inside `AddTimer`. None for calls.
* HTTP: weak fairness of the loop, and of reading and writing by themselves: what
  the client sent arrives and it reads what is written, so level-triggered epoll
  reports the socket for each until it is served.

## 4. The proofs

All theorems hold for every value of the constants that satisfies the named
assumptions of the modules, which TLC evaluates in the runs:

| Module | Assumed of its constants |
|---|---|
| `EventDispatcher` | the null functor is not a functor |
| `LogWorker` | sizes are numbers, a buffer holds a message, a null pointer is not a buffer |
| `ThreadPool` | the bound is a number, no task is the null task, there is a worker |
| `IoBuffer` | sizes are numbers; CR, LF and zero are bytes |
| `HttpServer` | the bound is a number, a request is a sequence of at least one line |
| `LogFile` | sizes and bounds are numbers, the roll size, the buffer and the longest message not 0 |
| `TimerQueue` | timers are numbered in the order of their allocation, delays and bounds are numbers, the clock can tick, null is not a timer |
| `TcpServer` | null is no connection and -1 no descriptor, a message has bytes, connections are not the words for an idle thread, the number of workers is a number |

`PollSelector` needs none. `NobodyStranded` has one hypothesis of its own
(`FewProducers`), explained below.

* `EventDispatcher_proofs`: `TypeCorrect`, then `Conservation`
  (`FunctorsConserved`), which needs that the batch is empty outside the run
  (`BatchOnlyInRun`), or else the swap would drop its rest. `SyncOutsideWindow` needs
  more: `SyncOutsideWindowRan` only speaks about callers that spin and see the
  flag, but a push is followed by the clearing of the flag much later.
  `PushOutsideWindow` says, from the push on, that the functor of such a
  caller is never found in the queue within the window, and that with the flag
  set, after the clearing, it has run. `IInv` is the conjunction (`Inductive`).
  `Refinement` (the dispatcher implements `Executor`) uses that the head of the
  batch is the oldest functor that has not run, which is conservation again.
* `Logging_proofs`, on `LogWorker`: `TypeCorrect` and `PoolConservation`
  (`BuffersConserved`) together are inductive: the type invariant says that the
  backend has a buffer exactly in four of its states, which the count needs.
  For the messages, `Everywhere` is the concatenation of file, backend's hand,
  queue and frontend buffer. Every step but one leaves it alone (`Moves`) or
  appends the new message: the borders between the places move, the messages do
  not. The one is `FlushWrite`, which puts a queued buffer before the one in the
  backend's hand (`SwapBlocks`): elements and length stay, the order only if
  the hand is empty. `NoMessageLost` (`MessagesConserved`) and
  `OrderOfFile` (`FileInOrder`) follow. `FlushIsComplete`
  (`FlushMissesOnlyInHand`, an action property) needs in addition
  `FlushingTookBuffer`: while `flush()` holds the mutex the frontend has no
  buffer. `FlattenSeq` is recursive; what it does with a pushed and a popped buffer
  (`FlattenAppend`, `FlattenHead` of `SeqLemmas`) is proved from its
  concatenations of prefixes, which exist and are unique by least counterexample.
* `ThreadPool_proofs`: `OrderKept`, `BoundKept` and `NothingLeftBehind`
  from the conjunction of `TypeOK`, `TasksInOrder`, `QueueBounded` and
  `ExitedMeansDrained`. A worker that exited shows that `_stop` is set, so
  `addTask` refuses everything and the queue stays empty. `NobodyStranded`
  (`WaitersCovered`): there are never more blocked producers than queued tasks, so
  the pops notify all of them. A producer blocks only on a full queue, which has a
  task for every producer there is: this is where `FewProducers` (finitely many,
  and at most as many as places if the queue is bounded) is needed, and
  without it the property is false. A pop takes one task and wakes one producer.
  On an unbounded queue nobody blocks, which is part of the invariant
  because the pops of such a queue notify nobody.
* `Http_proofs`, on `IoBuffer`: the inductive invariant is that the indices are ordered and
  inside the vector (`WellFormed`), and holds for every operation because `MakeSpace`
  is shown to give at least the room asked for while its content stays
  (`SpaceIsMade`): when it compacts, prepend area and free room together have the
  requested bytes, so the copy goes towards the front and ends inside.
  `IsByteQueue` maps every operation to a step of `ByteQueue` on `Content(b)`;
  the lemmas say, for each of the functions the operations are built from, what
  its content is, byte by byte.
* `PollSelector_proofs`: `IndexCorrect` (`TypeOK` and `IndexConsistent`) is
  inductive as it stands: the index map is a bijection onto the places of the
  vector, which the comparison of `Remove` with the *number of entries of the map*
  needs to find the last place. It rests on a lemma about cardinalities: the
  domain of the map is as large as the vector. `Refinement` maps every step
  to one of `InterestMap` or a stutter; in the removal by swapping the interest of the
  moved descriptor is read at its new place.
* `TimerQueue_proofs`: `IInv` adds to `ArmedInTime` and `NoOvertaking` what
  they rest on. `TreeInv`: the entries of the tree are exactly the waiting timers,
  each once; a node serves the timer it was allocated for, or that timer was
  freed and its node took over another entry, as `OrderedMap` allows. `Taken`: the
  timers that `PerTick` took out expired before now, so whatever callbacks add or
  repeat expires later and cannot overtake them. `LoopPlace`: nothing is taken
  out outside `HandleRead`. That the search of `nextId` ends and that a
  tree that is not empty has an earliest entry are lemmas about least elements.
* `TcpServer_proofs`: `IInv` is `Types /\ (late = {} => Good)`. The types hold
  whatever happens, since a step after the use of a closed connection is still a
  step of the model; everything else can only be claimed before. `Good` has
  three parts. `Registry`: channel table and epoll set of a loop have the same
  descriptors and name its connected connections; a connection that waits for
  its `establish` owns its descriptor, without which the registration could hit
  another one. `Output`: what was accepted is what was written and what is
  buffered, and write interest follows the buffer. `Places`: what the functors in the
  queues, the callers and the handlers in progress may still rely on. A queued
  `close` is for a connection that was established; a queued `establish` or
  `erase` is the only one of its kind (`OnceIn`), so a connection is established
  once and its entry erased once; a connection that is not closed is in the table
  under its own identifier or `newConnect` is about to insert it; a closed one has its
  `erase` in the main queue exactly as long as it is there. This last fact
  is `ClosedLeaveTable`; it takes the order of `newConnect` (hand over first, insert
  later) and of the queue into account. A `close` whose channel is
  gone sets `late`, which ends the claim. `TablesAgree`,
  `InterestFollowsOutput`, `BytesInOrder` and `EpollSucceeds` are the other
  consequences.

* `Http_proofs`, on `HttpServer`: `ResponsesInOrder` (`WireInOrder`) is inductive
  with the types (`WireInv`). A step of the connection moves the border between
  `wire` and `out` in the flattened halves of all responses, or appends the two
  of a new one; `Send` goes to the socket only if nothing is buffered, which
  `writable <=> out # <<>>` tells. After `ForceClose` `out` is cut off and the
  wire stays a prefix. `ResponsesMatch` (`AnswersMatchRequests`) needs to know where
  the parser is in the stream of lines, which no property says: `InStep`. As
  long as the requests answered so far were bounded (`AllBounded`: their lines tell
  where they end, or their request line is refused), a parser that expects a
  request line stands at the beginning of the next request, and one that reads headers
  has taken exactly `k` of its lines, has its version and, under `Connection`, the
  value of the last such header among the `k` (`Collected`). `ParserInv`
  gives the place in `onMessage` for each state of the parser and says that a parser
  at a request line has a fresh context: `reset` after each request is what
  keeps the headers of an earlier one out. `NoSurplus` bounds the responses by the
  requests, so that the new response has a request. The last header wins in the
  code by overwriting; that this is `Meaning` is `DecidesByRequest`.
* `Logging_proofs`, on `LogFile`: all three rest on `BaseInv`. It has the types, that
  the wrapper has a `FILE` exactly when it is valid (`WrapperInv`), and that
  different names are different files, that a file which has taken the name of
  the open one is empty, and that names from `rollIndex` on are not open (`DirInv`).
  Most steps add nothing to the files: they are `Losing(b)`, where the open file
  loses `b` at its end because stdio failed, or nothing (`LosesEnd`). The invariants
  are shown for this kind of step once, and for `WriteRound`, `Kill` and the steps
  that open a file by themselves.
  `FlushSurvives` (`FlushedSurvives`) adds `FlushInv`: only the message that is being
  written has characters in the buffer that are not yet reported, and what was
  lost is older than the last restart or was in a buffer that stdio failed to
  write out. A flush that returned covered messages of this run that were
  reported, and all of their characters left the buffer then or, if the
  flush met a roll, when the roll closed the file. `RollKeepsFilesSmall`
  (`RollBound`) adds `GrowthInv`: `written` counts what the open file got in
  this run, a file had at most `Earlier` before it, a message more always fits below
  `Total` when no roll is due (a roll that failed raises `Total` by a message), and
  files whose names are still to come have grown by nothing in this run. `AppendedInOrder`
  (`ContentInOrder`) adds `OrderInv`: with `FilesHold` all characters in files,
  buffer and losses are those of reported messages, which is what makes a message that
  comes later the greatest and new; and `LossInv`: a kill or a failure of stdio loses
  a buffer at most (`OneMore`). These two and `GrowthInv` need `WholeWrites` (without short
  writes a message is written at once). The step is a lemma about the number
  of places of a character when one file grows at its end or loses its end
  (`FoundCut`), which counts like the concatenation of the two parts (`CountConcat`,
  by a bijection onto the places behind the first part).

Only model-checked: all liveness properties (the prover has no rules for
fairness) and everything about `RbTree`. Its loops are recursive operators, with which
the prover loses its arithmetic, and its properties speak of subtrees and of
heights, so what they need is an induction over the tree. `TimerQueue`
is proved over what `OrderedMap` promises; that the tree keeps this promise is
shown by the run alone.

## 5. What the models show besides, and what is not modelled

### Behaviour that no run claims

The following is what the code does. The models contain it; no property excludes
it, and the properties state exactly what holds in spite of it.

* `RunInEvd` wakes the loop only while it runs functors, although the comment
  at `rpc/event_dispatcher.cpp:175` says that only a call in a callback of the loop
  thread needs no wake-up: a functor queued while the loop sleeps waits for the
  timeout of `Select`. `PostedEventuallyRun` does not depend on the wake-up.
* `_stop` set during a write makes the log backend exit without collecting what
  came since (`log/asynclogging.cpp:96`; line 64 says "consume all the
  content"). With no buffer at hand, `continue` at line 70 skips the test of
  `_stop` forever and the destructor hangs; `ShutdownEndsWithBuffer` is the rest.
* `flush()` of the log returns while the backend holds an unwritten buffer;
  `FlushMissesOnlyInHand` says that this is all it misses.
* `findCRLF` ends its search at `start + _writer_index`, past the readable bytes
  when the reader has moved, and finds line ends that were consumed before; a
  `GetUntil` there breaks the assertion of `Seek` (`rpc/io_buffer.cpp:65`).
* Two threads in `AddTimer` may get the same identifier (`NameTimer` twice
  before `PublishTimer`), although `timer_queue_base.h:38` promises a unique one.
  `interval` is the number of calls of the callback: 0 and -1 never call it,
  unlike the comment at `timer_queue_base.h:21`. Two timers with the same expiry:
  the second is lost (`lost`), and cancelling it frees a node of no tree.
* A HTTP request that came together with the previous one is answered only when
  more input arrives. A line without a colon ends the headers; what follows
  is taken for a request line. A response that the socket did not take at once
  is cut off by `ForceClose`.
* A short write makes `AppendFileWrapper::append` write the message from its
  beginning again, and `remain` may wrap around below zero. A file that could
  not be reopened is never opened again by `append`: logging stops, unless a roll
  was due already.
  After a failed roll and a failed reopening the next roll closes NULL.
* The results of `fflush` and `fclose` are discarded (`log/logfile.h:32`, `67`, `94`,
  `100`): a `flush()` that wrote nothing returns like any other, and a roll or a
  reopening whose `fclose` fails loses characters that `append` had reported.
  `ContentInOrder` and `FlushedSurvives` say that this is all that is lost without
  a kill.
* `PollSelector` reports a descriptor with `POLLHUP` or `POLLERR` alone as an event
  without bits; an interrupted `poll` is fatal.

### Not modelled

* `Server` (single-threaded): `TcpServer` with no worker is the same but for the
  erasure of the table entry, which it does at once.
* The life cycle of the `IoWorker`s: the servers live as long as the process.
* The memory behind `Connection::Send(const char *, size_t)`: the functor keeps
  the caller's pointer. A message is a value here.
* Two dispatchers that call `SyncRunInEvd` on each other, and a task that calls
  `addTask` on its own pool: both block for good, neither occurs in the repository.
* Jumps of the wall clock that the timers are set by.
* `PutInt32` and `GetInt32` of the buffer: a put and a get around a byte swap.
* Formatting of log messages, addresses, the symbolisation of crashes, the
  printing of trees, the start-up of the main program, `any`, `Thread`,
  `SharedQueue` (unused): no state over time, or none of their own.
* Declarations without an implementation (`rpc/protobuf`, codec, connector, filters).

## 6. What is left

Every safety property of the runs is a theorem, except those of the tree. To prove
something about it, the loops of `RbTree` would become actions of their own (one
rotation or one recolouring per step), with "red-black but for one node" as
the invariant between them and paths instead of recursive subtrees. Beyond
that: the single-threaded `Server` as a module of its own, and the memory behind
`Connection::Send`.
