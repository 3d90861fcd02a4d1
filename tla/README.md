# Verification of c-liber

TLA+ models of the parts of c-liber that carry its own logic: the thread pool; the
epoll event loop that runs on it; the timers, signals and files that feed the
loop; the containers under all of them (intrusive lists, a red-black tree, a
ternary search tree, an event emitter); the ring buffer, `fd_dump`, which streams
through it, and the buffered reads. TLC checks the models on small instances. TLAPS
proves nearly all the safety properties, and that the pool, the lists and the red-black
tree implement their abstract specifications, for every instance.

Contents: [1 the system](#1-the-system), [2 the modules](#2-the-modules-and-the-code),
[3 the runs](#3-what-the-runs-check), [4 fairness](#4-fairness),
[5 the proofs](#5-what-is-proved), [6 divergences](#6-where-code-and-documentation-disagree),
[7 what is not modelled](#7-what-is-not-modelled), [8 the plan](#8-plan).

## 1 The system

Paths are relative to `src/src/`.

| component | files | state | operations |
|---|---|---|---|
| Thread pool | `system/nx/thread_pool.h`, `system/nx/thread_pool/` | FIFO of jobs, queues of idle and active threads, `t_total`, flags `POOL_BUSY`, `POOL_WAIT`, `POOL_CANCEL`, one mutex, three condition variables | `tp_create`, `tp_queue`, `tp_wait`, `tp_cancel`, `tp_destroy`, `tp_is_busy`, and the life of a worker thread |
| Event loop core | `fevent_loop/` without `_ev_events/` | `running`, the watch tree (descriptor to `ev_watch_item`), ready queues by priority, the notification pipe, epoll's interest list | `ev_loop_run`, `ev_loop_stop`, `ev_monitor_ctl` (add, mod, del), dispatch of callbacks to the pool |
| Timers | `fevent_loop/_ev_events/_timeout.c` | a timerfd for each event | `ev_set_timeout`, `ev_set_interval`, `on_timeout` |
| Signals | `fevent_loop/_ev_events/_signal.c`, `system/nx/sig_utils.c` | the process-wide table `es_data`, dispositions, a pipe for each event | `ev_on_signal`, `s_handler`, `on_sigev` |
| Files | `fevent_loop/_ev_events/_ev_fs/` | a ring buffer, `eof` and `err` | `fs_open`, `fs_read` |
| Red-black tree | `common/ds/rbtree.[ch]` | root; each node's children, parent and colour | `rb_insert`, `rb_erase`, `rb_replace`, `rb_first/last/next/prev`, `rb_destroy` |
| Ternary search tree | `common/ds/tsearch_tree.[ch]` | nodes by character, key count | insert, search, delete, destroy |
| Event emitter | `common/ev_emitter.[ch]` | callback and `once` flag for each name | on, once, off, emit |
| Ring buffer | `system/nx/io/ring_buffer.[ch]` | read and write offset over a region that is mapped twice | commit of writes and reads, counts |
| Stream dump | `system/nx/io/io.[ch]` | a ring buffer, `eof`, the saved flags of two descriptors | `fd_dump` |
| Buffered I/O | `system/nx/io/io.[ch]` | a buffer, what is unread of it | `fd_rbuf_read`, `fd_rbuf_readl`, `writen` |
| Intrusive lists | `common/ds/dlist.h` | `next` and `prev` of every node | insert, delete, move, reverse, splice, search, size |
| Rest | stack, sockets, time, daemon, strings, console, test macros | none of its own, or one pointer | |

How they interact:

* The event loop owns a thread pool (`ev_monitor_create` calls `tp_create`). The
  main thread hands each ready item to it with `tp_queue`; the pool's threads run
  `event_handler`, which calls the user's callback and then puts the descriptor
  back (`ev_watch_pool_mod`), deletes it (`ev_watch_pool_del`) or, for an `EV_ASYNC`
  event, queues it again (`ev_ready_queue_make_ready_ri`). So the watch tree, the
  ready queues, epoll and the pipe are shared by the main thread and all handlers.
* The watch tree is a red-black tree keyed by descriptor.
* Timers, signals and files are clients of `ev_monitor_ctl` with callbacks of their own.
* The pool's jobs and threads and the loop's ready items are in intrusive lists.
* `fs_read` and `fd_dump` fill and drain a ring buffer. The event emitter keeps its
  callbacks in a ternary search tree.

What is hard, by component, and what correctness means there (the list at the
lines where it bites is `hazards` in `PROJECT.json`):

* **Thread pool.** A worker may be cancelled, time out, or be signalled at the
  same moment, and acts on a decision (`t_total > t_min`) taken before it slept.
  A signal can be sent to nobody. A thread exists before it is counted. Correct
  means: no accepted job is lost or run twice; jobs start in order; no caller of
  `tp_wait` or `tp_cancel` sleeps with nobody left to wake it; the pool shrinks;
  `tp_cancel` and `tp_destroy` really outlive the threads.
* **Event loop.** The loop's condition reads three structures at three moments;
  the pipe is emptied while handlers write to it; a descriptor is re-armed before
  its record is updated. Correct means: no item or stop request is slept over; one
  descriptor's callbacks never overlap; what epoll reports has an item; a watched
  descriptor is armed when nobody is busy with it; the loop ends by itself only
  when there is nothing left; a stop ends it and an event reaches its callback.
* **Red-black tree.** The fixups have mirror images and many cases, and a NULL
  leaf can be the node that lacks a black. Correct means: links agree in both
  directions, the colour rules hold, and the order of nodes, equal ones included, is
  that of the insertions.
* **Ring buffer and stream dump.** Reads and writes of any length, in any order,
  with data across the seam of the two mappings; system calls that take part of the
  data, or fail half way through. Correct means: bytes come out in order, none
  overwritten or repeated; no address leaves the mappings; success is reported only
  after everything was written; `select` always has something to wait for; the
  descriptors get their flags back.
* **Timers.** A timer can expire again before, while and after it is read. Correct
  means: no call too early, however late the reads are; an interval goes on.
* **Signals.** The handler interrupts any thread between any two steps of the others.
  Correct means: a signal that arrived is not lost, although the pipe may be full and
  is emptied by the callback; an event that ends does not take the handler from its
  successor.
* **Files.** The callback uses what it likes of what it is offered. Correct means: it
  gets the file in order, and its end once and last.
* **Buffered I/O.** Reads of two kinds share a buffer, over short, failing and
  interrupted reads. Correct means: bytes in order, and 0 only at the end of the file.
* **Lists, search tree, emitter.** Macros assign to nodes that may coincide; a deletion
  writes through a back pointer that was set long before; a callback changes the entry
  that called it. Correct means: the neighbours of a node know it, and each operation does
  to the sequence what its comment says; a search finds what was last inserted; a
  registered callback stays registered.

## 2 The modules and the code

| module | what it is |
|---|---|
| `JobPool` | abstract: what the pool promises its callers, without threads |
| `ThreadPool` | the pool: callers, workers, mutex, condition variables, cancellation |
| `ThreadPoolProofs` | inductive invariants of `ThreadPool`: types, no lost wakeups, `POOL_BUSY` is right, a queued job has a thread, no job lost or repeated; `ThreadPool` implements `JobPool` |
| `MCThreadPool` | symmetry for TLC |
| `EventLoop` | main thread, handlers, watch tree, ready queues, epoll, pipe |
| `EventLoopProofs` | types, no lost wakeups, exit only when idle; a descriptor is in one place at a time, serial callbacks; what forgets a watched descriptor, and which are always armed |
| `MCEventLoop` | priorities, events and callback behaviours for TLC |
| `OrderedList` | abstract: a list of nodes ordered by key, equals by insertion |
| `RBTree` | the tree, one step for the link or unlink and one per fixup iteration |
| `RBTreeProofs` | what each step does to links, colours, black heights and order; the tree is a red-black tree and implements `OrderedList`; lookups agree |
| `RingBuffer` | the doubly mapped buffer, as operators on a record |
| `RingBufferProofs` | lemmas: what a commit of a write adds, what one of a read leaves |
| `FdDump` | `fd_dump`: descriptors, buffer and callback |
| `FdDumpProofs` | the inductive invariant of `FdDump` |
| `Timers` | timer events |
| `Signals` | signal events |
| `FsRead` | `fs_open` and `fs_read` over `RingBuffer` |
| `BufferedIo` | `fd_rbuf_read`, `fd_rbuf_readl`, `writen` |
| `SourcesProofs` | calls are not early; signals are caught and kept; bytes reach `fs_read`'s callback and the buffered readers |
| `Lists` | abstract: heads that stand for sequences |
| `DList` | the rings of `dlist.h`, which implement `Lists` |
| `DListProofs` | neighbours know each other; no ring holds two heads in use; `DList` implements `Lists`; searches agree |
| `TSearchTree` | the ternary search tree on the heap |
| `EvEmitter` | the event emitter, over `TSearchTree` |
| `EmitterProofs` | the search tree loses no node, has no dangling back pointer and finds what was inserted; callbacks given with `on` stay, those given with `once` go |
| `MCSources` | `Signals`, `Timers`, `FsRead` and `BufferedIo` for TLC |
| `MCContainers` | `DList`, `RBTree`, `TSearchTree` and `EvEmitter` for TLC |

`MCSources` and `MCContainers` put several modules that share no state into one
instance. A variable `mode`, chosen once at the start, says which of them a behaviour is about;
the others keep their initial states. So the states add up and do not multiply.

### ThreadPool

The variables are the fields of `struct thread_pool` (`jobq`, `idleq`, `activeq`,
`t_total`, `state`), the mutex, and for each worker and caller where it is in the code.
`idleq` and `activeq` are sets, because the code only tests whether they are
empty and cancels all their members. All accesses are under `pool_mtx`, so a
caller's critical section is one action. A worker holds the mutex across several
actions (`mtx = w`), and while it does nobody else enters.

| actions | code |
|---|---|
| `TpQueue`, `TpWaitCall`/`TpWait`, `TpCancel`/`TpCancelExit`, `TpDestroy` | the functions of that name; `TpWait` and `TpCancelExit` are one turn of their wait loops |
| `CreateWorker`, `ThreadIdle`, `IdleWait`, `IdleBreak`, `TakeJob`, `JobFinish`, `WorkerCleanup` | `create_worker`, `thread_idle`, `job_finish`, `worker_cleanup` |
| `Wake`, `Timeout`, `TimeoutExit`, `CancelIdle`, `JobCancelled` | the ways out of `pthread_cond_(timed)wait`, and a cancellation in a callback |
| `SpuriousWorker`, `SpuriousCaller` | POSIX allows a condition variable to return without a signal |

A thread slot is in state `none` (no thread), `spawned` (`pthread_create` has
returned, the thread has not yet counted itself) and so on; `pthread_create` fails when
no slot is left, or at any time if `SpawnMayFail`. After `tp_destroy` has freed the
pool no step is modelled; `ReapedBeforeFree` says whether one could have followed.

### EventLoop

The thread pool is taken at what `JobPool` promises: items go into `tpq`, and one of
`Handlers` takes the oldest. The main thread's position in `ev_loop_run` is `mpc`:
the loop condition is evaluated in four separate reads (`TestBusy`, `TestRq`,
`TestWpool`, `TestRunning`), then `ChooseWait`, `EpollReport` or `EpollTimeout`,
`Translate` (`epoll_wait_events`), `WaitSearch` and `WaitEqueue` (`make_active`),
`CountReady`, `Drain`, `Drained`, `ClearNotification` (`ev_ready_queue_dispatch`).
A handler's position is `h[x].pc`: `CallbackReturn` and then `Requeue` /
`FreeItem` / `DelTree`, `DelEpoll`, `DelFree` / `ModSearch`, `ModEpoll`, `ModEvents`, one
action for each critical section or system call. During a callback the user may
stop the loop (`StopSet`, `StopNotify`), start an async event, or add a descriptor
(`AddOpen`, `AddTree`, `AddEpoll`).

The kernel is external: `ready[fd]` is what could be read or written, `armed[fd]`
what epoll would report, and `EPOLLONESHOT` is the emptying of `armed` in `EpollReport`.
Where a step would use a freed watch item the model sets `broken` and stops
there: what follows is undefined. What a handler sees of such an item before that
(`Translate` for a descriptor that has left the tree) is a free choice.

### RBTree

`rbt` is the tree: root, children, parent and colour of each node. `RbInsert` and
`RbErase` do all of `rb_insert` and `rb_erase` up to the call of the fixup; each
iteration of a fixup loop is an action (`InsertRecolor`, `InsertRotate`,
`DeleteRecolor`, `DeleteRotate`), and so is the end (`InsertDone`, `DeleteDone`).
Left and right versions of the code are one action with the side as a parameter.
The code is sequential; splitting it exposes what the loops rely on. `RB_MAKE_ORPHAN`
is done when the node is unlinked and not after the fixup, which never visits it.
Inserting a node twice, or erasing one that is not in the tree, is the caller's
error and excluded by guards.

### RingBuffer and FdDump

`rbuf` has the two offsets of `struct ring_buffer` and the shared memory behind
them; `Cell` is the double mapping, and `Store` and `Load` are what `read` and
`write` do to the memory at `write_pos` and `read_pos`. One thread uses the buffer in
both callers (`fd_dump`, and `fs_read` whose callback is never run twice at a time), so
its mutex is not modelled. The k-th byte of the stream is the number k: order, loss
and repetition are then visible in what the other side gets.

`FdDump` has an action for each way in which a system call of the loop can end:
`Select`/`SelectFails`, `ReadSome`/`ReadEof`/`ReadNothing`/`ReadFails`,
`WriteSome`/`WriteNothing`/`WriteFails`, then `Again` or `Finish`; `OnError` is the code
behind `onerr`. `finish_cb` may close the descriptors that it gets. `fcntl` fails
for a descriptor that is not valid, and for no other. `rfd` and `wfd` are different
descriptors; with no `finish_cb` nothing is told and nothing is closed.

### Timers, Signals and FsRead

These three are clients of the loop and take it at what `EventLoop` promises: the callbacks
of a descriptor are serial, and what ended is out of the tree and of epoll before its item is
freed.

* `Timers`: `tstage` is where an event is, `left`, `interval` and `expired` are the
  timerfd, and `Tick` lets time pass between any two steps. `credit` counts the ticks since the
  timer was set, less one delay for each call. A timer that `EV_CTL_ADD` refuses for its
  priority is never freed (`lost`). `HasCallback` says which timers have a `tm_cb`.
* `Signals`: one signal number. `es_data` and `caught` are what the process has,
  `stage` and `bytes` belong to the registrations, `frame[t]` is what `s_handler` in thread t has
  read and not yet written. `SignalArrives` and `HandlerWrites` may come between any
  two steps of `add_signal_ev`, `on_sigev` and `ev_sig_data_free`, each of which has an action for
  each access to `es_data` and each system call. `Mute` are the registrations without a `sig_cb`.
* `FsRead`: `on_open`, then a turn of `on_read` for each time that the loop queues it: one read
  into the ring buffer, one offer of all that is unread. A turn may run in a thread whose `errno` is
  still `EINTR` (`ReadInterrupted`).

### BufferedIo

`buf`, `out` and `unread_num` are the `fd_rbuf_t`; a step is a system call or the copying
between two of them. `IsNewline` is the byte at `out`, which `fd_rbuf_readl` looks at
even when nothing is unread: a byte of an earlier fill, or anything at all behind the buffer.

### Lists, DList, TSearchTree and EvEmitter

Each macro or function is one action: their users hold a lock or are a single thread. In `DList`
the assignments keep their order where nodes can coincide (`Unlink`, then look up the end, in
`list_move_tail`). `stale` has the heads that `list_splice` leaves pointing into another list.

`TSearchTree` keeps the heap (`node`) with the layout of the code: the value sits in a node of its
own whose `r` points back. `Descent` is the path that insertion, search and deletion share: the slots
they go through until one of them `Stops` the key, each `Further` down than the one before. Keys
are sequences of characters, which are numbers other than 0; `char` may be signed, so they may be negative.
Deleting through a NULL back pointer sets `crashed`. `EvEmitter` extends it, with entries as the
values; `calls` is the stack of emissions, since a callback may call the emitter again.

## 3 What the runs check

Every number below is TLC's count of distinct states.

| run | instance | properties | shows |
|---|---|---|---|
| `pool_safety` | 4 slots, limits 1..2, 2 callers, 4 jobs, spurious wakeups, timeouts; 7 000 states | `WaiterHasWaker`, `QueuedJobHasWorker` | wakeups with no cancellation |
| `pool_cancel` | 3 slots, 2 callers that both may cancel, 3 jobs, failing spawns, timeout 0; 26 000 states | `TotalCountsQueues`, `CancellerHasWaker`, `ImplementsJobPool` | counts and the promises of `JobPool` with cancellation and failure |
| `pool_live` | 2 slots, 1 caller that may cancel, 3 jobs; 9 000 states | `EveryJobRuns`, `WaitReturns`, `ShrinksToMin`, `CancelReturns` | nothing waits for ever |
| `loop_safety` | 2 descriptors of different priority, 1 async event that requeues itself, 2 handlers, stops; 197 000 states | `NoLostWakeup`, `CallbacksSerial`, `ReportsHaveItems`, `WatchedMeansArmed`, `ExitMeansNoWork` | the shared structures agree, whatever the interleaving |
| `loop_live` | 1 descriptor and 1 async event of the lowest of two priorities, `EV_EMPTY_NOEXIT`; 11 000 states | `StopEndsLoop`, `EventsHandled` | stops and events get through |
| `fd_dump` | buffer of 3, stream of 7, every outcome of every call; 1 700 states | `RangesMapped`, `StreamKept`, `SuccessMeansStreamed`, `FlagsRestored`, `DumpEnds` | bytes, callback and flags of a dump, and that it ends |
| `sources` | 3 registrations, one without a callback, 2 at a time, 2 threads, pipe of 2; a timer, an interval and a timer without a callback, 2 at a time; a file of 7 through a buffer of 3; a file of 6 with 3 newlines through a buffer of 3; 78 000 states | `WatchedMeansCaught`, `SignalsNotLost`, `SignalCalled`; `TimerNotEarly`, `TimerCalled`; `FileKept`, `FileReadEnds`; `BytesKept`, `ReadFull` | what feeds the loop, and the buffered reads |
| `containers` | 4 entries in 2 lists; 8 tree nodes, two of equal keys; 4 names, with prefixes, in 6 nodes; emissions 2 deep; 33 000 states | `LinksInverse`, `ContainAgrees`, `ImplementsLists`; `RedBlack`, `LookupsAgree`, `ImplementsOrderedList`; `BackPointersSound`, `SearchAgrees`; `OnStays`, `OnceSpent` | the containers are what they stand for |
| `finding_*` | as small as shows it | one property each | see section 6 |

Each property is stated in a comment before its definition. Why the bounds are enough:

* *Pool.* Limits 1 and 2 make a thread surplus, scarce and just right, in turn. With
  three or four slots more threads can exist than `t_num_max` allows, which the
  code permits (section 6). Two callers are what it takes to have one asleep while
  the other acts. Each job is queued once; three or four make a queue of two behind
  two busy threads.
* *Loop.* Two descriptors, so that one callback opens or deletes the other's; two
  handlers, so that one is inside `ev_watch_pool_mod` when another runs the next
  callback of the same descriptor; one async event that may requeue itself without
  end. `AsyncTurns` bounds only how often user code starts one. A descriptor
  number that has been closed may be opened again.
* *Containers.* Four entries and two heads make lists of length 0, 1 and 2, where neighbours
  coincide, and longer ones. The names are the empty one, one that is a prefix of another, and one
  beside them: every shape in which a node is shared. `Below` bounds how far below zero
  `key_num` is counted. With 8 tree nodes every case of both fixups and both sides is met, including deletions
  that climb two levels; TLC's coverage shows every action taken.
* *Stream.* Seven bytes through three cells pass the seam of the mappings at every
  alignment, with reads and writes of one to three bytes.
* *Sources.* Two registrations at a time: one leaves while the next comes, and either may be
  the one whose `sig_cb` is NULL (`TwoEvents`); two threads: a handler is held
  up while another writes; a pipe of two fills up. `Adders = 1` is a premise (section 6).
  Two timers at a time (`TwoTimers`) share nothing but the clock. Both bounds only keep new events
  from being made, which nothing is fair to.
  `Limit` is twice the longest delay, so that an expiration can be missed. The newlines of the buffered
  reads make empty lines, lines across a fill and a last byte that is one.

`CHECK_DEADLOCK FALSE` is set where the system stops by design: a cancelled pool has
no threads, the event loop and the signals stop at `broken`, a search tree at `crashed`, and
`fd_dump` and `fs_read` end.

Type invariants and properties that a theorem states for every instance (`JobInOnePlace`,
`BusyMeansWork`, `ForgottenByNothing`, the `TypeOK`s) are in no run's list; the proofs cover them.

What these runs do not reach: a stale `t_total` in `tp_queue` (no property bounds `t_total`, since
the code does not), two callers in `tp_cancel` or `tp_wait` under fairness (`pool_live` has one), overlapping
registrations for one signal (`WatchedMeansCaught` needs `Adders = 1`), starvation of a lower priority, and
`on_read` at a stale `EINTR`, which `ReadEnds` excuses. Their hazards in `PROJECT.json` say so.

Passing `loop_*` runs let descriptor callbacks return the events they are watched
for, nothing, or `EV_FIN`. `finding_switch` shows what changes when a callback
returns others; `ForgottenByNothing` (section 5) holds for those too.

## 4 Fairness

`ThreadPool!Fairness`: a worker that holds the mutex goes on (weak); a worker or
caller that waits for the mutex gets it if it is free again and again (strong: pthread
mutexes are not queues, but a thread that waits is not passed over for ever); clocks
advance (`Timeout`); a callback returns (`JobFinish`). Nothing is assumed about
what callers call, nor that a cancelled thread reaches a cancellation point in
its callback. `CancelReturns` therefore rests on callbacks that return.

`EventLoop!Fairness`: the main thread takes steps, and each handler, which includes
that its callback returns. `epoll_wait` returns after its timeout of five seconds
(`EpollTimeout`). Input, signals and what callbacks do are not assumed to happen.

`FdDump!Fairness`: `fd_dump` goes on (weak), and its descriptors are not dead: while
it waits for `rfd`, data or end of file arrives again and again, and while it waits for
`wfd`, some data is accepted (strong, on `select` and on the calls). This is a
premise about the descriptors and not a promise of the code: a peer that stops for
ever stops `fd_dump`. No failure is assumed to happen, so a `select` without
descriptors would be stuck and refute `DumpEnds`.

`Signals!Fairness`: threads in `add_signal_ev`, in `s_handler` and in `on_sigev` run on, and
callbacks return. Nothing makes signals arrive, nor pause: `SignalCalled` says that a signal is
called for, or that `s_handler` runs again and again for ever. That excuses more than it would
have to, which is only signals too fast for `on_sigev` to find the pipe empty. `Timers!Fairness`: time
passes and the loop runs. `FsRead!FileFairness`: the turns go on; `ReadEnds` (`FileReadEnds` in
`MCSources`) allows for a
callback that never uses anything and for an `errno` that stays `EINTR`. All of it is what
`EventLoop!Fairness` grants to handlers and callbacks.

## 5 What is proved

For any finite set of thread slots, any callers, cancellers and jobs, any limits with
`t_num_min <= t_num_max`, with or without spawn failures and spurious wakeups
(`PoolAssumption`, which is what `tp_create` checks):

| theorem | module | statement |
|---|---|---|
| `TypeCorrect` | `ThreadPoolProofs` | `Spec => []TypeOK` |
| `TotalCorrect` | `ThreadPoolProofs` | `t_total` is the number of threads on the two queues |
| `NoLostWaiter` | `ThreadPoolProofs` | a caller asleep in `tp_wait` has a waker |
| `NoLostCanceller` | `ThreadPoolProofs` | a caller asleep in `tp_cancel` has a counted thread |
| `BusyIsRight` | `ThreadPoolProofs` | `POOL_BUSY` is set exactly if there is work, when the mutex is free |
| `QueuedJobIsServed` | `ThreadPoolProofs` | a queued job has a thread that is not asleep, if `pthread_create` does not fail and there is a slot |
| `JobsNeitherLostNorRepeated` | `ThreadPoolProofs` | `Spec => []JobInOnePlace` |
| `PoolImplementsJobPool` | `ThreadPoolProofs` | `Spec => ImplementsJobPool` |

The argument goes in layers, each inductive relative to the one below.

1. `ThreadInv`. `t_total >= 0` is not inductive: `worker_cleanup` decrements it
   without a test. It is safe because the thread that leaves is on the idle queue
   and counted. So the invariant ties the queues to the threads' positions
   (`QueueInv`), the mutex to the positions that hold it (`MutexInv`), and `t_total` to
   the queues (`TotalCountsQueues`), and types all of it (`TypeOK`).
2. `WakeInv`. A sleeping waiter implies `POOL_WAIT` and outstanding work;
   the steps that could end the work (`JobFinish`, `ThreadIdle`) look at the flag and
   broadcast; `TpCancel` is the step that breaks it, whence the exception for a cancelled
   pool, and `CancelInv` says that somebody in `tp_cancel` is the same as that flag.
   `CancellerHasWaker` needs the count from layer 1.
3. `BusyInv` and `QueuedInv`. `POOL_BUSY` may be stale while the thread that has just gone
   idle holds the mutex. A queued job has a thread that will look at the queue, or
   all threads are about to exit and none sleeps; then the last one is replaced, since
   `t_total` without it is 0, below any limit.
4. `JobInv`. Jobs are distinct over queue, threads and history, and come from `tp_queue` only:
   lemmas about `Append`, `Tail` and the set of running jobs, one step for each action.

For the refinement every worker and caller step is mapped to one `JobPool` step or to a
stutter (`RefineWorker`, `RefineCaller`); `tp_cancel`'s two waits are one
`JobPool` state, and it is layer 1 that shows that nothing runs when `t_total` is 0.

For any buffer size of at least one byte and any length of the stream
(`SizeAssumption`, `StreamAssumption`), in `FdDumpProofs`:

| theorem | statement |
|---|---|
| `TypeCorrect` | `Spec => []TypeOK` |
| `Ranges` | what is handed to `read` and `write` lies in the two mappings |
| `Stream` | the bytes arrive in order, none lost, none twice |
| `Success` | success is told once and means that everything was delivered |
| `Flags` | flags that were not saved are never set; the caller's flags come back |

Two lemmas of `RingBufferProofs` carry the data: `StoreAppends` (bytes stored in free space follow the unread
ones and change none of them) and `CommitReadDrops` (taking bytes leaves the rest in
place, whether or not the offsets move back); both split on the mapping that an address
is in. `StreamKept` is inductive with `DataCount <= Size`. `SuccessMeansStreamed` needs
`eof => taken = StreamLen` and what `told` may be at each place (`Verdict`);
`FlagsRestored` needs to know where unsaved flags imply that `fd_dump` returns before
it uses them (`FlagsKept`).

For any sets of descriptors, async events and handlers, any number of priorities and any
callbacks (`LoopAssumption`), in `EventLoopProofs`:

| theorem | statement |
|---|---|
| `TypeCorrect` | `Spec => []TypeOK` |
| `NeverSleepsPastWork` | `NoLostWakeup`: who sleeps in `epoll_wait` past an item or a stop has a byte in the pipe, or about to be there |
| `ExitsOnlyIdle` | `ExitMeansNoWork`: when the loop ends by itself, pool, queue and tree are empty |

`NoLostWakeup` is strengthened (`WakeInv`) to every place of the main thread from which it goes to
sleep without looking at the queue again. The loop's tests of pool, queue and tree are
not one: `IdleInv` says that what the earlier ones found still holds at the later ones, because
handlers run in a busy pool only, and nobody but the main thread, which is testing, makes an idle one busy.

In the second part of `EventLoopProofs`, when callers keep two rules that the code does not enforce
(`CallersKeepRules`): an open descriptor is not added again, and an async callback that returns
`EV_FIN` returns `EV_ASYNC` with it:

| theorem | statement |
|---|---|
| `CallbacksAreSerial` | `CallbacksSerial`: one event of a descriptor at a time is between `epoll_wait` and the end of its callback |
| `ReportsFindItems` | `ReportsHaveItems`: what epoll reports is in the tree until it is queued |
| `WatchedStaysOpen` | `WatchedMeansOpen`: nothing in the tree is closed (`finding_readd` breaks the first rule) |

The invariant lists the places where a descriptor can be (armed in epoll, in a report, among the
active, in a ready queue, in a pool job, with a handler, being added) and says that it is in one of
them at most (`Serial`), that it is open wherever it is (`Kept`), and what a handler has established by
the step it is at (`Stage`). Every action then either puts the descriptor nowhere new (`NowhereNew`), moves
it (`Moves`), or brings it in when it was nowhere (`Arrives`). The second rule is about descriptors
that may be watched: `on_open` and `on_read` return `EV_FIN` alone, with the file, or 0, as
their descriptor. That is harmless as long as nothing is watched under that number.

Its third part is about descriptors that are forgotten: watched, armed for nothing, and with nobody
who will come back to them. Under the same two rules:

| theorem | statement |
|---|---|
| `OnlyNothingForgets` | `ForgottenByNothing`: whatever events callbacks return, a descriptor is forgotten only when a dispatch of it ends with no events, returned by its callback or left by the filter |
| `SteadyIsArmed` | in a behaviour in which the callbacks of each descriptor of `Steady` ask for the same events every time unless they end the watch, a watched descriptor of `Steady` with nothing under way is armed for what its item has |
| `WatchedIsArmed` | the corollary for all descriptors: `WatchedMeansArmed` |

The first needs no premise on what callbacks return. It covers callbacks that switch events, as those of
`examples/echo_serv_epoll.c` do, and does not promise that they are called again: in
`finding_switch` it is the filter that leaves no events. For the other two, what a
descriptor asks for (`Asks[fd]`) is one nonempty subset of `AddEvents`, the events it was added with
(`SteadyAssumption`); that its callbacks ask for that set each time is a premise on the
behaviour (`[][AsksAgain]_vars`), and callbacks of other descriptors may switch as they like.
`finding_switch` shows that the premise is needed for the descriptor itself.

The invariant of the first (`HandInv`) adds to `Serial` and `Stage` that what is watched is in epoll or
about to be (`Reached`), and that a handler re-arms a descriptor for some event (`Rearming`). For the
others three more things are tied together: what epoll reports of a descriptor is something it was
asked for (`Delivered`), what an item and a handler carry is what callbacks ask for (`Asked`), and a
descriptor that is in the tree, armed nowhere and in no report is in somebody's hands, or its
handler has re-armed it and has yet to record the events (`Rearmed`, `Recorded`). The last part is
the one that is easily lost: a step that drops a descriptor, as a filter that leaves no event
does, has to be shown impossible.

What feeds the loop, in `SourcesProofs`, for any delays, any size of the pipe and the
buffers, any files and any number of bytes asked for:

| theorem | statement |
|---|---|
| `WatchedSignalIsCaught` | for `Adders = 1`: a watched signal is caught and goes to that event's pipe |
| `ArrivedSignalIsKept` | for any number of adders: an arrived signal is in the pipe or in hand |
| `CallsAreNotEarly` | the n-th call comes no earlier than n delays after the timer was set |
| `FileReachesCallback` | `FileKept`: the callback of `fs_read` gets the file in order, its end once, last and after all of it |
| `BytesReachCallers` | `BytesKept`: buffered reads of both kinds return the file in order |
| `ReadFallsShortByOne` | `ReadFull`: `fd_rbuf_read` returns one byte less than it could at most, and 0 only at the end |

The first rests on `OneOwner`: a registration has `es_data` from `catch_signal` until
`ev_sig_data_free` clears it. `CallsAreNotEarly` rests on `Covered`: the credit covers the time since the last
expiration, and a whole delay for an expiration that is still unread. `FileReachesCallback` uses the
lemmas on the ring buffer again; `FileSeen` relates the buffer to what `read` has yielded
and the callback has used, and `FileTold` what has been told of the end to the stage of the event. For
the buffered reads `IoSeen` says which bytes of the file are in the buffer and in the
caller's hands, and `IoAnswer` what the function may return at each place; after a read that failed
`unread_num` is -1, which both have to count as nothing unread.

The lists, in `DListProofs`, for any finite sets of heads and entries (`NodesAssumption`):

| theorem | statement |
|---|---|
| `NeighboursKnow` | `LinksInverse`: the neighbours of a node know it, and nothing points at a head that `list_splice` has left |
| `OneHeadPerRing` | no ring holds two heads that are in use |
| `RingsAreLists` | `Spec => ImplementsLists`: each operation does to the sequences what its comment says, and nothing to the other lists |
| `SearchesAgree` | `ContainAgrees`: `list_contain`, which searches from both ends, and `list_size` say what the list says |

`LinksInverse` alone is not inductive. `list_splice` of a list into itself would break it, and that two
heads are on different rings is not in the links of either. The invariant adds a colouring of
the nodes that links respect and that tells usable heads apart (`Coloured`). `list_reverse` walks
along `next` and rewrites what it meets: the proof needs that this ring is closed under
`prev` too, which is the pigeonhole principle on a finite set.

The refinement maps a head to what `Along` finds on its ring. Instead of reasoning about that walk at
every step, the invariant says that there are sequences that the links thread (`Threads`: each entry at
its place, between its neighbours, entries of no list alone), and a lemma for each kind of
operation gives the sequences afterwards: an entry goes in, an entry leaves, a list is turned round, a
list goes to the front of another. That `Along` finds these sequences, and no others, is
proved once, by counting the steps of the walk. `list_contain` is a least fixed
point in the proofs: the set of pairs of nodes from which the search succeeds, and the pairs that it
visits are the places k + 1 and k + d + 1 of the list, nearer to each other at every step.

The red-black tree, in `RBTreeProofs`, for any finite set of nodes and any integer keys
(`RbAssumption`):

| theorem | statement |
|---|---|
| `RbTreeOrdered` | `RbSpec => ImplementsOrderedList`: a node goes after the last one that is not greater, erasing a node moves no other, no rotation changes the order |
| `RbLookups` | `LookupsAgree`: `rb_first`, `rb_last`, `rb_next`, `rb_prev` and searches agree with that order |
| `RbTreeSound` | `RedBlack`: at every step of every insertion, erasure and fixup the links match, no red node has a red parent and all paths count the same number of blacks, but for what the fixup at work is there to repair |

`RedBlack` is not inductive, for three reasons.

1. Links that match may still go round in a circle off the root. The invariant says that
   whoever climbs from a node of the tree leaves every set of nodes (`Rooted`). That makes `__rb_min`,
   the descent of `rb_insert` and the heights well defined (`Ends`, `LastOf`, `LastExists`), and it is what
   shows that a node's grandparent is not the node.
2. `EvenBlacks` asks a recursive function for the root's height. The invariant says that there is a
   height for every node (`Even`), where the node that `rb_delete_fixup` is at, or the leaf, counts one
   more. A rotation changes two heights, and it keeps the rest even if the two nodes
   exchange their colours (`EvenRotated`); each case of the fixups is that lemma or
   one of its own (`EvenUncle`, `EvenSibling`, `EvenFar`). That the recursive function has these heights as its only value
   is `EvenHeights`: of the nodes where they differed, one would have no such child.
3. The `NULL` leaf has no parent pointer: the invariant ties `pnode` and `is_right` to it, and
   from the heights follows that the sibling of a node that lacks a black is there (`SiblingHeight`), which
   `rb_delete_fixup` reads without a test in its rotations.

Links, colours and heights are treated apart. Each setter is described once by what it does to the
fields (`SetChildIs`, `SetParentIs`, `SetColorIs`, `TransplantIs`), and the operations by what the tree is afterwards, link by
link (`Rotated`, `Hung`, `Cut`, `Renamed`): an erasure of a node with two children is a cut of
its successor, which then takes its name (`InnerUnlinked`).

The order is an invariant of its own (`Sorted`): there is a sequence of the tree's nodes in which each has its
place and each subtree an interval around its root, ended by the intervals of its children (`Spread`), and keys do not
decrease along it. Stated with intervals it is a property of one node and its children, so that a
rotation (`RotatedLists`), a hung leaf (`HungLists`), a cut (`CutLists`) and a renaming (`RenamedLists`)
are local changes, and the recursive `InOrder` of the refinement is shown to be this sequence once
(`ListsIs`). Equal keys are the delicate case: an insertion goes right of its equals
while rotations bring equals to both sides, and `InsertPlace` shows that the descent still ends
behind the last of them.

### Search tree and event emitter

In `EmitterProofs`, for any keys that are sequences of characters and any values (`TreeAssumption`), any
bound on the nodes, every set of names and callbacks and every depth of nested emissions:

| theorem | statement |
|---|---|
| `TreeIsSound` | `TreeSpec => []BackPointersSound`: no node is lost; a back pointer leads to the node whose `e` the vnode is |
| `TreeSearches` | `TreeSpec => []SearchAgrees`: a search finds what was last inserted for its key and not deleted since |
| `OnCallbackStays` | `EmitterSpec => []OnStays`: a callback given with `on` stays until it is replaced or taken off |
| `OnceCallbackGoes` | `EmitterSpec => []OnceSpent`: outside of emissions a `once` callback that was called is gone |

*The tree.* Nothing in a node says which keys it is for. The invariant (`TreeInv`) says that the nodes
can be labelled: with the one link that holds a node (`up`, `side`), its height (`high`), the characters that
lead to it (`pre`) and the keys whose way goes by it (`via`). `Sound` says what labels have to do
with links: heights fall along them, so that there are no circles; a node's characters and keys follow
from those of the node above. `Spelled` says that the vnodes are the keys of the history `dict`, each
where the way of its key goes by. With heights, `Descent` meets no node twice and ends within `Room`
steps where the key belongs (`WayMeets`, `WayFinds`), which is `SearchAgrees`; `Reachable` is
every node (`ReachableIs`), because a highest node that is not reached would hang from one that is.
The operations change the tree in four ways, and for each there are new labels: a value is written over
(`OverwriteSound`), a vnode comes in front of a node (`FrontSound`: the keys that go on come by
both), a chain is hung into an empty link (`ChainSound`), a vnode is cut off (`CutSound`). What `tst_delete` prunes
on its way back is each time a leaf or nothing (`PruneSound`), and the links further up stay valid because
what is freed is lower (`Ladder`, `BackKeeps`). A back pointer is also `NULL` for some vnodes,
which the invariant allows: `crashed` is reachable (section 6).

*The emitter.* It uses the tree as a tree may be used (`EmitterTree`), so its searches agree. An emission holds a
pointer to an entry across the callback and reads `once` afterwards, when the callback may have
registered the name again, with or without the flag. So the invariant (`EmitterInv`) says whose each
entry is (`EntriesOwned`: one name has it, and no emission has one that is not allocated), that what a name
wants is in its entry with the flag cleared (`WantsKept`), which is why a late return leaves it alone,
and that a spent name's entry has no callback, or has the flag and an emission on the stack that will
see it (`SpentGoes`).

Only model-checked, and why: all liveness (`EveryJobRuns`, `WaitReturns`, `CancelReturns`, `ShrinksToMin`, `StopEndsLoop`,
`EventsHandled`, `DumpEnds`, `SignalCalled`, `TimerCalled`, `FileReadEnds`), which like `ENABLED` is out
of the prover's reach. Every invariant and every refinement that a passing run checks has a theorem. Where
these are about recursive functions (`Along`, `InOrder`, `Descent`, `Reachable`), the proofs do without
an induction principle: that such a function exists and what it is for every argument is shown by a least number
or a least set for which it would be otherwise.

## 6 Where code and documentation disagree

Each of these runs has TLC find a state or behaviour that contradicts a quoted line
(`findings` in `PROJECT.json`).

| run | what happens |
|---|---|
| `finding_destroy` | A thread that exists and has not counted itself is on no queue: `tp_destroy` frees the pool, and the thread then locks its mutex. |
| `finding_waiter` | `tp_cancel` empties the queue and notifies nobody; when no thread is active any more, a caller that sleeps in `tp_wait` sleeps for ever. |
| `finding_switch` | `ev_watch_pool_mod` re-arms the descriptor, then records its new events. An event in between is filtered by the old events to nothing, reaches no callback and leaves the descriptor disarmed. |
| `finding_readd` | `EV_CTL_ADD` for a watched descriptor is refused and frees the new item, which closes the descriptor while its node is in the tree. The model stops there. The code goes on with the freed item (`_ev_watch_pool.c:70`), and its `onerr` path (73-77) takes the old node out and frees the item again. |

Seen while modelling, with no run of their own:

* `tp_queue` compares `t_total` (`_thread_pool.c:128`), which a new thread increments only when it
  runs: calls in a row spawn more than `t_num_max` threads (`thread_pool.h:22`).
* `tst_delete` decrements `key_num` when there is nothing to delete, too; it no longer counts the keys
  then, as `tests/tst_test.c:26` expects of it (`KeyNumCounts`).
* A vnode whose back pointer is NULL crashes `tst_delete`: the empty key's, and that of a key that is inserted
  again below a node that a deletion has left for its siblings (`tsearch_tree.c:124`).
* Two threads in `ev_on_signal` for one signal can both find `es_data` empty; the later takes the
  signal of the first, and `WatchedMeansCaught` fails with `Adders = 2`.
* `s_handler` may have read `es_data` when `ev_sig_data_free` runs, and then writes to a descriptor that
  is closed, or for an event that is freed (`broken`).
* `fd_rbuf_readl` may end a line at a byte that is not there (`io.c:105`), and `fd_rbuf_read` returns one byte less than
  it could.
* A `once` callback that registers itself again with `once` from inside its call is dropped when it
  returns, before that registration was ever called (`ev_emitter.c:88`): `emit_f` sees the new flag.
  `OnceSpent` allows it, and nothing says when such a registration takes effect.
* A signal event without a `sig_cb` ends at its first signal and leaves `s_handler` as the disposition
  (`_signal.c:118`); a timer without a `tm_cb` ends at its first expiration.
* A timer or signal event that `EV_CTL_ADD` refuses for its priority is never freed.
* `ev_loop_run` that ends by itself leaves `running` set (`event_loop.c:79`); the next
  call is refused with "event_loop already running!" (`event_loop.c:28`).
* A failing read makes `fd_dump` call `finish_cb` twice, and a failing
  `ring_buffer_create` makes it return -1 without a call (`io.h:31`).
* `fd_dump` returns -1 after a successful dump if `finish_cb` closed a descriptor.
* `on_read` (`_read.c:45`) tests `errno` when `read` has returned 0, which does not set
  it: with an old `EINTR` there, end of file is never noticed.
* Threads that time out together all exit, so the pool can fall below `t_num_min`
  (`thread_pool.h:21`); `ShrinksToMin` therefore says "or fewer".
* A job for which `tp_queue` returned -1 stays queued and may run (`thread_pool.h:34`).
* `POOL_BUSY` stays set in a cancelled pool; `BusyMeansWork` excepts it.
* `tp_create(0, 3, ...)` gives `t_min = 5` and `t_max = 3`.
* A job queued behind `tp_cancel` keeps the queue from ever being empty, and `tp_cancel`
  from returning; `CancelReturns` assumes there is none.
* A handler between `ev_watch_pool_mod`'s two steps writes to an item that a second
  handler, running the next callback of the descriptor, may have freed (`broken`).
* An async callback that returns `EV_FIN` without `EV_ASYNC`, as `fs_open` and
  `fs_read` do, deletes whatever is watched under its `ev.fd` (0 for `fs_open`).
* Dispatch drains one priority until it is found empty, and lower ones are served only
  when all higher ones are empty: endless async events starve the rest.
* `ev_monitor_free` destroys `run_mtx` before it waits for the pool, whose callbacks
  may call `ev_loop_stop`.
* `rb_replace` leaves the children's parent pointers on the replaced node.

## 7 What is not modelled

* Failures of `malloc`, of mutex and condition variable calls, and of `epoll_ctl`.
* The global list of pools and its lock: one pool is modelled.
* `EV_ERR`, and `EV_CTL_DEL`/`EV_CTL_MOD` called from outside `event_handler`;
  `ev_monitor_create`'s error paths, and `ev_monitor_free`.
* `ring_buffer_reset` and the error paths of `ring_buffer_create`; an `rfd` that is also
  the `wfd`; `fcntl` failing for a valid descriptor.
* Failures of `sigaction`, of `read` on a signal's own pipe, of `timerfd_settime` and of `ring_buffer_create`.
* `get_fd_type`; `rb_replace` (nothing calls it) and `rb_print`; the arguments of an emission.
* Stack, sockets, time, daemon, strings, console and test macros: pointer assignments,
  thin wrappers, formatting and I/O.

## 8 Plan

Done: all of section 2. What would be worth adding, most important first:

1. `ev_monitor_free`, and `EV_CTL_DEL` and `EV_CTL_MOD` from outside handlers, in `EventLoop`.
2. `rb_replace`, should anything come to use it.
