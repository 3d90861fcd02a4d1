------------------------------ MODULE EventLoop ------------------------------
(***************************************************************************)
(* The event loop of src/fevent_loop: a main thread that waits in epoll    *)
(* and moves ready descriptors to a priority queue, and pool threads that  *)
(* run their callbacks and re-arm, delete or requeue them.                 *)
(*                                                                         *)
(* The thread pool is taken at what JobPool promises: a FIFO of jobs, each *)
(* run once by one of the Handlers.  Descriptors are registered with       *)
(* EPOLLONESHOT: a report disarms them until EPOLL_CTL_MOD.                *)
(*                                                                         *)
(* A step of the main thread or of a handler is what one critical section, *)
(* one system call or one unlocked read does.                              *)
(***************************************************************************)
EXTENDS Integers, Sequences, FiniteSets

CONSTANTS
    Fds,            \* descriptors that may be watched
    Asyncs,         \* EV_ASYNC events
    Handlers,       \* threads of the pool that can run callbacks at a time
    Lowest,         \* priorities are 0..Lowest, 0 the most urgent
    Prio,           \* the priority of each descriptor and each async event
    AsyncFd,        \* the ev.fd that an async event carries
    IoEvents,       \* the events of descriptors, of EV_READ and EV_WRITE
    AddEvents,      \* what a descriptor is first watched for
    Returns,        \* what a descriptor's callbacks may return
    AsyncReturns,   \* what an async event's callback may return
    AsyncTurns,     \* bound: how often async events are queued in all
    EV_NOBLOCK,     \* ev_loop_run's flags
    EV_EMPTY_NOEXIT,
    MayStop,        \* callbacks may call ev_loop_stop
    MayReadd,       \* EV_CTL_ADD may be called for a watched descriptor
    NoItem

Events == {"EV_READ", "EV_WRITE", "EV_ASYNC", "EV_FIN"}
Priorities == 0..Lowest
Sources == Fds \cup Asyncs

ASSUME LoopAssumption ==
    /\ Fds \cap Asyncs = {} /\ "pipe" \notin Fds
    /\ NoItem \notin Fds /\ \A E \in SUBSET Events : E # NoItem
    /\ Lowest \in Nat
    /\ Prio \in [Sources -> Priorities]
    /\ AsyncFd \in [Asyncs -> Fds]
    /\ IoEvents \subseteq {"EV_READ", "EV_WRITE"}
    /\ AddEvents \in (SUBSET IoEvents) \ {{}}
    /\ Returns \subseteq SUBSET (IoEvents \cup {"EV_FIN"})
    /\ AsyncReturns \subseteq SUBSET {"EV_ASYNC", "EV_FIN"}
    /\ AsyncTurns \in Nat
    /\ {EV_NOBLOCK, EV_EMPTY_NOEXIT, MayStop, MayReadd} \subseteq BOOLEAN

VARIABLES
    running,    \* monitor->running
    mpc,        \* where the main thread is
    reports,    \* epoll_wait's results that main has not used yet: fd -> events,
                \* and "pipe" for the notification pipe
    actives,    \* ... translated to he_list, not yet queued: fd -> events
    found,      \* the descriptor whose watch item main has looked up to queue it
    hp,         \* the priority ev_ready_queue_dispatch is draining
    rqueue,     \* rq->rqueue: the ready items of each priority
    tpq,        \* the pool's job queue: ready items
    h,          \* the handlers
    watch,      \* the watch tree: fd -> w->ev.events, or NoItem
    registered, \* epoll's interest list
    armed,      \* what each registered descriptor is armed for
    pipe,       \* the notification pipe holds a byte
    open,       \* open descriptors
    ready,      \* what could be read or written without blocking
    turns,      \* async events queued so far
    broken      \* a watch item has been freed while in use: undefined from here

mainVars   == <<running, mpc, reports, actives, found, hp>>
queueVars  == <<rqueue, tpq>>
kernelVars == <<registered, armed, open, ready>>
vars == <<mainVars, queueVars, h, watch, kernelVars, pipe, turns, broken>>

IdleHandler == [pc |-> "idle", ri |-> NoItem, ret |-> {}, arg |-> NoItem]

Init ==
    /\ running = FALSE /\ mpc = "out"
    /\ reports = << >> /\ actives = << >> /\ found = NoItem /\ hp = 0
    /\ rqueue = [p \in Priorities |-> <<>>] /\ tpq = <<>>
    /\ h = [x \in Handlers |-> IdleHandler]
    /\ watch = [fd \in Fds |-> NoItem]
    /\ registered = {} /\ armed = [fd \in Fds |-> {}]
    /\ pipe = FALSE
    /\ open = {} /\ ready = [fd \in Fds |-> {}]
    /\ turns = 0 /\ broken = FALSE

-----------------------------------------------------------------------------
(* Mutant: the last priority is not looked at.                             *)
RqEmptyButLast == \A p \in 0..(Lowest - 1) : rqueue[p] = <<>>

RqEmpty == \A p \in Priorities : rqueue[p] = <<>>
TpBusy == tpq # <<>> \/ \E x \in Handlers : h[x].pc # "idle"
WpoolEmpty == \A fd \in Fds : watch[fd] = NoItem
HighestPriority == CHOOSE p \in Priorities :
    rqueue[p] # <<>> /\ \A q \in 0..(p - 1) : rqueue[q] = <<>>

(* Mutant: the item is queued, the main thread is not notified.            *)
MakeReadyQuietly(ri) ==
    /\ rqueue' = [rqueue EXCEPT ![Prio[ri.src]] = Append(@, ri)]
    /\ UNCHANGED pipe

(* ev_ready_queue_make_ready_ri: queue and notify in one critical section. *)
MakeReady(ri) ==
    /\ rqueue' = [rqueue EXCEPT ![Prio[ri.src]] = Append(@, ri)]
    /\ pipe' = TRUE

(* Where the main thread is and goes, and where a handler is.  What        *)
(* follows a use of a freed item is undefined and not modelled.            *)
Main(at) == ~broken /\ mpc = at
Goto(at) == mpc' = at
At(x, at) == ~broken /\ h[x].pc = at

-----------------------------------------------------------------------------
(* The main thread outside ev_loop_run: EV_CTL_ADD and ev_loop_run.        *)

OutsideLoop == Main("out")

(* ev_watch_pool_add before the loop runs, when nobody polls.              *)
MainAdd(fd) ==
    /\ OutsideLoop
    /\ fd \notin open
    /\ open' = open \cup {fd}
    /\ watch' = [watch EXCEPT ![fd] = AddEvents]
    /\ registered' = registered \cup {fd}
    /\ armed' = [armed EXCEPT ![fd] = AddEvents]
    /\ UNCHANGED <<mainVars, queueVars, h, ready, pipe, turns, broken>>

MainAsync(a) ==
    /\ OutsideLoop
    /\ turns < AsyncTurns /\ turns' = turns + 1
    /\ MakeReady([src |-> a, ev |-> {"EV_ASYNC"}])
    /\ UNCHANGED <<mainVars, tpq, h, watch, kernelVars, broken>>

(* The check and the set are apart in the code; main alone calls it.       *)
LoopRun ==
    /\ OutsideLoop
    /\ ~running
    /\ running' = TRUE
    /\ Goto("test_busy")
    /\ UNCHANGED <<reports, actives, found, hp, queueVars, h, watch, kernelVars, pipe, turns, broken>>

-----------------------------------------------------------------------------
(* ev_loop_run: its condition, in the order in which it is evaluated.      *)

TestBusy ==
    /\ Main("test_busy")
    /\ Goto(IF TpBusy THEN "test_running" ELSE "test_rq")

TestRq ==
    /\ Main("test_rq")
    /\ Goto(IF ~RqEmpty THEN "test_running" ELSE "test_wpool")

(* Mutant: "&& running" binds to the last alternative only.                *)
TestWpoolStopped ==
    /\ Main("test_wpool")
    /\ Goto(IF ~WpoolEmpty \/ EV_EMPTY_NOEXIT THEN "choose_wait" ELSE "out")

TestWpool ==
    /\ Main("test_wpool")
    /\ Goto(IF ~WpoolEmpty \/ EV_EMPTY_NOEXIT THEN "test_running" ELSE "out")

TestRunning ==
    /\ Main("test_running")
    /\ Goto(IF running THEN "choose_wait" ELSE "out")

(* With EV_NOBLOCK or items left in the queue, epoll_wait does not block.  *)
ChooseWait ==
    /\ Main("choose_wait")
    /\ Goto(IF EV_NOBLOCK \/ ~RqEmpty THEN "poll" ELSE "block")

(* Mutant: the queue is tested before the pool.                            *)
LoopTestSwapped ==
    /\ \/ Main("test_busy") /\ Goto(IF ~RqEmpty THEN "test_running" ELSE "test_rq")
       \/ Main("test_rq") /\ Goto(IF TpBusy THEN "test_running" ELSE "test_wpool")
       \/ TestWpool \/ TestRunning \/ ChooseWait
    /\ UNCHANGED <<running, reports, actives, found, hp, queueVars, h, watch, kernelVars,
                   pipe, turns, broken>>

LoopTest ==
    /\ TestBusy \/ TestRq \/ TestWpool \/ TestRunning \/ ChooseWait
    /\ UNCHANGED <<running, reports, actives, found, hp, queueVars, h, watch, kernelVars, pipe,
                   turns, broken>>

Triggered == {fd \in registered : armed[fd] \cap ready[fd] # {}}

(* Mutant: registered without EPOLLONESHOT.                                *)
EpollReportAgain ==
    /\ Main("poll") \/ Main("block")
    /\ Triggered # {} \/ pipe
    /\ reports' = [x \in Triggered \cup (IF pipe THEN {"pipe"} ELSE {}) |->
                      IF x \in Fds THEN armed[x] \cap ready[x] ELSE {}]
    /\ Goto("translate")
    /\ UNCHANGED <<running, actives, found, hp, queueVars, h, watch, kernelVars, pipe,
                   turns, broken>>

(* epoll_wait returns at least one event, and disarms the descriptors it   *)
(* reports; the pipe is not EPOLLONESHOT.                                  *)
EpollReport ==
    /\ Main("poll") \/ Main("block")
    /\ Triggered # {} \/ pipe
    /\ reports' = [x \in Triggered \cup (IF pipe THEN {"pipe"} ELSE {}) |->
                      IF x \in Fds THEN armed[x] \cap ready[x] ELSE {}]
    /\ armed' = [fd \in Fds |-> IF fd \in Triggered THEN {} ELSE armed[fd]]
    /\ Goto("translate")
    /\ UNCHANGED <<running, actives, found, hp, queueVars, h, watch, registered, open, ready,
                   pipe, turns, broken>>

(* epoll_wait returns nothing: its timeout, zero or five seconds, is over. *)
EpollTimeout ==
    /\ Main("poll") \/ Main("block")
    /\ Triggered = {} /\ ~pipe
    /\ Goto("count")
    /\ UNCHANGED <<running, reports, actives, found, hp, queueVars, h, watch, kernelVars, pipe,
                   turns, broken>>

(* A signal ends epoll_wait before anything happened: the loop goes round. *)
EpollInterrupted ==
    /\ Main("block")
    /\ Triggered = {} /\ ~pipe
    /\ Goto("test_busy")
    /\ UNCHANGED <<running, reports, actives, found, hp, queueVars, h, watch, kernelVars, pipe,
                   turns, broken>>

Without(f, x) == [y \in DOMAIN f \ {x} |-> f[y]]
With(f, x, v) == [y \in DOMAIN f \cup {x} |-> IF y = x THEN v ELSE f[y]]

(* epoll_wait_events: the pipe is emptied, and each other report filtered  *)
(* by w->ev.events as it is now, read without the lock.  (The item of a    *)
(* descriptor that has left the tree may hold any of these events still.)  *)
Translate ==
    /\ Main("translate")
    /\ \/ /\ "pipe" \in DOMAIN reports
          /\ pipe' = FALSE
          /\ reports' = Without(reports, "pipe")
          /\ UNCHANGED <<mpc, actives>>
       \/ \E fd \in DOMAIN reports \ {"pipe"} :
             /\ \E evs \in IF watch[fd] = NoItem THEN SUBSET reports[fd]
                                               ELSE {reports[fd] \cap watch[fd]} :
                   actives' = With(actives, fd, evs)
             /\ reports' = Without(reports, fd)
             /\ UNCHANGED <<mpc, pipe>>
       \/ /\ DOMAIN reports = {}
          /\ Goto("activate")
          /\ UNCHANGED <<reports, actives, pipe>>
    /\ UNCHANGED <<running, found, hp, queueVars, h, watch, kernelVars, turns, broken>>

(* make_active, for each descriptor: ev_watch_pool_search, under the lock  *)
(* of the tree.  A descriptor that is no longer in it is dropped.          *)
WaitSearch ==
    /\ Main("activate")
    /\ \/ \E fd \in DOMAIN actives :
             IF watch[fd] = NoItem
             THEN actives' = Without(actives, fd) /\ UNCHANGED <<mpc, found>>
             ELSE found' = fd /\ Goto("equeue") /\ UNCHANGED actives
       \/ /\ DOMAIN actives = {}
          /\ Goto("count")
          /\ UNCHANGED <<actives, found>>
    /\ UNCHANGED <<running, reports, hp, queueVars, h, watch, kernelVars, pipe, turns,
                   broken>>

(* ev_ready_queue_wait_equeue: copy the item, without a lock; queue it.    *)
WaitEqueue ==
    /\ Main("equeue")
    /\ rqueue' = [rqueue EXCEPT ![Prio[found]] = Append(@, [src |-> found, ev |-> actives[found]])]
    /\ actives' = Without(actives, found)
    /\ found' = NoItem
    /\ Goto("activate")
    /\ UNCHANGED <<running, reports, hp, tpq, h, watch, kernelVars, pipe, turns, broken>>

(* ev_ready_queue_nready, then the priority that dispatch will drain.      *)
CountReady ==
    /\ Main("count")
    /\ IF RqEmpty
       THEN Goto("test_busy") /\ UNCHANGED hp
       ELSE Goto("drain") /\ hp' = HighestPriority
    /\ UNCHANGED <<running, reports, actives, found, queueVars, h, watch, kernelVars, pipe, turns,
                   broken>>

(* ev_ready_queue_dispatch: hand the items of one priority to the pool     *)
(* until that list is found empty, then empty the pipe.                    *)
Drain ==
    /\ Main("drain") /\ rqueue[hp] # <<>>
    /\ tpq' = Append(tpq, Head(rqueue[hp]))
    /\ rqueue' = [rqueue EXCEPT ![hp] = Tail(@)]
    /\ UNCHANGED <<mainVars, h, watch, kernelVars, pipe, turns, broken>>

Drained ==
    /\ Main("drain") /\ rqueue[hp] = <<>>
    /\ Goto("clear")
    /\ UNCHANGED <<running, reports, actives, found, hp, queueVars, h, watch, kernelVars, pipe,
                   turns, broken>>

ClearNotification ==
    /\ Main("clear")
    /\ pipe' = FALSE
    /\ Goto("test_busy")
    /\ UNCHANGED <<running, reports, actives, found, hp, queueVars, h, watch, kernelVars, turns,
                   broken>>

-----------------------------------------------------------------------------
(* Handlers: event_handler, run by the pool.                               *)

Move(x, at) == h' = [h EXCEPT ![x].pc = at]
Leave(x) == h' = [h EXCEPT ![x] = IdleHandler]

(* The descriptor that EV_CTL_DEL and EV_CTL_MOD are called with.          *)
FdOf(x) == IF h[x].ri.src \in Fds THEN h[x].ri.src ELSE AsyncFd[h[x].ri.src]

HandlerStart(x) ==
    /\ At(x, "idle") /\ tpq # <<>>
    /\ h' = [h EXCEPT ![x].pc = "callback", ![x].ri = Head(tpq)]
    /\ tpq' = Tail(tpq)
    /\ UNCHANGED <<mainVars, rqueue, watch, kernelVars, pipe, turns, broken>>

(* ev_ready_item_dispatch runs no callback for an item without events.     *)
Results(ri) ==
    IF ri.ev = {} THEN {{}} ELSE IF ri.src \in Fds THEN Returns ELSE AsyncReturns

(* Where event_handler goes with what the callbacks returned.  EV_CTL_DEL  *)
(* does nothing for EV_FIN with EV_ASYNC.  (Mutant: it does.)              *)
AfterAnyFin(ret) ==
    IF "EV_FIN" \in ret THEN "del_tree" ELSE IF "EV_ASYNC" \in ret THEN "requeue" ELSE "mod_search"

After(ret) ==
    IF "EV_FIN" \in ret
    THEN IF "EV_ASYNC" \in ret THEN "free_ri" ELSE "del_tree"
    ELSE IF "EV_ASYNC" \in ret THEN "requeue" ELSE "mod_search"

(* The callback may use up what it was called for.                         *)
CallbackReturn(x) ==
    /\ At(x, "callback")
    /\ \E ret \in Results(h[x].ri) :
          IF ret = {}
          THEN Leave(x)
          ELSE h' = [h EXCEPT ![x].ret = ret,
                              ![x].pc = After(ret)]
    /\ \/ UNCHANGED ready
       \/ /\ h[x].ri.src \in Fds
          /\ ready' = [ready EXCEPT ![h[x].ri.src] = @ \ h[x].ri.ev]
    /\ UNCHANGED <<mainVars, queueVars, watch, registered, armed, open, pipe, turns, broken>>

FreeItem(x) ==
    /\ At(x, "free_ri")
    /\ Leave(x)
    /\ UNCHANGED <<mainVars, queueVars, watch, kernelVars, pipe, turns, broken>>

Requeue(x) ==
    /\ At(x, "requeue")
    /\ MakeReady([src |-> h[x].ri.src, ev |-> h[x].ret])
    /\ Leave(x)
    /\ UNCHANGED <<mainVars, tpq, watch, kernelVars, turns, broken>>

(* ev_watch_pool_del: out of the tree, out of epoll, then freed and closed.*)
DelTree(x) ==
    /\ At(x, "del_tree")
    /\ IF watch[FdOf(x)] = NoItem
       THEN Leave(x) /\ UNCHANGED watch
       ELSE Move(x, "del_epoll") /\ watch' = [watch EXCEPT ![FdOf(x)] = NoItem]
    /\ UNCHANGED <<mainVars, queueVars, kernelVars, pipe, turns, broken>>

DelEpoll(x) ==
    /\ At(x, "del_epoll")
    /\ registered' = registered \ {FdOf(x)}
    /\ armed' = [armed EXCEPT ![FdOf(x)] = {}]
    /\ Move(x, "del_free")
    /\ UNCHANGED <<mainVars, queueVars, watch, open, ready, pipe, turns, broken>>

(* Another handler, or main, may still hold a pointer to the item.         *)
ItemInUse(fd, x) ==
    \/ \E y \in Handlers \ {x} : h[y].pc \in {"mod_epoll", "mod_events"} /\ FdOf(y) = fd
    \/ fd \in DOMAIN reports \/ found = fd

DelFree(x) ==
    /\ At(x, "del_free")
    /\ broken' = ItemInUse(FdOf(x), x)
    /\ open' = open \ {FdOf(x)}
    /\ ready' = [ready EXCEPT ![FdOf(x)] = {}]
    /\ Leave(x)
    /\ UNCHANGED <<mainVars, queueVars, watch, registered, armed, pipe, turns>>

(* Mutant: a descriptor that is watched for the same again is left alone.  *)
ModSearchChanged(x) ==
    /\ At(x, "mod_search")
    /\ IF watch[FdOf(x)] \in {NoItem, h[x].ret} THEN Leave(x) ELSE Move(x, "mod_epoll")
    /\ UNCHANGED <<mainVars, queueVars, watch, kernelVars, pipe, turns, broken>>

(* ev_watch_pool_mod: find the item, re-arm the descriptor, and only then  *)
(* record what it is armed for.                                            *)
ModSearch(x) ==
    /\ At(x, "mod_search")
    /\ IF watch[FdOf(x)] = NoItem THEN Leave(x) ELSE Move(x, "mod_epoll")
    /\ UNCHANGED <<mainVars, queueVars, watch, kernelVars, pipe, turns, broken>>

ModEpoll(x) ==
    /\ At(x, "mod_epoll")
    /\ IF FdOf(x) \in registered
       THEN armed' = [armed EXCEPT ![FdOf(x)] = h[x].ret \cap IoEvents] /\ Move(x, "mod_events")
       ELSE Leave(x) /\ UNCHANGED armed
    /\ UNCHANGED <<mainVars, queueVars, watch, registered, open, ready, pipe, turns, broken>>

ModEvents(x) ==
    /\ At(x, "mod_events")
    /\ watch' = [watch EXCEPT ![FdOf(x)] = IF @ = NoItem THEN NoItem ELSE h[x].ret]
    /\ Leave(x)
    /\ UNCHANGED <<mainVars, queueVars, kernelVars, pipe, turns, broken>>

-----------------------------------------------------------------------------
(* What a callback may do before it returns.                               *)

InCallback(x) == At(x, "callback") /\ h[x].ri.ev # {}

(* ev_loop_stop: clear the flag, then notify.                              *)
StopSet(x) ==
    /\ MayStop /\ InCallback(x) /\ running
    /\ running' = FALSE
    /\ Move(x, "stop_notify")
    /\ UNCHANGED <<mpc, reports, actives, found, hp, queueVars, watch, kernelVars, pipe, turns,
                   broken>>

StopNotify(x) ==
    /\ At(x, "stop_notify")
    /\ pipe' = TRUE
    /\ Move(x, "callback")
    /\ UNCHANGED <<mainVars, queueVars, watch, kernelVars, turns, broken>>

CallbackAsync(x, a) ==
    /\ InCallback(x)
    /\ turns < AsyncTurns /\ turns' = turns + 1
    /\ MakeReady([src |-> a, ev |-> {"EV_ASYNC"}])
    /\ UNCHANGED <<mainVars, tpq, h, watch, kernelVars, broken>>

(* A new descriptor is opened and watched: into the tree, then into epoll. *)
AddOpen(x, fd) ==
    /\ InCallback(x)
    /\ fd \notin open \/ (MayReadd /\ watch[fd] # NoItem)
    /\ open' = open \cup {fd}
    /\ h' = [h EXCEPT ![x].pc = "add_tree", ![x].arg = fd]
    /\ UNCHANGED <<mainVars, queueVars, watch, registered, armed, ready, pipe, turns, broken>>

(* For a descriptor that is watched already the new item is freed, which   *)
(* closes the descriptor (and so takes it out of epoll).  Then epoll is    *)
(* asked to add the freed item, and when it refuses, onerr takes the old   *)
(* item out of the tree and frees the new one again: not modelled.         *)
AddTree(x) ==
    /\ At(x, "add_tree")
    /\ LET fd == h[x].arg IN
       IF watch[fd] = NoItem
       THEN /\ watch' = [watch EXCEPT ![fd] = AddEvents]
            /\ Move(x, "add_epoll")
            /\ UNCHANGED <<kernelVars, broken>>
       ELSE /\ open' = open \ {fd}
            /\ registered' = registered \ {fd}
            /\ armed' = [armed EXCEPT ![fd] = {}]
            /\ ready' = [ready EXCEPT ![fd] = {}]
            /\ broken' = TRUE
            /\ UNCHANGED <<watch, h>>
    /\ UNCHANGED <<mainVars, queueVars, pipe, turns>>

AddEpoll(x) ==
    /\ At(x, "add_epoll")
    /\ registered' = registered \cup {h[x].arg}
    /\ armed' = [armed EXCEPT ![h[x].arg] = AddEvents]
    /\ h' = [h EXCEPT ![x].pc = "callback", ![x].arg = NoItem]
    /\ UNCHANGED <<mainVars, queueVars, watch, open, ready, pipe, turns, broken>>

(* Input arrives, or output drains.                                        *)
IoReady(fd, e) ==
    /\ ~broken
    /\ fd \in open /\ e \notin ready[fd]
    /\ ready' = [ready EXCEPT ![fd] = @ \cup {e}]
    /\ UNCHANGED <<mainVars, queueVars, h, watch, registered, armed, open, pipe, turns, broken>>

-----------------------------------------------------------------------------
MainStep ==
    \/ LoopTest
    \/ EpollReport \/ EpollTimeout \/ Translate \/ WaitSearch \/ WaitEqueue
    \/ CountReady \/ Drain \/ Drained \/ ClearNotification

(* What a handler does once its callback has been left alone.              *)
HandlerStep(x) ==
    \/ HandlerStart(x) \/ CallbackReturn(x) \/ FreeItem(x) \/ Requeue(x)
    \/ DelTree(x) \/ DelEpoll(x) \/ DelFree(x)
    \/ ModSearch(x) \/ ModEpoll(x) \/ ModEvents(x)
    \/ StopNotify(x) \/ AddTree(x) \/ AddEpoll(x)

Next ==
    \/ MainStep \/ EpollInterrupted \/ LoopRun
    \/ \E fd \in Fds : MainAdd(fd)
    \/ \E a \in Asyncs : MainAsync(a)
    \/ \E x \in Handlers :
          \/ HandlerStep(x) \/ StopSet(x)
          \/ \E a \in Asyncs : CallbackAsync(x, a)
          \/ \E fd \in Fds : AddOpen(x, fd)
    \/ \E fd \in Fds, e \in IoEvents : IoReady(fd, e)

Spec == Init /\ [][Next]_vars

(* The main thread and the handlers run; callbacks return; nothing is      *)
(* assumed of input, of what callbacks do, or of signals.                  *)
Fairness ==
    /\ WF_vars(MainStep)
    /\ \A x \in Handlers : WF_vars(HandlerStep(x))

FairSpec == Spec /\ Fairness

-----------------------------------------------------------------------------
(* Properties                                                              *)

MainAt == {"out", "test_busy", "test_rq", "test_wpool", "test_running", "choose_wait", "poll",
           "block", "translate", "activate", "equeue", "count", "drain", "clear"}
HandlerAt == {"idle", "callback", "free_ri", "requeue", "del_tree", "del_epoll", "del_free",
              "mod_search", "mod_epoll", "mod_events", "stop_notify", "add_tree", "add_epoll"}
Items == [src : Sources, ev : SUBSET Events]
HandlerStates ==
    [pc : HandlerAt, ri : Items \cup {NoItem}, ret : SUBSET Events, arg : Fds \cup {NoItem}]

(* Every variable has its type.                                            *)
TypeOK ==
    /\ running \in BOOLEAN /\ pipe \in BOOLEAN /\ broken \in BOOLEAN
    /\ mpc \in MainAt /\ hp \in Priorities
    /\ DOMAIN reports \subseteq Fds \cup {"pipe"}
    /\ reports \in [DOMAIN reports -> SUBSET IoEvents]
    /\ DOMAIN actives \subseteq Fds /\ actives \in [DOMAIN actives -> SUBSET IoEvents]
    /\ found \in Fds \cup {NoItem} /\ (mpc = "equeue" => found \in DOMAIN actives)
    /\ rqueue \in [Priorities -> Seq(Items)] /\ tpq \in Seq(Items)
    /\ h \in [Handlers -> HandlerStates]
    /\ \A x \in Handlers :
          /\ h[x].pc # "idle" => h[x].ri \in Items
          /\ h[x].pc \in {"add_tree", "add_epoll"} => h[x].arg \in Fds
    /\ watch \in [Fds -> (SUBSET Events) \cup {NoItem}]
    /\ armed \in [Fds -> SUBSET IoEvents] /\ ready \in [Fds -> SUBSET IoEvents]
    /\ registered \subseteq Fds /\ open \subseteq Fds
    /\ turns \in 0..AsyncTurns

(* The main thread never sleeps in epoll_wait past work that is its own:   *)
(* while it blocks, a queued item or a stop that it has not seen has left  *)
(* a byte in the pipe, or is about to (ev_loop_stop sets, then notifies).  *)
NoLostWakeup ==
    mpc = "block" =>
        /\ RqEmpty \/ pipe
        /\ running \/ pipe \/ \E x \in Handlers : h[x].pc = "stop_notify"

(* event_loop.c:33: the loop ends by itself only when there is no job, no  *)
(* queued item and nothing watched, although it tests the three at         *)
(* different moments while handlers run.                                   *)
ExitMeansNoWork ==
    [][mpc # "out" /\ mpc' = "out" /\ running => ~TpBusy' /\ RqEmpty' /\ WpoolEmpty']_vars

(* Where an event of a descriptor can be between epoll and its callback.   *)
InCallbackOf(fd) ==
    {x \in Handlers : h[x].pc \in {"callback", "stop_notify", "add_tree", "add_epoll"}
                        /\ h[x].ri.src = fd}
EventsOf(fd) ==
    {<<"report", fd>> : y \in DOMAIN reports \cap {fd}}
    \cup {<<"active", fd>> : y \in DOMAIN actives \cap {fd}}
    \cup (UNION {{<<p, i>> : i \in {k \in 1..Len(rqueue[p]) : rqueue[p][k].src = fd}} : p \in Priorities})
    \cup {<<"job", i>> : i \in {k \in 1..Len(tpq) : tpq[k].src = fd}}
    \cup {<<"callback", x>> : x \in InCallbackOf(fd)}

(* EPOLLONESHOT serialises the callbacks of a descriptor: at most one of   *)
(* its events is anywhere between epoll_wait and the return of its         *)
(* callback, and while there is one the descriptor is not armed.           *)
CallbacksSerial ==
    \A fd \in Fds : Cardinality(EventsOf(fd)) + (IF armed[fd] # {} THEN 1 ELSE 0) <= 1

(* What epoll watches is an open descriptor, and a descriptor that can be  *)
(* reported is in the tree, where make_active will look for it: it goes    *)
(* into the tree before epoll and leaves the tree while disarmed, and is   *)
(* closed last, so that its number cannot be reused too early.             *)
ReportsHaveItems ==
    /\ registered \subseteq open
    /\ \A fd \in Fds : armed[fd] # {} \/ fd \in DOMAIN reports \/ fd \in DOMAIN actives
                          => watch[fd] # NoItem

(* Nobody is busy with a descriptor.                                       *)
Quiet(fd) ==
    /\ EventsOf(fd) = {}
    /\ \A x \in Handlers : h[x].pc # "idle" => FdOf(x) # fd /\ h[x].arg # fd

(* fevent.h:38: a callback returns the events that need to be watched      *)
(* next.  A watched descriptor that nobody is busy with is armed for just  *)
(* the events it is watched for.  (As long as its callbacks ask for the    *)
(* same events again and again: a callback that switches may lose it.)     *)
ArmedAsWatched(fd) == watch[fd] # NoItem /\ Quiet(fd) => armed[fd] = watch[fd]
WatchedMeansArmed == \A fd \in Fds : ArmedAsWatched(fd)

(* A handler that runs the callback of fd, or still decides what becomes   *)
(* of fd; and one that adds fd.                                            *)
Holds(x, fd) == h[x].pc \notin {"idle", "mod_events"} /\ h[x].ri.src = fd
Adds(x, fd) == h[x].pc \in {"add_tree", "add_epoll"} /\ h[x].arg = fd

(* fd has been reported and its event not been dealt with, or is added.    *)
ItemIn(s, fd) == \E i \in 1..Len(s) : s[i].src = fd
Away(fd) ==
    \/ fd \in DOMAIN reports \/ fd \in DOMAIN actives
    \/ \E p \in Priorities : ItemIn(rqueue[p], fd)
    \/ ItemIn(tpq, fd)
    \/ \E x \in Handlers : Holds(x, fd) \/ Adds(x, fd)

(* fd is watched, and neither epoll nor a thread will ever come back to it *)
(* by itself.                                                              *)
Forgotten(fd) == watch[fd] # NoItem /\ armed[fd] = {} /\ ~Away(fd)

(* A dispatch of fd ends with no events: its callback returned none, or    *)
(* none was called because the filter had left none.                       *)
ReturnsNothing(fd) ==
    \E x \in Handlers : h[x].pc = "callback" /\ h[x].ri.src = fd /\ h'[x].pc = "idle"

(* Whatever events callbacks ask for, and however often they change their  *)
(* mind, this is the only way in which a watched descriptor is forgotten:  *)
(* no race of handlers that re-arm it, delete it or add it does it.        *)
ForgottenByNothing ==
    [][\A fd \in Fds : Forgotten(fd)' /\ ~Forgotten(fd) => ReturnsNothing(fd)]_vars

(* _ev_watch_item.c:56: adding a descriptor that is watched is refused     *)
(* because it exists already.  It does, and is open, as long as watched    *)
(* descriptors are not added again.  (Refusing closes it: the model stops  *)
(* there, with the descriptor in the tree still; the code goes on with the *)
(* item it has freed, and its onerr may take the old one out.)             *)
WatchedMeansOpen == \A fd \in Fds : watch[fd] # NoItem => fd \in open

(* ev_loop_stop ends the loop.                                             *)
StopEndsLoop == (~running /\ mpc # "out") ~> (mpc = "out")

(* An event that epoll could report reaches its callback, as long as the   *)
(* loop runs.                                                              *)
EventsHandled ==
    \A fd \in Fds : (fd \in Triggered /\ mpc # "out")
                       ~> (InCallbackOf(fd) # {} \/ mpc = "out")
=============================================================================
