--------------------------- MODULE EventLoopProofs ---------------------------
(* What holds of EventLoop for every set of descriptors, async events and  *)
(* handlers, every number of priorities and every choice of callbacks.     *)
EXTENDS EventLoop, WellFoundedInduction, FiniteSetTheorems, TLAPS

(* A set of natural numbers that is not empty has a least element: what    *)
(* HighestPriority chooses exists.                                         *)
LEMMA LeastElement ==
    ASSUME NEW S \in SUBSET Nat, S # {}
    PROVE  \E m \in S : \A k \in S : ~(k < m)
<1>1. PICK m \in S : \A k \in S : ~(<<k, m>> \in OpToRel(<, Nat))
  BY NatLessThanWellFounded, WFMin, Zenon
<1>2. ASSUME NEW k \in S, k < m PROVE <<k, m>> \in OpToRel(<, Nat)
  <2>1. k \in Nat /\ m \in Nat
    OBVIOUS
  <2>2. <<k, m>> \in {ss \in Nat \X Nat : ss[1] < ss[2]}
    BY <1>2, <2>1
  <2> QED
    BY <2>2 DEF OpToRel
<1> QED
  BY <1>1, <1>2

LEMMA BusyPriority ==
    ASSUME LoopAssumption, ~RqEmpty
    PROVE  HighestPriority \in Priorities /\ rqueue[HighestPriority] # <<>>
<1> DEFINE Busy == {p \in Priorities : rqueue[p] # <<>>}
<1>1. Busy \in SUBSET Nat /\ Busy # {}
  BY DEF RqEmpty, Priorities, LoopAssumption
<1>2. PICK m \in Busy : \A k \in Busy : ~(k < m)
  BY <1>1, LeastElement
<1>3. \A q \in 0..(m - 1) : q \in Priorities /\ q < m
  BY <1>1 DEF Priorities, LoopAssumption
<1>4. \A q \in 0..(m - 1) : rqueue[q] = <<>>
  BY <1>2, <1>3
<1>5. \E p \in Priorities : rqueue[p] # <<>> /\ \A q \in 0..(p - 1) : rqueue[q] = <<>>
  BY <1>4
<1> QED
  BY <1>5, Zenon DEF HighestPriority

(* The steps of the main thread keep the types.                            *)
LEMMA MainKeepsTypes ==
    ASSUME LoopAssumption, TypeOK, MainStep \/ EpollInterrupted \/ LoopRun PROVE TypeOK'
<1> USE DEF TypeOK, mainVars, queueVars, kernelVars, Goto, Main, MainAt
<1>0. ASSUME mpc' \in MainAt \ {"equeue"}, running' \in BOOLEAN, pipe' \in BOOLEAN,
             UNCHANGED <<reports, actives, found, hp, queueVars, h, watch, kernelVars, turns, broken>>
      PROVE  TypeOK'
  BY <1>0
<1>1. ASSUME LoopTest PROVE TypeOK'
  <2>1. mpc' \in MainAt \ {"equeue"}
    BY <1>1 DEF LoopTest, TestBusy, TestRq, TestWpool, TestRunning, ChooseWait
  <2> QED
    BY <1>0, <1>1, <2>1 DEF LoopTest
<1>8. ASSUME EpollInterrupted \/ LoopRun \/ EpollTimeout \/ Drained \/ ClearNotification
      PROVE TypeOK'
  BY <1>0, <1>8 DEF EpollInterrupted, LoopRun, OutsideLoop, EpollTimeout, Drained, ClearNotification
<1>2. ASSUME EpollReport PROVE TypeOK'
  BY <1>2 DEF EpollReport, Triggered
<1>3. ASSUME Translate PROVE TypeOK'
  <2> USE DEF Translate
  <2>1. CASE "pipe" \in DOMAIN reports /\ pipe' = FALSE /\ reports' = Without(reports, "pipe")
             /\ UNCHANGED <<mpc, actives>>
    <3>1. DOMAIN reports' \subseteq Fds \cup {"pipe"} /\ reports' \in [DOMAIN reports' -> SUBSET IoEvents]
      BY <2>1 DEF Without
    <3> QED
      BY <1>3, <2>1, <3>1
  <2>2. CASE \E fd \in DOMAIN reports \ {"pipe"} :
             /\ \E evs \in IF watch[fd] = NoItem THEN SUBSET reports[fd]
                                               ELSE {reports[fd] \cap watch[fd]} :
                   actives' = With(actives, fd, evs)
             /\ reports' = Without(reports, fd)
             /\ UNCHANGED <<mpc, pipe>>
    <3>1. PICK fd \in DOMAIN reports \ {"pipe"} :
             /\ \E evs \in IF watch[fd] = NoItem THEN SUBSET reports[fd]
                                               ELSE {reports[fd] \cap watch[fd]} :
                   actives' = With(actives, fd, evs)
             /\ reports' = Without(reports, fd)
             /\ UNCHANGED <<mpc, pipe>>
      BY <2>2
    <3>2. fd \in Fds /\ reports[fd] \in SUBSET IoEvents
      OBVIOUS
    <3>3. PICK evs \in SUBSET IoEvents : actives' = With(actives, fd, evs)
      BY <3>1, <3>2
    <3>4. DOMAIN actives' \subseteq Fds /\ actives' \in [DOMAIN actives' -> SUBSET IoEvents]
      BY <3>2, <3>3 DEF With
    <3>5. DOMAIN reports' \subseteq Fds \cup {"pipe"} /\ reports' \in [DOMAIN reports' -> SUBSET IoEvents]
      BY <3>1 DEF Without
    <3>6. mpc' # "equeue"
      BY <1>3, <3>1
    <3> QED
      BY <1>3, <3>1, <3>4, <3>5, <3>6
  <2>3. CASE DOMAIN reports = {} /\ Goto("activate") /\ UNCHANGED <<reports, actives, pipe>>
    BY <1>3, <2>3
  <2> QED
    BY <1>3, <2>1, <2>2, <2>3
<1>4. ASSUME WaitSearch PROVE TypeOK'
  <2>1. CASE \E fd \in DOMAIN actives :
             IF watch[fd] = NoItem
             THEN actives' = Without(actives, fd) /\ UNCHANGED <<mpc, found>>
             ELSE found' = fd /\ Goto("equeue") /\ UNCHANGED actives
    <3>1. PICK fd \in DOMAIN actives :
             IF watch[fd] = NoItem
             THEN actives' = Without(actives, fd) /\ UNCHANGED <<mpc, found>>
             ELSE found' = fd /\ Goto("equeue") /\ UNCHANGED actives
      BY <2>1
    <3>2. DOMAIN actives' \subseteq Fds /\ actives' \in [DOMAIN actives' -> SUBSET IoEvents]
      BY <3>1 DEF Without
    <3>3. found' \in Fds \cup {NoItem} /\ mpc' \in MainAt /\ (mpc' = "equeue" => found' \in DOMAIN actives')
      BY <1>4, <3>1 DEF WaitSearch
    <3> QED
      BY <1>4, <3>2, <3>3 DEF WaitSearch
  <2>2. CASE Goto("count") /\ UNCHANGED <<actives, found>>
    BY <1>4, <2>2 DEF WaitSearch
  <2> QED
    BY <1>4, <2>1, <2>2 DEF WaitSearch
<1>5. ASSUME WaitEqueue PROVE TypeOK'
  <2> DEFINE ri == [src |-> found, ev |-> actives[found]]
  <2>1. found \in Fds /\ found \in DOMAIN actives /\ actives[found] \in SUBSET Events
    BY <1>5 DEF WaitEqueue, LoopAssumption, Events
  <2>2. ri \in Items /\ Prio[found] \in Priorities
    BY <2>1 DEF Items, Sources, LoopAssumption
  <2>3. Append(rqueue[Prio[found]], ri) \in Seq(Items)
    BY <2>2
  <2>4. rqueue' \in [Priorities -> Seq(Items)]
    BY <1>5, <2>2, <2>3 DEF WaitEqueue
  <2>5. DOMAIN actives' \subseteq Fds /\ actives' \in [DOMAIN actives' -> SUBSET IoEvents]
    BY <1>5 DEF WaitEqueue, Without
  <2> QED
    BY <1>5, <2>4, <2>5 DEF WaitEqueue
<1>6. ASSUME CountReady PROVE TypeOK'
  BY <1>6, BusyPriority DEF CountReady
<1>7. ASSUME Drain PROVE TypeOK'
  BY <1>7 DEF Drain
<1> QED
  BY <1>1, <1>2, <1>3, <1>4, <1>5, <1>6, <1>7, <1>8 DEF MainStep

LEMMA InitTypes == ASSUME LoopAssumption, Init PROVE TypeOK
<1>1. h \in [Handlers -> HandlerStates] /\ \A x \in Handlers : h[x].pc = "idle"
  BY DEF Init, IdleHandler, HandlerStates, HandlerAt, Events
<1>2. reports \in [DOMAIN reports -> SUBSET IoEvents] /\ DOMAIN reports = {}
  BY DEF Init
<1>3. actives \in [DOMAIN actives -> SUBSET IoEvents] /\ DOMAIN actives = {}
  BY DEF Init
<1>4. rqueue \in [Priorities -> Seq(Items)] /\ tpq \in Seq(Items)
  BY DEF Init
<1>5. running \in BOOLEAN /\ pipe \in BOOLEAN /\ broken \in BOOLEAN
  BY Zenon DEF Init
<1>6. mpc \in MainAt /\ hp \in Priorities /\ found \in Fds \cup {NoItem} /\ mpc # "equeue"
  BY DEF Init, MainAt, Priorities, LoopAssumption
<1>7. /\ watch \in [Fds -> (SUBSET Events) \cup {NoItem}]
      /\ armed \in [Fds -> SUBSET IoEvents] /\ ready \in [Fds -> SUBSET IoEvents]
      /\ registered \subseteq Fds /\ open \subseteq Fds
  BY DEF Init
<1>8. turns \in 0..AsyncTurns
  BY DEF Init, LoopAssumption
<1> QED
  BY <1>1, <1>2, <1>3, <1>4, <1>5, <1>6, <1>7, <1>8 DEF TypeOK

(* What a handler is called with, and the descriptor that stands for.      *)
LEMMA FdOfIsFd ==
    ASSUME LoopAssumption, TypeOK, NEW x \in Handlers, h[x].pc # "idle"
    PROVE  FdOf(x) \in Fds
BY DEF LoopAssumption, TypeOK, FdOf, Items, Sources

(* An item that is queued has the type of items.                           *)
LEMMA QueueKeepsType ==
    ASSUME LoopAssumption, TypeOK, NEW ri \in Items, MakeReady(ri)
    PROVE  rqueue' \in [Priorities -> Seq(Items)] /\ pipe' \in BOOLEAN
<1>1. Prio[ri.src] \in Priorities
  BY DEF Items, LoopAssumption
<1>2. Append(rqueue[Prio[ri.src]], ri) \in Seq(Items)
  BY <1>1 DEF TypeOK
<1> QED
  BY <1>2 DEF MakeReady, TypeOK

(* How a handler that moves, or is done, changes the states of the handlers.*)
HandlersOK ==
    /\ h \in [Handlers -> HandlerStates]
    /\ \A x \in Handlers :
          /\ h[x].pc # "idle" => h[x].ri \in Items
          /\ h[x].pc \in {"add_tree", "add_epoll"} => h[x].arg \in Fds

LEMMA HandlerMoves ==
    ASSUME HandlersOK, NEW x \in Handlers, NEW at \in HandlerAt, Move(x, at), h[x].pc # "idle",
           at \in {"add_tree", "add_epoll"} => h[x].arg \in Fds
    PROVE  /\ HandlersOK'
           /\ h'[x] = [pc |-> at, ri |-> h[x].ri, ret |-> h[x].ret, arg |-> h[x].arg]
           /\ \A y \in Handlers \ {x} : h'[y] = h[y]
<1>1. h[x] \in HandlerStates
  BY DEF HandlersOK
<1>2. h'[x] = [pc |-> at, ri |-> h[x].ri, ret |-> h[x].ret, arg |-> h[x].arg]
  BY <1>1 DEF Move, HandlersOK, HandlerStates
<1>3. h'[x] \in HandlerStates
  BY <1>1, <1>2 DEF HandlerStates
<1>4. DOMAIN h' = Handlers /\ \A y \in Handlers \ {x} : h'[y] = h[y]
  BY DEF Move, HandlersOK
<1>5. h' = [y \in Handlers |-> h'[y]]
  BY DEF Move, HandlersOK
<1>6. h' \in [Handlers -> HandlerStates]
  BY <1>3, <1>4, <1>5 DEF HandlersOK
<1> QED
  BY <1>2, <1>4, <1>6 DEF HandlersOK

LEMMA HandlerLeaves ==
    ASSUME HandlersOK, NEW x \in Handlers, Leave(x)
    PROVE  /\ HandlersOK'
           /\ h'[x] = IdleHandler
           /\ \A y \in Handlers \ {x} : h'[y] = h[y]
<1>1. IdleHandler \in HandlerStates
  BY DEF HandlerStates, IdleHandler, HandlerAt, Events
<1> QED
  BY <1>1 DEF Leave, HandlersOK, IdleHandler

LEMMA HandlerTakes ==
    ASSUME HandlersOK, NEW x \in Handlers, NEW ri \in Items,
           h' = [h EXCEPT ![x].pc = "callback", ![x].ri = ri]
    PROVE  /\ HandlersOK'
           /\ h'[x] = [pc |-> "callback", ri |-> ri, ret |-> h[x].ret, arg |-> h[x].arg]
           /\ \A y \in Handlers \ {x} : h'[y] = h[y]
<1>1. h[x] \in HandlerStates /\ DOMAIN h = Handlers
  BY DEF HandlersOK
<1>2. h'[x] = [pc |-> "callback", ri |-> ri, ret |-> h[x].ret, arg |-> h[x].arg]
  BY <1>1 DEF HandlerStates
<1>3. h'[x] \in HandlerStates
  BY <1>1, <1>2 DEF HandlerStates, HandlerAt
<1>4. DOMAIN h' = Handlers /\ \A y \in Handlers \ {x} : h'[y] = h[y]
  BY <1>1
<1>5. h' = [y \in Handlers |-> h'[y]]
  BY <1>1
<1>6. h' \in [Handlers -> HandlerStates]
  BY <1>3, <1>4, <1>5 DEF HandlersOK
<1> QED
  BY <1>2, <1>4, <1>6 DEF HandlersOK

LEMMA HandlerReturns ==
    ASSUME HandlersOK, NEW x \in Handlers, NEW ret \in SUBSET Events, NEW at \in HandlerAt,
           h[x].ri \in Items, at \notin {"add_tree", "add_epoll"},
           h' = [h EXCEPT ![x].ret = ret, ![x].pc = at]
    PROVE  /\ HandlersOK'
           /\ h'[x] = [pc |-> at, ri |-> h[x].ri, ret |-> ret, arg |-> h[x].arg]
           /\ \A y \in Handlers \ {x} : h'[y] = h[y]
<1>1. h[x] \in HandlerStates /\ DOMAIN h = Handlers
  BY DEF HandlersOK
<1>2. h'[x] = [pc |-> at, ri |-> h[x].ri, ret |-> ret, arg |-> h[x].arg]
  BY <1>1 DEF HandlerStates
<1>3. h'[x] \in HandlerStates
  BY <1>1, <1>2 DEF HandlerStates, HandlerAt
<1>4. DOMAIN h' = Handlers /\ \A y \in Handlers \ {x} : h'[y] = h[y]
  BY <1>1
<1>5. h' = [y \in Handlers |-> h'[y]]
  BY <1>1
<1>6. h' \in [Handlers -> HandlerStates]
  BY <1>3, <1>4, <1>5 DEF HandlersOK
<1> QED
  BY <1>2, <1>4, <1>6 DEF HandlersOK

Adding(x, at, fd) == h' = [h EXCEPT ![x].pc = at, ![x].arg = fd]

LEMMA HandlerAdds ==
    ASSUME HandlersOK, NEW x \in Handlers, NEW at \in HandlerAt, NEW fd \in Fds \cup {NoItem},
           h[x].ri \in Items, at \in {"add_tree", "add_epoll"} => fd \in Fds,
           Adding(x, at, fd)
    PROVE  /\ HandlersOK'
           /\ h'[x] = [pc |-> at, ri |-> h[x].ri, ret |-> h[x].ret, arg |-> fd]
           /\ \A y \in Handlers \ {x} : h'[y] = h[y]
<1>1. h[x] \in HandlerStates /\ DOMAIN h = Handlers
  BY DEF HandlersOK
<1>2. h'[x] = [pc |-> at, ri |-> h[x].ri, ret |-> h[x].ret, arg |-> fd]
  BY <1>1 DEF HandlerStates, Adding
<1>3. h'[x] \in HandlerStates
  BY <1>1, <1>2 DEF HandlerStates, HandlerAt
<1>4. DOMAIN h' = Handlers /\ \A y \in Handlers \ {x} : h'[y] = h[y]
  BY <1>1 DEF Adding
<1>5. h' = [y \in Handlers |-> h'[y]]
  BY <1>1 DEF Adding
<1>6. h' \in [Handlers -> HandlerStates]
  BY <1>3, <1>4, <1>5 DEF HandlersOK
<1> QED
  BY <1>2, <1>4, <1>6 DEF HandlersOK

LEMMA TypesOfHandlers == ASSUME TypeOK PROVE HandlersOK
BY DEF TypeOK, HandlersOK

(* The steps of a handler keep the types.                                  *)
LEMMA HandlerKeepsTypes ==
    ASSUME LoopAssumption, TypeOK, NEW x \in Handlers, HandlerStep(x) \/ StopSet(x)
    PROVE  TypeOK'
<1> USE DEF At, mainVars, queueVars, kernelVars
<1>f. h[x].pc # "idle" => FdOf(x) \in Fds
  BY FdOfIsFd
<1>h. HandlersOK
  BY TypesOfHandlers
(* It is enough that h, and what the step changes besides, keep theirs.    *)
<1>k. ASSUME HandlersOK', UNCHANGED mainVars, rqueue' \in [Priorities -> Seq(Items)],
             tpq' \in Seq(Items), pipe' \in BOOLEAN, broken' \in BOOLEAN,
             watch' \in [Fds -> (SUBSET Events) \cup {NoItem}],
             armed' \in [Fds -> SUBSET IoEvents], ready' \in [Fds -> SUBSET IoEvents],
             registered' \subseteq Fds, open' \subseteq Fds, UNCHANGED turns
      PROVE  TypeOK'
  BY <1>k DEF TypeOK, HandlersOK
<1>1. ASSUME HandlerStart(x) PROVE TypeOK'
  <2>1. Head(tpq) \in Items /\ tpq' \in Seq(Items)
    BY <1>1 DEF HandlerStart, TypeOK
  <2>3. HandlersOK'
    BY <1>1, <1>h, <2>1, HandlerTakes DEF HandlerStart
  <2> QED
    BY <1>1, <1>k, <2>1, <2>3 DEF HandlerStart, TypeOK
<1>2. ASSUME CallbackReturn(x) PROVE TypeOK'
  <2>1. PICK ret \in Results(h[x].ri) :
          IF ret = {}
          THEN Leave(x)
          ELSE h' = [h EXCEPT ![x].ret = ret,
                              ![x].pc = After(ret)]
    BY <1>2 DEF CallbackReturn
  <2>2. ret \in SUBSET Events
    BY <2>1 DEF Results, Events, LoopAssumption
  <2>3. After(ret) \in {"free_ri", "del_tree", "requeue", "mod_search"}
    BY DEF After
  <2>4. ASSUME ret # {} PROVE HandlersOK'
    <3>1. After(ret) \in HandlerAt /\ After(ret) \notin {"add_tree", "add_epoll"}
      BY <2>3 DEF HandlerAt
    <3>2. h[x].ri \in Items /\ h' = [h EXCEPT ![x].ret = ret, ![x].pc = After(ret)]
      BY <1>2, <1>h, <2>1, <2>4 DEF CallbackReturn, HandlersOK
    <3> QED
      BY <1>h, <2>2, <3>1, <3>2, HandlerReturns
  <2>5. HandlersOK'
    BY <1>h, <2>1, <2>4, HandlerLeaves
  <2>6. ready' \in [Fds -> SUBSET IoEvents]
    BY <1>2 DEF CallbackReturn, TypeOK
  <2> QED
    BY <1>2, <1>k, <2>5, <2>6 DEF CallbackReturn, TypeOK
<1>3. ASSUME FreeItem(x) \/ DelTree(x) \/ DelEpoll(x) \/ DelFree(x) \/ ModSearch(x) \/ ModEpoll(x)
             \/ ModEvents(x) \/ StopNotify(x) \/ StopSet(x)
      PROVE TypeOK'
  <2>1. h[x].pc # "idle"
    BY <1>3 DEF FreeItem, DelTree, DelEpoll, DelFree, ModSearch, ModEpoll, ModEvents, StopNotify,
                StopSet, InCallback
  <2>2. ASSUME Leave(x) PROVE HandlersOK'
    BY <1>h, <2>2, HandlerLeaves
  <2>3. ASSUME NEW at \in {"del_epoll", "del_free", "mod_epoll", "mod_events", "callback", "stop_notify"},
               Move(x, at)
        PROVE  HandlersOK'
    <3>1. at \in HandlerAt /\ at \notin {"add_tree", "add_epoll"}
      BY DEF HandlerAt
    <3> QED
      BY <1>h, <2>1, <2>3, <3>1, HandlerMoves
  <2>h. HandlersOK'
    BY <1>3, <2>2, <2>3 DEF FreeItem, DelTree, DelEpoll, DelFree, ModSearch, ModEpoll, ModEvents,
                StopNotify, StopSet, InCallback
  <2>4. CASE FreeItem(x)
    BY <2>4, <2>h, <1>k DEF FreeItem, TypeOK
  <2>5. CASE StopNotify(x)
    BY <2>5, <2>h, <1>k DEF StopNotify, TypeOK
  <2>6. CASE StopSet(x)
    BY <2>6, <2>h DEF StopSet, TypeOK, HandlersOK
  <2>7. CASE ModSearch(x)
    BY <2>7, <2>h, <1>k DEF ModSearch, TypeOK
  <2>8. CASE DelTree(x)
    BY <1>f, <2>1, <2>8, <2>h, <1>k DEF DelTree, TypeOK
  <2>9. CASE DelEpoll(x)
    BY <1>f, <2>1, <2>9, <2>h, <1>k DEF DelEpoll, TypeOK
  <2>10. CASE DelFree(x)
    <3>1. broken' \in BOOLEAN
      BY <2>10, Zenon DEF DelFree, ItemInUse
    <3> QED
      BY <1>f, <2>1, <2>10, <2>h, <3>1, <1>k DEF DelFree, TypeOK
  <2>11. CASE ModEpoll(x)
    <3>1. armed' \in [Fds -> SUBSET IoEvents]
      <4>1. CASE armed' = [armed EXCEPT ![FdOf(x)] = h[x].ret \cap IoEvents]
        BY <1>f, <2>1, <4>1 DEF TypeOK
      <4>2. CASE armed' = armed
        BY <4>2 DEF TypeOK
      <4> QED
        BY <2>11, <4>1, <4>2 DEF ModEpoll
    <3> QED
      BY <2>11, <2>h, <3>1, <1>k DEF ModEpoll, TypeOK
  <2>12. CASE ModEvents(x)
    <3>1. h[x].ret \in SUBSET Events
      BY <1>h DEF HandlersOK, HandlerStates
    <3>2. watch' \in [Fds -> (SUBSET Events) \cup {NoItem}]
      BY <1>f, <2>1, <2>12, <3>1 DEF ModEvents, TypeOK
    <3> QED
      BY <2>12, <2>h, <3>2, <1>k DEF ModEvents, TypeOK
  <2> QED
    BY <1>3, <2>4, <2>5, <2>6, <2>7, <2>8, <2>9, <2>10, <2>11, <2>12
<1>4. ASSUME Requeue(x) PROVE TypeOK'
  <2>1. [src |-> h[x].ri.src, ev |-> h[x].ret] \in Items
    BY <1>4, <1>h DEF Requeue, Items, HandlersOK, HandlerStates
  <2>2. rqueue' \in [Priorities -> Seq(Items)] /\ pipe' \in BOOLEAN
    BY <1>4, <2>1, QueueKeepsType DEF Requeue
  <2> QED
    BY <1>4, <1>h, <1>k, <2>2, HandlerLeaves DEF Requeue, TypeOK
<1>5. ASSUME AddTree(x) PROVE TypeOK'
  <2>1. h[x].arg \in Fds /\ AddEvents \in SUBSET Events
    BY <1>5, <1>h DEF AddTree, LoopAssumption, Events, HandlersOK
  <2>2. CASE watch[h[x].arg] = NoItem
    <3>1. HandlersOK'
      BY <1>5, <1>h, <2>1, <2>2, HandlerMoves DEF AddTree, HandlerAt
    <3> QED
      <4>1. watch' = [watch EXCEPT ![h[x].arg] = AddEvents] /\ UNCHANGED <<kernelVars, broken, mainVars, queueVars, pipe, turns>>
        BY <1>5, <2>2 DEF AddTree
      <4>2. watch' \in [Fds -> (SUBSET Events) \cup {NoItem}]
        BY <2>1, <4>1 DEF TypeOK
      <4> QED
        BY <1>k, <3>1, <4>1, <4>2 DEF TypeOK
  <2>3. CASE watch[h[x].arg] # NoItem
    <3>1. HandlersOK' /\ broken' \in BOOLEAN /\ UNCHANGED watch
      BY <1>5, <1>h, <2>3 DEF AddTree, HandlersOK
    <3>2. /\ armed' \in [Fds -> SUBSET IoEvents] /\ ready' \in [Fds -> SUBSET IoEvents]
          /\ registered' \subseteq Fds /\ open' \subseteq Fds
      <4>1. /\ open' = open \ {h[x].arg} /\ registered' = registered \ {h[x].arg}
            /\ armed' = [armed EXCEPT ![h[x].arg] = {}] /\ ready' = [ready EXCEPT ![h[x].arg] = {}]
        BY <1>5, <2>3 DEF AddTree
      <4> QED
        BY <2>1, <4>1 DEF TypeOK
    <3> QED
      BY <1>5, <1>k, <3>1, <3>2 DEF AddTree, TypeOK
  <2> QED
    BY <2>2, <2>3
<1>6. ASSUME AddEpoll(x) PROVE TypeOK'
  <2>1. h[x].arg \in Fds /\ AddEvents \in SUBSET IoEvents
    BY <1>6, <1>h DEF AddEpoll, LoopAssumption, HandlersOK
  <2>3. HandlersOK'
    <3>1. "callback" \in HandlerAt /\ h[x].ri \in Items
      BY <1>6, <1>h DEF AddEpoll, HandlerAt, HandlersOK
    <3>2. Adding(x, "callback", NoItem)
      BY <1>6 DEF AddEpoll, Adding
    <3>3. NoItem \in Fds \cup {NoItem} /\ "callback" \notin {"add_tree", "add_epoll"}
      OBVIOUS
    <3> QED
      BY <1>h, <3>1, <3>2, <3>3, HandlerAdds
  <2> QED
    BY <1>6, <1>k, <2>1, <2>3 DEF AddEpoll, TypeOK
<1> QED
  BY <1>1, <1>2, <1>3, <1>4, <1>5, <1>6 DEF HandlerStep

(* What is asked of the loop from outside, or from a callback, keeps them. *)
LEMMA CallsKeepTypes ==
    ASSUME LoopAssumption, TypeOK,
           \/ \E fd \in Fds : MainAdd(fd)
           \/ \E a \in Asyncs : MainAsync(a)
           \/ \E x \in Handlers : \/ \E a \in Asyncs : CallbackAsync(x, a)
                                  \/ \E fd \in Fds : AddOpen(x, fd)
           \/ \E fd \in Fds, e \in IoEvents : IoReady(fd, e)
    PROVE  TypeOK'
<1> USE DEF TypeOK, mainVars, queueVars, kernelVars
<1>1. ASSUME NEW fd \in Fds, MainAdd(fd) PROVE TypeOK'
  BY <1>1 DEF MainAdd, OutsideLoop, Main, LoopAssumption, Events
<1>2. ASSUME NEW a \in Asyncs, MainAsync(a) \/ \E x \in Handlers : CallbackAsync(x, a) PROVE TypeOK'
  <2>1. [src |-> a, ev |-> {"EV_ASYNC"}] \in Items
    BY DEF Items, Sources, Events
  <2>2. rqueue' \in [Priorities -> Seq(Items)] /\ pipe' \in BOOLEAN
    BY ZenonT(30), <1>2, <2>1, QueueKeepsType DEF MainAsync, CallbackAsync
  <2>3. turns' \in 0..AsyncTurns
    BY <1>2 DEF MainAsync, CallbackAsync, LoopAssumption
  <2> QED
    BY <1>2, <2>2, <2>3 DEF MainAsync, CallbackAsync
<1>3. ASSUME NEW x \in Handlers, NEW fd \in Fds, AddOpen(x, fd) PROVE TypeOK'
  <2>2. HandlersOK'
    <3>1. Adding(x, "add_tree", fd) /\ "add_tree" \in HandlerAt /\ h[x].ri \in Items
      BY <1>3 DEF AddOpen, Adding, InCallback, At, HandlerAt
    <3> QED
      BY <3>1, TypesOfHandlers, HandlerAdds
  <2> QED
    BY <1>3, <2>2 DEF AddOpen, HandlersOK
<1>4. ASSUME NEW fd \in Fds, NEW e \in IoEvents, IoReady(fd, e) PROVE TypeOK'
  BY <1>4 DEF IoReady
<1> QED
  BY <1>1, <1>2, <1>3, <1>4

LEMMA NextKeepsTypes == ASSUME LoopAssumption, TypeOK, [Next]_vars PROVE TypeOK'
<1>1. CASE UNCHANGED vars
  BY <1>1 DEF TypeOK, vars, mainVars, queueVars, kernelVars
<1> QED
  BY <1>1, MainKeepsTypes, HandlerKeepsTypes, CallsKeepTypes DEF Next

(* Every variable has its type in every state of the loop.                 *)
THEOREM TypeCorrect == ASSUME LoopAssumption PROVE Spec => []TypeOK
<1>1. Init => TypeOK
  BY InitTypes
<1>2. TypeOK /\ [Next]_vars => TypeOK'
  BY NextKeepsTypes
<1> QED
  BY <1>1, <1>2, PTL DEF Spec

-----------------------------------------------------------------------------
(* The main thread never sleeps past work.                                 *)

(* A handler's step leaves the other handlers alone, and one that is about *)
(* to notify the main thread does it.                                      *)
HandlerActs(x) == HandlerStep(x) \/ StopSet(x) \/ \E fd \in Fds : AddOpen(x, fd)

LEMMA HandlerFrame ==
    ASSUME TypeOK, NEW x \in Handlers, HandlerActs(x)
    PROVE  /\ mpc' = mpc
           /\ \A y \in Handlers \ {x} : h'[y] = h[y]
           /\ h[x].pc = "stop_notify" => pipe'
           /\ pipe => pipe'
           /\ rqueue' = rqueue \/ pipe'
           /\ running' = running \/ h'[x].pc = "stop_notify"
<1> USE DEF TypeOK, At, Move, Leave, mainVars, queueVars, kernelVars
<1>1. CASE HandlerStart(x)
  BY <1>1 DEF HandlerStart
<1>2. CASE CallbackReturn(x)
  BY <1>2 DEF CallbackReturn
<1>3. CASE FreeItem(x) \/ Requeue(x)
  BY <1>3 DEF FreeItem, Requeue, MakeReady
<1>4. CASE DelTree(x) \/ DelEpoll(x) \/ DelFree(x)
  BY <1>4 DEF DelTree, DelEpoll, DelFree
<1>5. CASE ModSearch(x) \/ ModEpoll(x) \/ ModEvents(x)
  BY <1>5 DEF ModSearch, ModEpoll, ModEvents
<1>6. CASE StopNotify(x)
  BY <1>6 DEF StopNotify
<1>7. CASE AddTree(x) \/ AddEpoll(x) \/ \E fd \in Fds : AddOpen(x, fd)
  BY <1>7 DEF AddTree, AddEpoll, AddOpen, InCallback
<1>8. CASE StopSet(x)
  <2>1. h'[x].pc = "stop_notify"
    BY <1>8, TypesOfHandlers, HandlerMoves DEF StopSet, InCallback, HandlerAt
  <2> QED
    BY <1>8, <2>1 DEF StopSet, InCallback
<1> QED
  BY <1>1, <1>2, <1>3, <1>4, <1>5, <1>6, <1>7, <1>8 DEF HandlerActs, HandlerStep

Notifying == \E x \in Handlers : h[x].pc = "stop_notify"

(* The inductive form: from the test of running on, a stop that follows is *)
(* notified, and what is queued after the choice to block is notified too. *)
WakeInv ==
    /\ mpc \in {"choose_wait", "block"} => running \/ pipe \/ Notifying
    /\ mpc = "block" => RqEmpty \/ pipe

LEMMA WakeInductive ==
    ASSUME LoopAssumption, TypeOK, WakeInv, [Next]_vars
    PROVE  WakeInv'
<1> USE DEF WakeInv, Goto, Main
<1>1. ASSUME NEW x \in Handlers, HandlerActs(x) PROVE WakeInv'
  <2>1. CASE pipe'
    BY <2>1
  <2>2. CASE ~pipe'
    <3>1. rqueue' = rqueue /\ mpc' = mpc /\ ~pipe /\ h[x].pc # "stop_notify"
      BY <1>1, <2>2, HandlerFrame
    <3>2. Notifying => Notifying'
      BY <1>1, <3>1, HandlerFrame DEF Notifying
    <3>3. running' = running \/ Notifying'
      BY <1>1, HandlerFrame DEF Notifying
    <3> QED
      BY <3>1, <3>2, <3>3 DEF RqEmpty
  <2> QED
    BY <2>1, <2>2
<1>2. ASSUME LoopTest PROVE WakeInv'
  <2>1. UNCHANGED <<running, pipe, Notifying, RqEmpty>>
    BY <1>2 DEF LoopTest, queueVars, Notifying, RqEmpty
  <2>2. CASE TestRunning
    BY <2>1, <2>2 DEF TestRunning
  <2>3. CASE ChooseWait
    BY <2>1, <2>3 DEF ChooseWait
  <2>4. CASE TestBusy \/ TestRq \/ TestWpool
    BY <2>4 DEF TestBusy, TestRq, TestWpool
  <2> QED
    BY <1>2, <2>2, <2>3, <2>4 DEF LoopTest
<1>3. ASSUME mpc' \notin {"choose_wait", "block"} PROVE WakeInv'
  BY <1>3
<1>4. ASSUME EpollReport \/ EpollTimeout \/ Translate \/ WaitSearch \/ WaitEqueue \/ CountReady
             \/ Drain \/ Drained \/ ClearNotification \/ EpollInterrupted \/ LoopRun
      PROVE  mpc' \notin {"choose_wait", "block"}
  BY <1>4 DEF EpollReport, EpollTimeout, Translate, WaitSearch, WaitEqueue, CountReady, Drain,
       Drained, ClearNotification, EpollInterrupted, LoopRun, mainVars
<1>5. ASSUME \/ \E fd \in Fds : MainAdd(fd)
             \/ \E a \in Asyncs : MainAsync(a)
      PROVE  mpc' \notin {"choose_wait", "block"}
  BY <1>5 DEF MainAdd, MainAsync, OutsideLoop, mainVars
<1>6. ASSUME NEW x \in Handlers, NEW a \in Asyncs, CallbackAsync(x, a) PROVE WakeInv'
  BY <1>6 DEF CallbackAsync, MakeReady, mainVars
<1>7. ASSUME \/ \E fd \in Fds, e \in IoEvents : IoReady(fd, e)
             \/ UNCHANGED vars
      PROVE WakeInv'
  BY <1>7 DEF IoReady, vars, mainVars, queueVars, RqEmpty, Notifying
<1> QED
  BY <1>1, <1>2, <1>3, <1>4, <1>5, <1>6, <1>7 DEF Next, MainStep, HandlerActs

(* While the main thread blocks in epoll_wait, an item or a stop that it   *)
(* has not seen has left a byte in the pipe or is about to: ev_loop_run    *)
(* and the two critical sections that notify never miss each other.        *)
THEOREM NeverSleepsPastWork == ASSUME LoopAssumption PROVE Spec => []NoLostWakeup
<1>1. Init => TypeOK /\ WakeInv
  BY InitTypes DEF Init, WakeInv
<1>2. TypeOK /\ WakeInv /\ [Next]_vars => TypeOK' /\ WakeInv'
  BY NextKeepsTypes, WakeInductive
<1>3. WakeInv => NoLostWakeup
  BY DEF WakeInv, NoLostWakeup, Notifying
<1> QED
  BY <1>1, <1>2, <1>3, PTL DEF Spec

-----------------------------------------------------------------------------
(* The loop ends by itself only when nothing is left to do.                *)

(* The inductive form: once the pool has been seen idle nothing can start  *)
(* a handler or queue an item but the main thread, which is testing.       *)
IdleInv ==
    /\ mpc \in {"test_rq", "test_wpool"} => ~TpBusy
    /\ mpc = "test_wpool" => RqEmpty

LEMMA IdleInductive ==
    ASSUME LoopAssumption, TypeOK, IdleInv, [Next]_vars
    PROVE  IdleInv'
<1> USE DEF IdleInv, Goto, Main
<1>1. ASSUME NEW x \in Handlers, HandlerActs(x) PROVE IdleInv'
  <2>1. TpBusy
    BY <1>1 DEF HandlerActs, HandlerStep, HandlerStart, CallbackReturn, FreeItem, Requeue, DelTree,
         DelEpoll, DelFree, ModSearch, ModEpoll, ModEvents, StopNotify, AddTree, AddEpoll, StopSet,
         AddOpen, InCallback, At, TpBusy
  <2> QED
    BY <1>1, <2>1, HandlerFrame
<1>2. ASSUME LoopTest PROVE IdleInv'
  BY <1>2 DEF LoopTest, TestBusy, TestRq, TestWpool, TestRunning, ChooseWait, RqEmpty, TpBusy,
       queueVars
<1>3. ASSUME mpc' \notin {"test_rq", "test_wpool"} PROVE IdleInv'
  BY <1>3
<1>4. ASSUME EpollReport \/ EpollTimeout \/ Translate \/ WaitSearch \/ WaitEqueue \/ CountReady
             \/ Drain \/ Drained \/ ClearNotification \/ EpollInterrupted \/ LoopRun
      PROVE  mpc' \notin {"test_rq", "test_wpool"}
  BY <1>4 DEF EpollReport, EpollTimeout, Translate, WaitSearch, WaitEqueue, CountReady, Drain,
       Drained, ClearNotification, EpollInterrupted, LoopRun, mainVars
<1>5. ASSUME \/ \E fd \in Fds : MainAdd(fd)
             \/ \E a \in Asyncs : MainAsync(a)
      PROVE  mpc' \notin {"test_rq", "test_wpool"}
  BY <1>5 DEF MainAdd, MainAsync, OutsideLoop, mainVars
<1>6. ASSUME NEW x \in Handlers, NEW a \in Asyncs, CallbackAsync(x, a) PROVE IdleInv'
  BY <1>6 DEF CallbackAsync, InCallback, At, TpBusy, mainVars
<1>7. ASSUME \/ \E fd \in Fds, e \in IoEvents : IoReady(fd, e)
             \/ UNCHANGED vars
      PROVE IdleInv'
  BY <1>7 DEF IoReady, vars, mainVars, queueVars, RqEmpty, TpBusy
<1> QED
  BY <1>1, <1>2, <1>3, <1>4, <1>5, <1>6, <1>7 DEF Next, MainStep, HandlerActs

LEMMA ExitIsIdle ==
    ASSUME LoopAssumption, TypeOK, IdleInv, [Next]_vars, mpc # "out", mpc' = "out", running
    PROVE  ~TpBusy' /\ RqEmpty' /\ WpoolEmpty'
<1> USE DEF Goto, Main
<1>1. ASSUME NEW x \in Handlers, HandlerActs(x) \/ \E a \in Asyncs : CallbackAsync(x, a) PROVE FALSE
  BY <1>1, HandlerFrame DEF CallbackAsync, mainVars
<1>2. ASSUME ~LoopTest PROVE FALSE
  BY <1>1, <1>2 DEF Next, MainStep, HandlerActs, EpollReport, EpollTimeout, Translate, WaitSearch,
       WaitEqueue, CountReady, Drain, Drained, ClearNotification, EpollInterrupted, LoopRun,
       MainAdd, MainAsync, OutsideLoop, IoReady, vars, mainVars
<1>3. mpc = "test_wpool" /\ WpoolEmpty
  BY <1>2 DEF LoopTest, TestBusy, TestRq, TestWpool, TestRunning, ChooseWait
<1>4. UNCHANGED <<rqueue, tpq, h, watch>>
  BY <1>2 DEF LoopTest, queueVars
<1> QED
  BY <1>3, <1>4 DEF IdleInv, TpBusy, RqEmpty, WpoolEmpty

(* event_loop.c:33: though ev_loop_run looks at the pool, the queue and    *)
(* the tree one after the other while handlers run, at the moment when it  *)
(* returns by itself all three are empty.                                  *)
THEOREM ExitsOnlyIdle == ASSUME LoopAssumption PROVE Spec => ExitMeansNoWork
<1>1. Init => TypeOK /\ IdleInv
  BY InitTypes DEF Init, IdleInv
<1>2. TypeOK /\ IdleInv /\ [Next]_vars => TypeOK' /\ IdleInv'
  BY NextKeepsTypes, IdleInductive
<1>3. TypeOK /\ IdleInv /\ [Next]_vars
        => [mpc # "out" /\ mpc' = "out" /\ running => ~TpBusy' /\ RqEmpty' /\ WpoolEmpty']_vars
  BY ExitIsIdle
<1> QED
  BY <1>1, <1>2, <1>3, PTL DEF Spec, ExitMeansNoWork

-----------------------------------------------------------------------------
(***************************************************************************)
(* EPOLLONESHOT serialises the callbacks of a descriptor, however many     *)
(* descriptors, handlers and priorities there are, when the two rules are  *)
(* kept that the code leaves to its callers: a descriptor that is open is  *)
(* not added again, and the callback of an async event does not end it     *)
(* with EV_FIN alone (which would delete the descriptor that the event     *)
(* carries).                                                               *)
(***************************************************************************)
CallersKeepRules ==
    /\ ~MayReadd
    /\ \A ret \in AsyncReturns : "EV_FIN" \in ret => "EV_ASYNC" \in ret

(* Where fd can be: k names the kind of the place, a and b tell the places *)
(* of a kind apart.  To be armed is to be in the hands of epoll.           *)
Held(fd, k, a, b) ==
    \/ k = "armed" /\ a = 0 /\ b = 0 /\ armed[fd] # {}
    \/ k = "report" /\ a = 0 /\ b = 0 /\ fd \in DOMAIN reports
    \/ k = "active" /\ a = 0 /\ b = 0 /\ fd \in DOMAIN actives
    \/ k = "queued" /\ a \in Priorities /\ b \in 1..Len(rqueue[a]) /\ rqueue[a][b].src = fd
    \/ k = "job" /\ a = 0 /\ b \in 1..Len(tpq) /\ tpq[b].src = fd
    \/ k = "handler" /\ a \in Handlers /\ b = 0 /\ Holds(a, fd)
    \/ k = "adding" /\ a \in Handlers /\ b = 0 /\ Adds(a, fd)

(* fd is in one place at most.                                             *)
Serial(fd) ==
    \A k, a, b, l, c, d : Held(fd, k, a, b) /\ Held(fd, l, c, d) => k = l /\ a = c /\ b = d

(* It is open wherever it is, and in the tree as long as epoll or the main *)
(* thread has it.                                                          *)
Kept(fd) ==
    /\ \A k, a, b : Held(fd, k, a, b) => fd \in open
    /\ armed[fd] # {} => fd \in registered
    /\ fd \in registered => fd \in open
    /\ watch[fd] # NoItem => fd \in open
    /\ armed[fd] # {} \/ fd \in DOMAIN reports \/ fd \in DOMAIN actives => watch[fd] # NoItem

(* What a handler has found, or made, of its descriptor is still so.       *)
Stage(x) ==
    /\ h[x].pc \in {"del_tree", "del_epoll", "del_free", "mod_search", "mod_epoll", "mod_events"}
          => h[x].ri.src \in Fds
    /\ h[x].pc \in {"requeue", "free_ri"} => h[x].ri.src \notin Fds
    /\ h[x].pc \in {"del_epoll", "del_free"} => watch[h[x].ri.src] = NoItem
    /\ h[x].pc = "del_free" => h[x].ri.src \notin registered
    /\ h[x].pc = "mod_epoll" => watch[h[x].ri.src] # NoItem
    /\ h[x].pc = "add_tree" => watch[h[x].arg] = NoItem
    /\ h[x].pc = "add_epoll" => watch[h[x].arg] # NoItem

Placed ==
    /\ \A fd \in Fds : Serial(fd) /\ Kept(fd)
    /\ \A x \in Handlers : Stage(x)

SerialInv == TypeOK /\ Placed

LEMMA Kinds ==
    ASSUME NEW fd
    PROVE  /\ Held(fd, "armed", 0, 0) <=> armed[fd] # {}
           /\ Held(fd, "report", 0, 0) <=> fd \in DOMAIN reports
           /\ Held(fd, "active", 0, 0) <=> fd \in DOMAIN actives
           /\ \A y \in Handlers : Held(fd, "handler", y, 0) <=> Holds(y, fd)
           /\ \A y \in Handlers : Held(fd, "adding", y, 0) <=> Adds(y, fd)
<1>1. \A y \in Handlers : Held(fd, "handler", y, 0) <=> Holds(y, fd)
  BY DEF Held
<1>2. \A y \in Handlers : Held(fd, "adding", y, 0) <=> Adds(y, fd)
  BY DEF Held
<1> QED
  BY <1>1, <1>2 DEF Held

-----------------------------------------------------------------------------
(* Steps by what they do to the places of a descriptor.                    *)

(* A step that puts fd nowhere new keeps it in one place.                  *)
LEMMA NowhereNew ==
    ASSUME NEW fd \in Fds, Serial(fd), \A k, a, b : Held(fd, k, a, b)' => Held(fd, k, a, b)
    PROVE  Serial(fd)'
BY DEF Serial

(* A step that moves fd: it leaves the place where it was for another.     *)
MovesTo(fd, k, a, b, l, c, d) ==
    /\ Held(fd, k, a, b) /\ ~Held(fd, k, a, b)'
    /\ \A m, e, f : Held(fd, m, e, f)' => Held(fd, m, e, f) \/ (m = l /\ e = c /\ f = d)

LEMMA Moves ==
    ASSUME NEW fd \in Fds, Serial(fd), NEW k, NEW a, NEW b, NEW l, NEW c, NEW d,
           MovesTo(fd, k, a, b, l, c, d)
    PROVE  Serial(fd)' /\ \A m, e, f : Held(fd, m, e, f)' => m = l
<1> DEFINE Was(m, e, f) == Held(fd, m, e, f)
           Is(m, e, f) == Held(fd, m, e, f)'
<1>1. \A m, e, f : Was(m, e, f) => m = k /\ e = a /\ f = b
  BY DEF Serial, MovesTo
<1>2. \A m, e, f : Is(m, e, f) => m = l /\ e = c /\ f = d
  BY <1>1 DEF MovesTo
<1>3. \A m, e, f, n, g, i : Is(m, e, f) /\ Is(n, g, i) => m = n /\ e = g /\ f = i
  BY <1>2
<1> QED
  BY <1>2, <1>3 DEF Serial

(* A step that puts fd somewhere when it was nowhere.                      *)
ArrivesAt(fd, l, c, d) ==
    /\ \A m, e, f : ~Held(fd, m, e, f)
    /\ \A m, e, f : Held(fd, m, e, f)' => Held(fd, m, e, f) \/ (m = l /\ e = c /\ f = d)

LEMMA Arrives ==
    ASSUME NEW fd \in Fds, NEW l, NEW c, NEW d, ArrivesAt(fd, l, c, d)
    PROVE  Serial(fd)'
BY DEF Serial, ArrivesAt

(* The watched and the open descriptors stay what they are for fd.         *)
SameKeeping(fd) ==
    /\ fd \in open => fd \in open'
    /\ fd \in registered' <=> fd \in registered
    /\ watch'[fd] = NoItem <=> watch[fd] = NoItem

(* A step that does not concern fd.                                        *)
LEMMA Untouched ==
    ASSUME NEW fd \in Fds, Serial(fd), Kept(fd), SameKeeping(fd),
           \A k, a, b : Held(fd, k, a, b)' => Held(fd, k, a, b)
    PROVE  Serial(fd)' /\ Kept(fd)'
<1>1. Serial(fd)'
  BY NowhereNew
<1>2. \A k, a, b : Held(fd, k, a, b)' => fd \in open'
  BY DEF Kept, SameKeeping
<1>3. /\ armed'[fd] # {} => armed[fd] # {}
      /\ fd \in DOMAIN reports' => fd \in DOMAIN reports
      /\ fd \in DOMAIN actives' => fd \in DOMAIN actives
  <2>1. /\ Held(fd, "armed", 0, 0)' => Held(fd, "armed", 0, 0)
        /\ Held(fd, "report", 0, 0)' => Held(fd, "report", 0, 0)
        /\ Held(fd, "active", 0, 0)' => Held(fd, "active", 0, 0)
    OBVIOUS
  <2> QED
    BY <2>1 DEF Held
<1> QED
  BY <1>1, <1>2, <1>3 DEF Kept, SameKeeping

(* Who holds or adds fd is alone with it.                                  *)
LEMMA HolderAlone ==
    ASSUME NEW fd \in Fds, NEW x \in Handlers, Serial(fd), Holds(x, fd)
    PROVE  /\ armed[fd] = {} /\ fd \notin DOMAIN reports /\ fd \notin DOMAIN actives
           /\ \A y \in Handlers : ~Adds(y, fd) /\ (Holds(y, fd) => y = x)
<1>1. Held(fd, "handler", x, 0)
  BY DEF Held
<1>2. ~Held(fd, "armed", 0, 0) /\ ~Held(fd, "report", 0, 0) /\ ~Held(fd, "active", 0, 0)
  BY <1>1 DEF Serial
<1>3. ASSUME NEW y \in Handlers PROVE ~Adds(y, fd) /\ (Holds(y, fd) => y = x)
  <2>1. ~Held(fd, "adding", y, 0) /\ (Held(fd, "handler", y, 0) => y = x)
    BY <1>1 DEF Serial
  <2> QED
    BY <2>1, Kinds
<1>4. armed[fd] = {} /\ fd \notin DOMAIN reports /\ fd \notin DOMAIN actives
  BY <1>2, Kinds
<1> QED
  BY <1>3, <1>4

LEMMA AdderAlone ==
    ASSUME NEW fd \in Fds, NEW x \in Handlers, Serial(fd), Adds(x, fd)
    PROVE  /\ armed[fd] = {} /\ fd \notin DOMAIN reports /\ fd \notin DOMAIN actives
           /\ \A y \in Handlers : ~Holds(y, fd) /\ (Adds(y, fd) => y = x)
<1>1. Held(fd, "adding", x, 0)
  BY DEF Held
<1>2. ~Held(fd, "armed", 0, 0) /\ ~Held(fd, "report", 0, 0) /\ ~Held(fd, "active", 0, 0)
  BY <1>1 DEF Serial
<1>3. ASSUME NEW y \in Handlers PROVE ~Holds(y, fd) /\ (Adds(y, fd) => y = x)
  <2>1. ~Held(fd, "handler", y, 0) /\ (Held(fd, "adding", y, 0) => y = x)
    BY <1>1 DEF Serial
  <2> QED
    BY <2>1, Kinds
<1>4. armed[fd] = {} /\ fd \notin DOMAIN reports /\ fd \notin DOMAIN actives
  BY <1>2, Kinds
<1> QED
  BY <1>3, <1>4

(* The stage of a handler stays true when what it has found is left alone. *)
LEMMA SameStage ==
    ASSUME NEW y \in Handlers, Stage(y), h'[y] = h[y],
           h[y].pc \in {"del_epoll", "del_free", "mod_epoll"} => SameKeeping(h[y].ri.src),
           h[y].pc \in {"add_tree", "add_epoll"} => SameKeeping(h[y].arg)
    PROVE  Stage(y)'
BY DEF Stage, SameKeeping

(* A handler that goes on with its item, or is done.                       *)
GoesOn(x) ==
    /\ \A y \in Handlers \ {x} : h'[y] = h[y]
    /\ \/ h'[x].pc = "idle"
       \/ /\ h'[x].ri = h[x].ri /\ h'[x].arg = h[x].arg
          /\ h[x].pc \notin {"idle", "mod_events"}
          /\ h'[x].pc \in {"add_tree", "add_epoll"} => h[x].pc \in {"add_tree", "add_epoll"}

LEMMA GoesOnHolds ==
    ASSUME NEW x \in Handlers, GoesOn(x), NEW fd \in Fds, NEW y \in Handlers
    PROVE  (Holds(y, fd)' => Holds(y, fd)) /\ (Adds(y, fd)' => Adds(y, fd))
BY DEF GoesOn, Holds, Adds

LEMMA GoesOnNowhereNew ==
    ASSUME NEW x \in Handlers, GoesOn(x), NEW fd \in Fds,
           UNCHANGED <<reports, actives, rqueue, tpq>>, armed'[fd] # {} => armed[fd] # {}
    PROVE  \A k, a, b : Held(fd, k, a, b)' => Held(fd, k, a, b)
BY GoesOnHolds DEF Held

-----------------------------------------------------------------------------
(* The main thread and epoll.                                              *)

LEMMA SameKept ==
    ASSUME SerialInv, UNCHANGED <<h, watch, registered, open>>
    PROVE  (\A fd \in Fds : SameKeeping(fd)) /\ (\A x \in Handlers : Stage(x)')
<1>1. \A fd : SameKeeping(fd)
  BY DEF SameKeeping
<1>2. ASSUME NEW x \in Handlers PROVE Stage(x)'
  BY DEF SerialInv, Placed, Stage
<1> QED
  BY <1>1, <1>2

(* Steps that move no descriptor.                                          *)
LEMMA NothingMoves ==
    ASSUME SerialInv, UNCHANGED <<reports, actives, rqueue, tpq, h, watch, registered, armed, open>>
    PROVE  Placed'
<1>1. ASSUME NEW fd \in Fds PROVE \A k, a, b : Held(fd, k, a, b)' => Held(fd, k, a, b)
  BY DEF Held, Holds, Adds
<1>2. ASSUME NEW fd \in Fds PROVE Serial(fd)' /\ Kept(fd)'
  BY <1>1, SameKept, Untouched DEF SerialInv, Placed
<1> QED
  BY <1>2, SameKept DEF Placed

(* epoll_wait: from being armed to the reports.                            *)
LEMMA ReportPlaced == ASSUME LoopAssumption, SerialInv, EpollReport PROVE Placed'
<1> USE DEF EpollReport, SerialInv, TypeOK
<1>1. UNCHANGED <<actives, rqueue, tpq, h, watch, registered, open>>
  BY DEF queueVars
<1>2. (\A fd \in Fds : SameKeeping(fd)) /\ (\A x \in Handlers : Stage(x)')
  BY <1>1, SameKept
<1>3. ASSUME NEW fd \in Fds PROVE Serial(fd)' /\ Kept(fd)'
  <2>1. fd # "pipe"
    BY DEF LoopAssumption
  <2>2. CASE fd \notin Triggered
    <3>1. armed'[fd] = armed[fd] /\ fd \notin DOMAIN reports'
      BY <2>1, <2>2
    <3>2. \A k, a, b : Held(fd, k, a, b)' => Held(fd, k, a, b)
      BY <1>1, <3>1 DEF Held, Holds, Adds
    <3> QED
      BY <1>2, <3>2, Untouched DEF Placed
  <2>3. CASE fd \in Triggered
    <3>1. armed[fd] # {} /\ armed'[fd] = {}
      BY <2>3 DEF Triggered
    <3>2. Held(fd, "armed", 0, 0) /\ ~Held(fd, "armed", 0, 0)'
      BY <3>1 DEF Held
    <3>3. \A m, e, f : Held(fd, m, e, f)' => Held(fd, m, e, f) \/ (m = "report" /\ e = 0 /\ f = 0)
      BY <1>1, <3>1 DEF Held, Holds, Adds
    <3>4. Serial(fd)' /\ \A m, e, f : Held(fd, m, e, f)' => m = "report"
      <4>1. MovesTo(fd, "armed", 0, 0, "report", 0, 0) /\ Serial(fd)
        BY <3>2, <3>3 DEF MovesTo, Placed
      <4> QED
        BY <4>1, Moves
    <3>5. fd \in open /\ watch[fd] # NoItem
      BY <3>1, <3>2 DEF Placed, Kept
    <3>6. Kept(fd)'
      BY <1>1, <3>1, <3>5 DEF Kept, Placed
    <3> QED
      BY <3>4, <3>6
  <2> QED
    BY <2>2, <2>3
<1> QED
  BY <1>2, <1>3 DEF Placed

(* epoll_wait_events: from the reports to he_list.                         *)
LEMMA TranslatePlaced == ASSUME LoopAssumption, SerialInv, Translate PROVE Placed'
<1> USE DEF SerialInv, TypeOK
<1>1. UNCHANGED <<rqueue, tpq, h, watch, registered, armed, open>>
  BY DEF Translate, queueVars, kernelVars
<1>2. (\A fd \in Fds : SameKeeping(fd)) /\ (\A x \in Handlers : Stage(x)')
  BY <1>1, SameKept
<1>3. CASE reports' = Without(reports, "pipe") /\ UNCHANGED actives
  <2>1. ASSUME NEW fd \in Fds PROVE fd \in DOMAIN reports' <=> fd \in DOMAIN reports
    BY <1>3 DEF Without, LoopAssumption
  <2>2. ASSUME NEW fd \in Fds PROVE \A k, a, b : Held(fd, k, a, b)' => Held(fd, k, a, b)
    BY <1>1, <1>3, <2>1 DEF Held, Holds, Adds
  <2> QED
    BY <1>2, <2>2, Untouched DEF Placed
<1>4. ASSUME NEW g \in DOMAIN reports \ {"pipe"}, NEW evs, actives' = With(actives, g, evs),
             reports' = Without(reports, g)
      PROVE  Placed'
  <2>1. g \in Fds /\ DOMAIN reports' = DOMAIN reports \ {g} /\ DOMAIN actives' = DOMAIN actives \cup {g}
    BY <1>4 DEF With, Without
  <2>2. ASSUME NEW fd \in Fds, fd # g PROVE Serial(fd)' /\ Kept(fd)'
    <3>1. \A k, a, b : Held(fd, k, a, b)' => Held(fd, k, a, b)
      BY <1>1, <2>1, <2>2 DEF Held, Holds, Adds
    <3> QED
      BY <1>2, <3>1, Untouched DEF Placed
  <2>3. Serial(g)' /\ Kept(g)'
    <3>1. Held(g, "report", 0, 0) /\ ~Held(g, "report", 0, 0)'
      BY <2>1 DEF Held
    <3>2. \A m, e, f : Held(g, m, e, f)' => Held(g, m, e, f) \/ (m = "active" /\ e = 0 /\ f = 0)
      BY <1>1, <2>1 DEF Held, Holds, Adds
    <3>3. Serial(g)'
      <4>1. MovesTo(g, "report", 0, 0, "active", 0, 0) /\ Serial(g)
        BY <2>1, <3>1, <3>2 DEF MovesTo, Placed
      <4> QED
        BY <2>1, <4>1, Moves
    <3>4. g \in open /\ watch[g] # NoItem
      BY <2>1, <3>1 DEF Placed, Kept
    <3> QED
      BY <1>1, <2>1, <3>3, <3>4 DEF Kept, Placed
  <2> QED
    BY <1>2, <2>2, <2>3 DEF Placed
<1>5. CASE UNCHANGED <<reports, actives>>
  BY <1>1, <1>5, NothingMoves
<1> QED
  BY <1>3, <1>4, <1>5 DEF Translate

(* make_active: a descriptor leaves he_list for the ready queue.           *)
LEMMA SearchPlaced == ASSUME LoopAssumption, SerialInv, WaitSearch PROVE Placed'
<1> USE DEF SerialInv, TypeOK
<1>1. UNCHANGED <<reports, rqueue, tpq, h, watch, registered, armed, open>>
  BY DEF WaitSearch, queueVars, kernelVars
<1>2. (\A fd \in Fds : SameKeeping(fd)) /\ (\A x \in Handlers : Stage(x)')
  BY <1>1, SameKept
<1>3. DOMAIN actives' \subseteq DOMAIN actives
  <2>1. actives' = actives \/ \E fd : actives' = Without(actives, fd)
    BY DEF WaitSearch
  <2>2. CASE actives' = actives
    BY <2>2
  <2>3. CASE \E fd : actives' = Without(actives, fd)
    <3>1. PICK fd : actives' = Without(actives, fd)
      BY <2>3
    <3> QED
      BY <3>1 DEF Without
  <2> QED
    BY <2>1, <2>2, <2>3
<1>4. ASSUME NEW fd \in Fds PROVE \A k, a, b : Held(fd, k, a, b)' => Held(fd, k, a, b)
  BY <1>1, <1>3 DEF Held, Holds, Adds
<1> QED
  BY <1>2, <1>4, Untouched DEF Placed

(* What a list is after an item has been put at its end, or taken from its *)
(* head.                                                                   *)
LEMMA Queued ==
    ASSUME LoopAssumption, TypeOK, NEW ri \in Items,
           rqueue' = [rqueue EXCEPT ![Prio[ri.src]] = Append(@, ri)],
           NEW p \in Priorities, NEW i \in 1..Len(rqueue'[p])
    PROVE  \/ i \in 1..Len(rqueue[p]) /\ rqueue'[p][i] = rqueue[p][i]
           \/ p = Prio[ri.src] /\ i = Len(rqueue[p]) + 1 /\ rqueue'[p][i] = ri
<1>1. rqueue[p] \in Seq(Items) /\ rqueue'[p] = IF p = Prio[ri.src] THEN Append(rqueue[p], ri) ELSE rqueue[p]
  BY DEF TypeOK
<1>2. CASE p # Prio[ri.src]
  BY <1>1, <1>2
<1>3. CASE p = Prio[ri.src]
  <2>1. Len(rqueue'[p]) = Len(rqueue[p]) + 1 /\ Len(rqueue[p]) \in Nat
    BY <1>1, <1>3
  <2>2. i \in 1..Len(rqueue[p]) \/ i = Len(rqueue[p]) + 1
    BY <2>1
  <2>3. i \in 1..Len(rqueue[p]) => rqueue'[p][i] = rqueue[p][i]
    BY <1>1, <1>3
  <2>4. i = Len(rqueue[p]) + 1 => rqueue'[p][i] = ri
    BY <1>1, <1>3
  <2> QED
    BY <1>3, <2>2, <2>3, <2>4
<1> QED
  BY <1>2, <1>3

LEMMA Appended ==
    ASSUME NEW s \in Seq(Items), NEW ri \in Items, NEW i \in 1..Len(Append(s, ri))
    PROVE  \/ i \in 1..Len(s) /\ Append(s, ri)[i] = s[i]
           \/ i = Len(s) + 1 /\ Append(s, ri)[i] = ri
<1>1. Len(Append(s, ri)) = Len(s) + 1 /\ Len(s) \in Nat
  OBVIOUS
<1>2. i \in 1..Len(s) \/ i = Len(s) + 1
  BY <1>1
<1> QED
  BY <1>2

LEMMA Taken ==
    ASSUME NEW s \in Seq(Items), s # <<>>
    PROVE  /\ 1 \in 1..Len(s) /\ Head(s) = s[1] /\ Head(s) \in Items
           /\ \A i \in 1..Len(Tail(s)) : i \in Nat /\ i + 1 \in 1..Len(s) /\ Tail(s)[i] = s[i + 1]
<1>1. Len(s) \in Nat /\ Len(s) > 0 /\ Len(Tail(s)) = Len(s) - 1
  OBVIOUS
<1>2. ASSUME NEW i \in 1..Len(Tail(s)) PROVE i \in Nat /\ i + 1 \in 1..Len(s) /\ Tail(s)[i] = s[i + 1]
  <2>1. i \in Nat /\ i + 1 \in 1..Len(s)
    BY <1>1
  <2> QED
    BY <2>1
<1> QED
  BY <1>1, <1>2

(* An item of another source is queued.                                    *)
LEMMA OtherQueued ==
    ASSUME LoopAssumption, TypeOK, NEW ri \in Items, NEW fd \in Fds, ri.src # fd,
           rqueue' = [rqueue EXCEPT ![Prio[ri.src]] = Append(@, ri)],
           NEW p \in Priorities, NEW i \in 1..Len(rqueue'[p]), rqueue'[p][i].src = fd
    PROVE  Held(fd, "queued", p, i)
BY Queued DEF Held

LEMMA EqueuePlaced == ASSUME LoopAssumption, SerialInv, WaitEqueue PROVE Placed'
<1> USE DEF SerialInv
<1> DEFINE ri == [src |-> found, ev |-> actives[found]]
<1>1. UNCHANGED <<reports, tpq, h, watch, registered, armed, open>>
  BY DEF WaitEqueue, kernelVars
<1>2. (\A fd \in Fds : SameKeeping(fd)) /\ (\A x \in Handlers : Stage(x)')
  BY <1>1, SameKept
<1>3. found \in Fds /\ found \in DOMAIN actives /\ ri \in Items
  <2>1. found \in Fds /\ found \in DOMAIN actives /\ actives[found] \in SUBSET Events
    BY DEF WaitEqueue, Main, TypeOK, LoopAssumption, Events
  <2> QED
    BY <2>1 DEF Items, Sources
<1>4. DOMAIN actives' = DOMAIN actives \ {found} /\ rqueue' = [rqueue EXCEPT ![Prio[ri.src]] = Append(@, ri)]
  BY DEF WaitEqueue, Without
<1>5. ASSUME NEW fd \in Fds, fd # found PROVE Serial(fd)' /\ Kept(fd)'
  <2>1. \A a, b : Held(fd, "queued", a, b)' => Held(fd, "queued", a, b)
    BY <1>3, <1>4, <1>5, OtherQueued DEF Held
  <2>2. \A k, a, b : Held(fd, k, a, b)' => Held(fd, k, a, b)
    BY <1>1, <1>4, <2>1 DEF Held, Holds, Adds
  <2> QED
    BY <1>2, <2>2, Untouched DEF Placed
<1>6. ASSUME NEW g \in Fds, g = found PROVE Serial(g)' /\ Kept(g)'
  <2>1. PICK n : n = Len(rqueue[Prio[g]]) + 1
    OBVIOUS
  <2>2. Held(g, "active", 0, 0) /\ ~Held(g, "active", 0, 0)'
    BY <1>3, <1>4, <1>6 DEF Held
  <2>3. \A a, b : Held(g, "queued", a, b)' => Held(g, "queued", a, b) \/ (a = Prio[g] /\ b = n)
    BY <1>3, <1>4, <1>6, <2>1, Queued DEF Held
  <2>4. \A m, e, f : Held(g, m, e, f)' => Held(g, m, e, f) \/ (m = "queued" /\ e = Prio[g] /\ f = n)
    BY <1>1, <1>4, <2>3 DEF Held, Holds, Adds
  <2>5. MovesTo(g, "active", 0, 0, "queued", Prio[g], n) /\ Serial(g)
    BY <2>2, <2>4 DEF MovesTo, Placed
  <2>6. Serial(g)'
    BY <2>5, Moves
  <2>7. g \in open /\ watch[g] # NoItem
    <3>1. Kept(g) /\ g \in DOMAIN actives
      BY <1>3, <1>6 DEF Placed
    <3> QED
      BY <2>2, <3>1 DEF Kept
  <2> QED
    BY <1>1, <1>4, <1>6, <2>6, <2>7 DEF Kept, Placed
<1> QED
  BY <1>2, <1>5, <1>6 DEF Placed

(* A step that moves the items behind the head of a list one place on.     *)
MovesUpIn(fd, k, a) ==
    /\ \A m, e, f : Held(fd, m, e, f)' /\ ~(m = k /\ e = a) => Held(fd, m, e, f)
    /\ \A f : Held(fd, k, a, f)' => f \in Nat /\ Held(fd, k, a, f + 1)

LEMMA MovesUp ==
    ASSUME NEW fd \in Fds, Serial(fd), NEW k, NEW a, MovesUpIn(fd, k, a)
    PROVE  Serial(fd)' /\ \A m, e, f : Held(fd, m, e, f)' => \E i : Held(fd, m, e, i)
<1> DEFINE Was(m, e, f) == Held(fd, m, e, f)
           Is(m, e, f) == Held(fd, m, e, f)'
<1>0. /\ \A m, e, f : Is(m, e, f) /\ ~(m = k /\ e = a) => Was(m, e, f)
      /\ \A f : Is(k, a, f) => f \in Nat /\ Was(k, a, f + 1)
  BY DEF MovesUpIn
<1>1. ASSUME NEW m, NEW e, NEW f, Is(m, e, f), NEW n, NEW g, NEW i, Is(n, g, i)
      PROVE  m = n /\ e = g /\ f = i
  <2>1. CASE m = k /\ e = a /\ n = k /\ g = a
    <3>1. f \in Nat /\ i \in Nat /\ Was(k, a, f + 1) /\ Was(k, a, i + 1)
      BY <1>0, <1>1, <2>1
    <3>2. f + 1 = i + 1
      BY <3>1 DEF Serial
    <3> QED
      BY <2>1, <3>1, <3>2
  <2>2. CASE m = k /\ e = a /\ ~(n = k /\ g = a)
    <3>1. Was(k, a, f + 1) /\ Was(n, g, i)
      BY <1>0, <1>1, <2>2
    <3> QED
      BY <2>2, <3>1 DEF Serial
  <2>3. CASE ~(m = k /\ e = a) /\ n = k /\ g = a
    <3>1. Was(k, a, i + 1) /\ Was(m, e, f)
      BY <1>0, <1>1, <2>3
    <3> QED
      BY <2>3, <3>1 DEF Serial
  <2>4. CASE ~(m = k /\ e = a) /\ ~(n = k /\ g = a)
    <3>1. Was(m, e, f) /\ Was(n, g, i)
      BY <1>0, <1>1, <2>4
    <3> QED
      BY <3>1 DEF Serial
  <2> QED
    BY <2>1, <2>2, <2>3, <2>4
<1>2. \A m, e, f : Is(m, e, f) => \E i : Was(m, e, i)
  BY <1>0
<1>3. \A m, e, f, n, g, i : Is(m, e, f) /\ Is(n, g, i) => m = n /\ e = g /\ f = i
  BY <1>1
<1> QED
  BY <1>2, <1>3 DEF Serial

(* fd is kept as long as it was somewhere before, and has not come into    *)
(* the hands of epoll or of the main thread.                               *)
LEMMA KeptOn ==
    ASSUME NEW fd \in Fds, Kept(fd), SameKeeping(fd),
           \A k, a, b : Held(fd, k, a, b)' => \E l, c, d : Held(fd, l, c, d),
           armed'[fd] # {} => armed[fd] # {},
           fd \in DOMAIN reports' => fd \in DOMAIN reports,
           fd \in DOMAIN actives' => fd \in DOMAIN actives
    PROVE  Kept(fd)'
<1>1. \A k, a, b : Held(fd, k, a, b)' => fd \in open'
  BY DEF Kept, SameKeeping
<1> QED
  BY <1>1 DEF Kept, SameKeeping

(* ev_ready_queue_dispatch: from the head of a list to the job queue.      *)
LEMMA DrainPlaced == ASSUME LoopAssumption, SerialInv, Drain PROVE Placed'
<1> USE DEF SerialInv
<1>1. UNCHANGED <<hp, reports, actives, h, watch, registered, armed, open>>
  BY DEF Drain, kernelVars, mainVars
<1>2. (\A fd \in Fds : SameKeeping(fd)) /\ (\A x \in Handlers : Stage(x)')
  BY <1>1, SameKept
<1>3. PICK p \in Priorities : p = hp
  BY DEF TypeOK
<1>4. PICK ri \in Items : ri = Head(rqueue[p])
  BY <1>3, Taken DEF Drain, TypeOK
<1>5. rqueue[p] \in Seq(Items) /\ rqueue[p] # <<>> /\ tpq \in Seq(Items)
  BY <1>3 DEF Drain, TypeOK
<1>6. /\ tpq' = Append(tpq, ri)
      /\ \A q \in Priorities : rqueue'[q] = IF q = p THEN Tail(rqueue[p]) ELSE rqueue[q]
  BY <1>3, <1>4 DEF Drain, TypeOK
<1>7. ri = rqueue[p][1] /\ 1 \in 1..Len(rqueue[p])
  BY <1>4, <1>5, Taken
<1>8. PICK n : n = Len(tpq) + 1
  OBVIOUS
<1>9. ASSUME NEW fd \in Fds
      PROVE  /\ \A a, b : Held(fd, "queued", a, b)' /\ a # p => Held(fd, "queued", a, b)
             /\ \A b : Held(fd, "queued", p, b)' => b \in Nat /\ Held(fd, "queued", p, b + 1)
             /\ \A a, b : Held(fd, "job", a, b)' => Held(fd, "job", a, b) \/ (a = 0 /\ b = n /\ ri.src = fd)
  <2>1. \A a, b : Held(fd, "queued", a, b)' /\ a # p => Held(fd, "queued", a, b)
    BY <1>6 DEF Held
  <2>2. ASSUME NEW b, Held(fd, "queued", p, b)' PROVE b \in Nat /\ Held(fd, "queued", p, b + 1)
    <3>1. b \in 1..Len(Tail(rqueue[p])) /\ Tail(rqueue[p])[b].src = fd
      BY <1>6, <2>2 DEF Held
    <3>2. b \in Nat /\ b + 1 \in 1..Len(rqueue[p]) /\ rqueue[p][b + 1].src = fd
      BY <1>5, <3>1, Taken
    <3> QED
      BY <3>2 DEF Held
  <2>3. ASSUME NEW a, NEW b, Held(fd, "job", a, b)'
        PROVE  Held(fd, "job", a, b) \/ (a = 0 /\ b = n /\ ri.src = fd)
    <3>1. a = 0 /\ b \in 1..Len(Append(tpq, ri)) /\ Append(tpq, ri)[b].src = fd
      BY <1>6, <2>3 DEF Held
    <3> QED
      BY <1>5, <1>8, <3>1, Appended DEF Held
  <2> QED
    BY <2>1, <2>2, <2>3
<1>10. ASSUME NEW fd \in Fds, NEW m, NEW e, NEW f, Held(fd, m, e, f)', m # "queued", m # "job"
       PROVE  Held(fd, m, e, f)
  BY <1>1, <1>10 DEF Held, Holds, Adds
<1>11. ASSUME NEW fd \in Fds, NEW m, NEW e, NEW f, Held(fd, m, e, f)'
       PROVE  m # "queued" /\ m # "job" => Held(fd, m, e, f)
  BY <1>10, <1>11
<1>12. ASSUME NEW fd \in Fds, fd # ri.src PROVE Serial(fd)' /\ Kept(fd)'
  <2>1. \A m, e, f : Held(fd, m, e, f)' /\ ~(m = "queued" /\ e = p) => Held(fd, m, e, f)
    BY <1>9, <1>11, <1>12
  <2>2. Serial(fd)' /\ \A m, e, f : Held(fd, m, e, f)' => \E i : Held(fd, m, e, i)
    <3>1. MovesUpIn(fd, "queued", p) /\ Serial(fd)
      BY <1>9, <2>1 DEF Placed, MovesUpIn
    <3> QED
      BY <3>1, MovesUp
  <2> QED
    BY <1>1, <1>2, <2>2, KeptOn DEF Placed
<1>13. ASSUME NEW fd \in Fds, fd = ri.src PROVE Serial(fd)' /\ Kept(fd)'
  <2>1. Held(fd, "queued", p, 1)
    BY <1>7, <1>13 DEF Held
  <2>2. ASSUME NEW b, Held(fd, "queued", p, b)' PROVE FALSE
    <3>1. b \in Nat /\ Held(fd, "queued", p, b + 1)
      BY <1>9, <2>2
    <3>2. b \in 1..Len(Tail(rqueue[p]))
      BY <1>6, <2>2 DEF Held
    <3>3. b + 1 = 1
      BY <2>1, <3>1 DEF Placed, Serial
    <3> QED
      BY <3>1, <3>2, <3>3
  <2>3. \A m, e, f : Held(fd, m, e, f)' => Held(fd, m, e, f) \/ (m = "job" /\ e = 0 /\ f = n)
    BY <1>9, <1>11, <2>2
  <2>4. MovesTo(fd, "queued", p, 1, "job", 0, n) /\ Serial(fd)
    BY <2>1, <2>2, <2>3 DEF MovesTo, Placed
  <2>5. Serial(fd)'
    BY <2>4, Moves
  <2> QED
    BY <1>1, <1>2, <2>1, <2>5, KeptOn DEF Placed
<1> QED
  BY <1>2, <1>12, <1>13 DEF Placed

-----------------------------------------------------------------------------
(* Calls from outside and the handlers.                                    *)

(* A handler that has nothing to do with the one descriptor of a step.     *)
LEMMA OtherStage ==
    ASSUME SerialInv, NEW y \in Handlers, h'[y] = h[y], NEW fd \in Fds,
           \A g \in Fds \ {fd} : SameKeeping(g), ~Holds(y, fd), ~Adds(y, fd)
    PROVE  Stage(y)'
<1>1. Stage(y) /\ (h[y].pc \in {"add_tree", "add_epoll"} => h[y].arg \in Fds)
  BY DEF SerialInv, Placed, TypeOK
<1>2. h[y].pc \in {"del_epoll", "del_free", "mod_epoll"} => SameKeeping(h[y].ri.src)
  BY <1>1 DEF Stage, Holds
<1>3. h[y].pc \in {"add_tree", "add_epoll"} => SameKeeping(h[y].arg)
  BY <1>1 DEF Adds
<1> QED
  BY <1>1, <1>2, <1>3, SameStage

(* ev_watch_pool_add before the loop runs.                                 *)
LEMMA MainAddPlaced ==
    ASSUME LoopAssumption, SerialInv, NEW fd \in Fds, MainAdd(fd)
    PROVE  Placed'
<1> USE DEF SerialInv
<1>1. /\ fd \notin open /\ UNCHANGED <<reports, actives, rqueue, tpq, h>>
      /\ open' = open \cup {fd} /\ registered' = registered \cup {fd}
      /\ \A g \in Fds : /\ watch'[g] = IF g = fd THEN AddEvents ELSE watch[g]
                        /\ armed'[g] = IF g = fd THEN AddEvents ELSE armed[g]
  BY DEF MainAdd, mainVars, queueVars, TypeOK
<1>2. \A k, a, b : ~Held(fd, k, a, b)
  BY <1>1 DEF Placed, Kept
<1>3. \A g \in Fds \ {fd} : SameKeeping(g)
  BY <1>1 DEF SameKeeping
<1>4. ASSUME NEW g \in Fds, g # fd PROVE Serial(g)' /\ Kept(g)'
  <2>1. \A k, a, b : Held(g, k, a, b)' => Held(g, k, a, b)
    BY <1>1, <1>4 DEF Held, Holds, Adds
  <2> QED
    BY <1>3, <1>4, <2>1, Untouched DEF Placed
<1>5. AddEvents # NoItem
  <2>1. AddEvents \in SUBSET Events
    BY DEF LoopAssumption, Events
  <2> QED
    BY <2>1 DEF LoopAssumption
<1>6. Serial(fd)' /\ Kept(fd)'
  <2>1. \A m, e, f : Held(fd, m, e, f)' => Held(fd, m, e, f) \/ (m = "armed" /\ e = 0 /\ f = 0)
    BY <1>1 DEF Held, Holds, Adds
  <2>2. ArrivesAt(fd, "armed", 0, 0)
    BY <1>2, <2>1 DEF ArrivesAt
  <2>3. Serial(fd)'
    BY <2>2, Arrives
  <2>4. fd \in open' /\ fd \in registered' /\ watch'[fd] # NoItem
    BY <1>1, <1>5
  <2> QED
    BY <2>3, <2>4 DEF Kept
<1>7. ASSUME NEW y \in Handlers PROVE Stage(y)'
  <2>1. ~Held(fd, "handler", y, 0) /\ ~Held(fd, "adding", y, 0)
    BY <1>2
  <2>2. ~Holds(y, fd) /\ ~Adds(y, fd)
    BY <2>1, Kinds
  <2> QED
    BY <1>1, <1>3, <2>2, OtherStage
<1> QED
  BY <1>4, <1>6, <1>7 DEF Placed

(* An async event is queued.                                               *)
LEMMA AsyncQueued ==
    ASSUME LoopAssumption, SerialInv, NEW ri \in Items, ri.src \notin Fds, MakeReady(ri),
           NEW fd \in Fds
    PROVE  \A a, b : Held(fd, "queued", a, b)' => Held(fd, "queued", a, b)
BY OtherQueued DEF Held, MakeReady, SerialInv

LEMMA AsyncPlaced ==
    ASSUME LoopAssumption, SerialInv, NEW a \in Asyncs,
           MainAsync(a) \/ \E x \in Handlers : CallbackAsync(x, a)
    PROVE  Placed'
<1> USE DEF SerialInv
<1> DEFINE ri == [src |-> a, ev |-> {"EV_ASYNC"}]
<1>1. /\ UNCHANGED <<reports, actives, tpq, h, watch, registered, armed, open>>
      /\ MakeReady(ri)
  BY DEF MainAsync, CallbackAsync, mainVars, kernelVars
<1>2. ri \in Items /\ ri.src \notin Fds
  BY DEF Items, Sources, Events, LoopAssumption
<1>3. (\A fd \in Fds : SameKeeping(fd)) /\ (\A x \in Handlers : Stage(x)')
  BY <1>1, SameKept
<1>4. ASSUME NEW fd \in Fds PROVE Serial(fd)' /\ Kept(fd)'
  <2>1. \A e, f : Held(fd, "queued", e, f)' => Held(fd, "queued", e, f)
    BY <1>1, <1>2, AsyncQueued
  <2>2. \A k, e, f : Held(fd, k, e, f)' => Held(fd, k, e, f)
    BY <1>1, <2>1 DEF Held, Holds, Adds
  <2> QED
    BY <1>3, <2>2, Untouched DEF Placed
<1> QED
  BY <1>3, <1>4 DEF Placed

(* event_handler begins: from the job queue to the handler.                *)
LEMMA StartPlaced ==
    ASSUME LoopAssumption, SerialInv, NEW x \in Handlers, HandlerStart(x)
    PROVE  Placed'
<1> USE DEF SerialInv
<1>1. UNCHANGED <<reports, actives, rqueue, watch, registered, armed, open>>
  BY DEF HandlerStart, kernelVars, mainVars
<1>2. \A fd \in Fds : SameKeeping(fd)
  BY <1>1 DEF SameKeeping
<1>3. tpq \in Seq(Items) /\ tpq # <<>> /\ tpq' = Tail(tpq) /\ h[x].pc = "idle"
  BY DEF HandlerStart, TypeOK, At
<1>4. PICK ri \in Items : ri = Head(tpq)
  BY <1>3, Taken
<1>5. ri = tpq[1] /\ 1 \in 1..Len(tpq)
  BY <1>3, <1>4, Taken
<1>6. /\ h'[x] = [pc |-> "callback", ri |-> ri, ret |-> h[x].ret, arg |-> h[x].arg]
      /\ \A y \in Handlers \ {x} : h'[y] = h[y]
  BY <1>4, HandlerTakes, TypesOfHandlers DEF HandlerStart
<1>7. ASSUME NEW fd \in Fds
      PROVE  /\ \A b : Held(fd, "job", 0, b)' => b \in Nat /\ Held(fd, "job", 0, b + 1)
             /\ \A a, b : Held(fd, "handler", a, b)'
                             => Held(fd, "handler", a, b) \/ (a = x /\ b = 0 /\ ri.src = fd)
             /\ \A a, b : Held(fd, "adding", a, b)' => Held(fd, "adding", a, b)
  <2>1. ASSUME NEW b, Held(fd, "job", 0, b)' PROVE b \in Nat /\ Held(fd, "job", 0, b + 1)
    <3>1. b \in 1..Len(Tail(tpq)) /\ Tail(tpq)[b].src = fd
      BY <1>3, <2>1 DEF Held
    <3>2. b \in Nat /\ b + 1 \in 1..Len(tpq) /\ tpq[b + 1].src = fd
      BY <1>3, <3>1, Taken
    <3> QED
      BY <3>2 DEF Held
  <2>2. \A a, b : Held(fd, "handler", a, b)'
                    => Held(fd, "handler", a, b) \/ (a = x /\ b = 0 /\ ri.src = fd)
    BY <1>6 DEF Held, Holds
  <2>3. \A a, b : Held(fd, "adding", a, b)' => Held(fd, "adding", a, b)
    BY <1>6 DEF Held, Adds
  <2> QED
    BY <2>1, <2>2, <2>3
<1>8. ASSUME NEW fd \in Fds, NEW m, NEW e, NEW f, Held(fd, m, e, f)'
      PROVE  \/ m # "job" /\ Held(fd, m, e, f)
             \/ m = "job" /\ e = 0
             \/ m = "handler" /\ e = x /\ f = 0 /\ ri.src = fd
  <2>1. CASE m \in {"handler", "adding"}
    BY <1>7, <1>8, <2>1
  <2>2. CASE m \notin {"handler", "adding"}
    BY <1>1, <1>8, <2>2 DEF Held
  <2> QED
    BY <2>1, <2>2
<1>9. ASSUME NEW fd \in Fds, fd # ri.src PROVE Serial(fd)' /\ Kept(fd)'
  <2>1. \A m, e, f : Held(fd, m, e, f)' /\ ~(m = "job" /\ e = 0) => Held(fd, m, e, f)
    BY <1>8, <1>9
  <2>2. Serial(fd)' /\ \A m, e, f : Held(fd, m, e, f)' => \E i : Held(fd, m, e, i)
    <3>1. MovesUpIn(fd, "job", 0) /\ Serial(fd)
      BY <1>7, <2>1 DEF Placed, MovesUpIn
    <3> QED
      BY <3>1, MovesUp
  <2> QED
    BY <1>1, <1>2, <2>2, KeptOn DEF Placed
<1>10. ASSUME NEW fd \in Fds, fd = ri.src PROVE Serial(fd)' /\ Kept(fd)'
  <2>1. Held(fd, "job", 0, 1)
    BY <1>5, <1>10 DEF Held
  <2>2. ASSUME NEW b, Held(fd, "job", 0, b)' PROVE FALSE
    <3>1. b \in Nat /\ Held(fd, "job", 0, b + 1)
      BY <1>7, <2>2
    <3>2. b \in 1..Len(Tail(tpq))
      BY <1>3, <2>2 DEF Held
    <3>3. b + 1 = 1
      BY <2>1, <3>1 DEF Placed, Serial
    <3> QED
      BY <3>1, <3>2, <3>3
  <2>3. \A m, e, f : Held(fd, m, e, f)' => Held(fd, m, e, f) \/ (m = "handler" /\ e = x /\ f = 0)
    BY <1>8, <2>2
  <2>4. MovesTo(fd, "job", 0, 1, "handler", x, 0) /\ Serial(fd)
    BY <2>1, <2>2, <2>3 DEF MovesTo, Placed
  <2>5. Serial(fd)'
    BY <2>4, Moves
  <2> QED
    BY <1>1, <1>2, <2>1, <2>5, KeptOn DEF Placed
<1>11. ASSUME NEW y \in Handlers PROVE Stage(y)'
  BY <1>1, <1>6 DEF Stage, Placed
<1> QED
  BY <1>9, <1>10, <1>11 DEF Placed

(* A handler goes on, or is done, and nothing else changes.                *)
LEMMA QuietStep ==
    ASSUME SerialInv, NEW x \in Handlers, GoesOn(x), Stage(x)',
           UNCHANGED <<reports, actives, rqueue, tpq, watch, registered, armed, open>>
    PROVE  Placed'
<1> USE DEF SerialInv
<1>1. \A fd : SameKeeping(fd)
  BY DEF SameKeeping
<1>2. ASSUME NEW fd \in Fds PROVE Serial(fd)' /\ Kept(fd)'
  <2>1. \A k, a, b : Held(fd, k, a, b)' => Held(fd, k, a, b)
    BY GoesOnNowhereNew
  <2> QED
    BY <1>1, <2>1, Untouched DEF Placed
<1>3. ASSUME NEW y \in Handlers, y # x PROVE Stage(y)'
  BY <1>1, <1>3, SameStage DEF Placed, GoesOn
<1> QED
  BY <1>2, <1>3 DEF Placed

LEMMA LeaveQuiet ==
    ASSUME SerialInv, NEW x \in Handlers, Leave(x)
    PROVE  GoesOn(x) /\ Stage(x)' /\ h'[x].pc = "idle"
<1>1. h'[x] = IdleHandler /\ \A y \in Handlers \ {x} : h'[y] = h[y]
  BY HandlerLeaves, TypesOfHandlers DEF SerialInv
<1> QED
  BY <1>1 DEF GoesOn, Stage, IdleHandler

LEMMA MoveQuiet ==
    ASSUME SerialInv, NEW x \in Handlers,
           NEW at \in {"callback", "stop_notify", "del_epoll", "del_free", "mod_epoll", "mod_events"},
           Move(x, at), h[x].pc \notin {"idle", "mod_events"}
    PROVE  GoesOn(x) /\ h'[x].pc = at /\ h'[x].ri = h[x].ri /\ h'[x].ret = h[x].ret
<1>1. at \in HandlerAt /\ at \notin {"add_tree", "add_epoll"}
  BY DEF HandlerAt
<1>2. /\ h'[x] = [pc |-> at, ri |-> h[x].ri, ret |-> h[x].ret, arg |-> h[x].arg]
      /\ \A y \in Handlers \ {x} : h'[y] = h[y]
  BY <1>1, HandlerMoves, TypesOfHandlers DEF SerialInv
<1> QED
  BY <1>1, <1>2 DEF GoesOn

(* The callback returns: only what is of a descriptor goes on to delete or *)
(* to re-arm it.                                                           *)
LEMMA ReturnPlaced ==
    ASSUME LoopAssumption, CallersKeepRules, SerialInv, NEW x \in Handlers, CallbackReturn(x)
    PROVE  Placed'
<1>1. UNCHANGED <<reports, actives, rqueue, tpq, watch, registered, armed, open>>
  BY DEF CallbackReturn, mainVars, queueVars
<1>2. PICK ret \in Results(h[x].ri) :
          IF ret = {}
          THEN Leave(x)
          ELSE h' = [h EXCEPT ![x].ret = ret,
                              ![x].pc = After(ret)]
  BY DEF CallbackReturn
<1>3. CASE ret = {}
  BY <1>1, <1>2, <1>3, LeaveQuiet, QuietStep
<1>4. CASE ret # {}
  <2>1. h[x].pc = "callback" /\ h[x].ri \in Items
    BY DEF CallbackReturn, At, SerialInv, TypeOK
  <2>2. ret \in SUBSET Events
    BY DEF Results, Events, LoopAssumption
  <2>3. After(ret) \in HandlerAt /\ After(ret) \notin {"add_tree", "add_epoll"}
    BY DEF After, HandlerAt
  <2>4. /\ h'[x] = [pc |-> After(ret), ri |-> h[x].ri, ret |-> ret, arg |-> h[x].arg]
        /\ \A y \in Handlers \ {x} : h'[y] = h[y]
    BY <1>2, <1>4, <2>1, <2>2, <2>3, HandlerReturns, TypesOfHandlers DEF SerialInv
  <2>5. GoesOn(x)
    BY <2>1, <2>3, <2>4 DEF GoesOn
  <2>6. ASSUME h[x].ri.src \in Fds PROVE Stage(x)'
    <3>1. "EV_ASYNC" \notin ret
      BY <1>4, <2>6 DEF Results, LoopAssumption
    <3>2. After(ret) \in {"del_tree", "mod_search"}
      BY <3>1 DEF After
    <3> QED
      BY <2>4, <2>6, <3>2 DEF Stage
  <2>7. ASSUME h[x].ri.src \notin Fds PROVE Stage(x)'
    <3>1. "EV_ASYNC" \in ret
      BY <1>4, <2>7 DEF Results, LoopAssumption, CallersKeepRules
    <3>2. After(ret) \in {"free_ri", "requeue"}
      BY <3>1 DEF After
    <3> QED
      BY <2>4, <2>7, <3>2 DEF Stage
  <2> QED
    BY <1>1, <2>5, <2>6, <2>7, QuietStep
<1> QED
  BY <1>3, <1>4

(* Steps that only move the handler.                                       *)
LEMMA SimplePlaced ==
    ASSUME LoopAssumption, SerialInv, NEW x \in Handlers,
           FreeItem(x) \/ StopNotify(x) \/ StopSet(x) \/ ModSearch(x)
    PROVE  Placed'
<1> USE DEF At, mainVars, queueVars, kernelVars
<1>1. CASE FreeItem(x)
  BY <1>1, LeaveQuiet, QuietStep DEF FreeItem
<1>2. CASE StopNotify(x)
  <2>1. GoesOn(x) /\ h'[x].pc = "callback"
    BY <1>2, MoveQuiet DEF StopNotify
  <2> QED
    BY <1>2, <2>1, QuietStep DEF StopNotify, Stage
<1>3. CASE StopSet(x)
  <2>1. GoesOn(x) /\ h'[x].pc = "stop_notify"
    BY <1>3, MoveQuiet DEF StopSet, InCallback
  <2> QED
    BY <1>3, <2>1, QuietStep DEF StopSet, Stage
<1>4. CASE ModSearch(x)
  <2>1. h[x].ri.src \in Fds /\ FdOf(x) = h[x].ri.src
    BY <1>4 DEF ModSearch, SerialInv, Placed, Stage, FdOf
  <2>2. UNCHANGED <<reports, actives, rqueue, tpq, watch, registered, armed, open>>
    BY <1>4 DEF ModSearch
  <2>3. CASE watch[FdOf(x)] = NoItem
    BY <1>4, <2>2, <2>3, LeaveQuiet, QuietStep DEF ModSearch
  <2>4. CASE watch[FdOf(x)] # NoItem
    <3>1. GoesOn(x) /\ h'[x].pc = "mod_epoll" /\ h'[x].ri = h[x].ri
      BY <1>4, <2>4, MoveQuiet DEF ModSearch
    <3>2. Stage(x)'
      BY <2>1, <2>2, <2>4, <3>1 DEF Stage
    <3> QED
      BY <2>2, <3>1, <3>2, QuietStep
  <2> QED
    BY <2>3, <2>4
<1> QED
  BY <1>1, <1>2, <1>3, <1>4

LEMMA RequeuePlaced ==
    ASSUME LoopAssumption, SerialInv, NEW x \in Handlers, Requeue(x)
    PROVE  Placed'
<1> USE DEF SerialInv
<1> DEFINE ri == [src |-> h[x].ri.src, ev |-> h[x].ret]
<1>1. /\ UNCHANGED <<reports, actives, tpq, watch, registered, armed, open>>
      /\ MakeReady(ri) /\ GoesOn(x) /\ Stage(x)'
  BY LeaveQuiet DEF Requeue, mainVars, kernelVars
<1>2. ri \in Items /\ ri.src \notin Fds
  BY DEF Requeue, At, Placed, Stage, Items, TypeOK, HandlerStates
<1>3. \A fd : SameKeeping(fd)
  BY <1>1 DEF SameKeeping
<1>4. ASSUME NEW fd \in Fds PROVE Serial(fd)' /\ Kept(fd)'
  <2>1. \A e, f : Held(fd, "queued", e, f)' => Held(fd, "queued", e, f)
    BY <1>1, <1>2, AsyncQueued
  <2>2. \A y \in Handlers : (Holds(y, fd)' => Holds(y, fd)) /\ (Adds(y, fd)' => Adds(y, fd))
    BY <1>1, GoesOnHolds
  <2>3. \A k, e, f : Held(fd, k, e, f)' => Held(fd, k, e, f)
    BY <1>1, <2>1, <2>2 DEF Held
  <2> QED
    BY <1>3, <2>3, Untouched DEF Placed
<1>5. ASSUME NEW y \in Handlers, y # x PROVE Stage(y)'
  BY <1>1, <1>3, <1>5, SameStage DEF Placed, GoesOn
<1> QED
  BY <1>1, <1>4, <1>5 DEF Placed

(* ev_watch_pool_del, step by step.                                        *)
LEMMA DelPlaced ==
    ASSUME LoopAssumption, SerialInv, NEW x \in Handlers, DelTree(x) \/ DelEpoll(x) \/ DelFree(x)
    PROVE  Placed'
<1> USE DEF SerialInv, At, mainVars, queueVars, kernelVars
<1>1. PICK fd \in Fds : fd = h[x].ri.src /\ fd = FdOf(x) /\ Holds(x, fd)
  BY DEF DelTree, DelEpoll, DelFree, Placed, Stage, FdOf, Holds
<1>2. /\ armed[fd] = {} /\ fd \notin DOMAIN reports /\ fd \notin DOMAIN actives
      /\ \A y \in Handlers : ~Adds(y, fd) /\ (Holds(y, fd) => y = x)
  BY <1>1, HolderAlone DEF Placed
<1>3. fd \in open /\ Held(fd, "handler", x, 0)
  BY <1>1 DEF Placed, Kept, Held
(* What is left to show for each step, all of them being alike.            *)
<1>4. ASSUME GoesOn(x), Stage(x)', UNCHANGED <<reports, actives, rqueue, tpq>>,
             \A g \in Fds : armed'[g] # {} => armed[g] # {},
             \A g \in Fds \ {fd} : SameKeeping(g),
             \/ fd \in open' /\ (fd \in registered' => fd \in registered)
             \/ h'[x].pc = "idle" /\ fd \notin registered',
             watch'[fd] = NoItem
      PROVE  Placed'
  <2>1. ASSUME NEW g \in Fds PROVE \A k, a, b : Held(g, k, a, b)' => Held(g, k, a, b)
    BY <1>4, GoesOnNowhereNew
  <2>2. ASSUME NEW g \in Fds, g # fd PROVE Serial(g)' /\ Kept(g)'
    BY <1>4, <2>1, <2>2, Untouched DEF Placed
  <2>3. Serial(fd)'
    BY <2>1, NowhereNew DEF Placed
  <2>4. \A k, a, b : Held(fd, k, a, b)' => fd \in open'
    <3>1. ASSUME NEW k, NEW a, NEW b, Held(fd, k, a, b)' PROVE k = "handler" /\ a = x
      <4>1. Held(fd, k, a, b)
        BY <2>1, <3>1
      <4> QED
        BY <1>3, <4>1 DEF Placed, Serial
    <3>2. ASSUME h'[x].pc = "idle", NEW b PROVE ~Held(fd, "handler", x, b)'
      BY <3>2 DEF Held, Holds
    <3> QED
      BY <1>4, <3>1, <3>2
  <2>5. armed'[fd] = {} /\ fd \notin DOMAIN reports' /\ fd \notin DOMAIN actives'
    BY <1>2, <1>4
  <2>6. fd \in registered' => fd \in open'
    BY <1>4
  <2>7. Kept(fd)'
    BY <1>4, <2>4, <2>5, <2>6 DEF Kept
  <2>8. ASSUME NEW y \in Handlers, y # x PROVE Stage(y)'
    <3>1. h'[y] = h[y] /\ ~Holds(y, fd) /\ ~Adds(y, fd)
      BY <1>2, <1>4, <2>8 DEF GoesOn
    <3> QED
      BY <1>4, <3>1, OtherStage
  <2> QED
    BY <1>4, <2>2, <2>3, <2>7, <2>8 DEF Placed
<1>5. CASE DelTree(x)
  <2>1. CASE watch[FdOf(x)] = NoItem
    BY <1>5, <2>1, LeaveQuiet, QuietStep DEF DelTree
  <2>2. CASE watch[FdOf(x)] # NoItem
    <3>1. /\ watch' = [watch EXCEPT ![fd] = NoItem] /\ Move(x, "del_epoll")
          /\ UNCHANGED <<reports, actives, rqueue, tpq, registered, armed, open>>
      BY <1>1, <1>5, <2>2 DEF DelTree
    <3>2. GoesOn(x) /\ h'[x].pc = "del_epoll" /\ h'[x].ri = h[x].ri
      BY <1>5, <3>1, MoveQuiet DEF DelTree
    <3>3. watch'[fd] = NoItem /\ \A g \in Fds \ {fd} : SameKeeping(g)
      BY <3>1 DEF TypeOK, SameKeeping
    <3>4. Stage(x)'
      BY ZenonT(30), <1>1, <3>2, <3>3 DEF Stage
    <3> QED
      BY <1>3, <1>4, <3>1, <3>2, <3>3, <3>4
  <2> QED
    BY <2>1, <2>2
<1>6. CASE DelEpoll(x)
  <2>1. /\ registered' = registered \ {fd} /\ armed' = [armed EXCEPT ![fd] = {}]
        /\ Move(x, "del_free") /\ UNCHANGED <<reports, actives, rqueue, tpq, watch, open>>
    BY <1>1, <1>6 DEF DelEpoll
  <2>2. GoesOn(x) /\ h'[x].pc = "del_free" /\ h'[x].ri = h[x].ri
    BY <1>6, <2>1, MoveQuiet DEF DelEpoll
  <2>3. \A g \in Fds : armed'[g] # {} => armed[g] # {}
    BY <2>1 DEF TypeOK
  <2>4. watch'[fd] = NoItem
    BY <1>1, <1>6, <2>1 DEF DelEpoll, Placed, Stage
  <2>5. Stage(x)' /\ \A g \in Fds \ {fd} : SameKeeping(g)
    BY <1>1, <2>1, <2>2, <2>4 DEF Stage, SameKeeping
  <2> QED
    BY <1>3, <1>4, <2>1, <2>2, <2>3, <2>4, <2>5
<1>7. CASE DelFree(x)
  <2>1. /\ open' = open \ {fd} /\ Leave(x)
        /\ UNCHANGED <<reports, actives, rqueue, tpq, watch, registered, armed>>
    BY <1>1, <1>7 DEF DelFree
  <2>2. GoesOn(x) /\ h'[x].pc = "idle" /\ Stage(x)'
    BY <2>1, LeaveQuiet
  <2>3. fd \notin registered' /\ watch'[fd] = NoItem
    <3>1. Stage(x) /\ h[x].pc = "del_free"
      BY <1>7 DEF DelFree, Placed
    <3> QED
      BY <1>1, <2>1, <3>1 DEF Stage
  <2>4. \A g \in Fds \ {fd} : SameKeeping(g)
    BY <2>1 DEF SameKeeping
  <2> QED
    BY <1>4, <2>1, <2>2, <2>3, <2>4
<1> QED
  BY <1>5, <1>6, <1>7

(* ev_watch_pool_mod: from the handler back to epoll.                      *)
LEMMA ModPlaced ==
    ASSUME LoopAssumption, SerialInv, NEW x \in Handlers, ModEpoll(x) \/ ModEvents(x)
    PROVE  Placed'
<1> USE DEF SerialInv, At, mainVars, queueVars, kernelVars
<1>1. PICK fd \in Fds : fd = h[x].ri.src /\ fd = FdOf(x)
  BY DEF ModEpoll, ModEvents, Placed, Stage, FdOf
<1>2. CASE ModEpoll(x) /\ FdOf(x) \notin registered
  BY <1>2, LeaveQuiet, QuietStep DEF ModEpoll
<1>3. CASE ModEpoll(x) /\ FdOf(x) \in registered
  <2>1. /\ armed' = [armed EXCEPT ![fd] = h[x].ret \cap IoEvents] /\ Move(x, "mod_events")
        /\ UNCHANGED <<reports, actives, rqueue, tpq, watch, registered, open>>
    BY <1>1, <1>3 DEF ModEpoll
  <2>2. GoesOn(x) /\ h'[x].pc = "mod_events" /\ h'[x].ri = h[x].ri
    BY <1>3, <2>1, MoveQuiet DEF ModEpoll
  <2>3. \A g : SameKeeping(g)
    BY <2>1 DEF SameKeeping
  <2>4. \A g \in Fds : g # fd => armed'[g] = armed[g]
    BY <2>1 DEF TypeOK
  <2>5. ASSUME NEW g \in Fds, g # fd PROVE Serial(g)' /\ Kept(g)'
    <3>1. \A k, a, b : Held(g, k, a, b)' => Held(g, k, a, b)
      BY <2>1, <2>2, <2>4, <2>5, GoesOnNowhereNew
    <3> QED
      BY <2>3, <3>1, Untouched DEF Placed
  <2>6. Serial(fd)' /\ Kept(fd)'
    <3>1. Held(fd, "handler", x, 0) /\ ~Held(fd, "handler", x, 0)'
      BY <1>1, <1>3, <2>2 DEF ModEpoll, Held, Holds
    <3>2. \A y \in Handlers : (Holds(y, fd)' => Holds(y, fd)) /\ (Adds(y, fd)' => Adds(y, fd))
      BY <2>2, GoesOnHolds
    <3>3. \A m, e, f : Held(fd, m, e, f)' => Held(fd, m, e, f) \/ (m = "armed" /\ e = 0 /\ f = 0)
      BY <2>1, <3>2 DEF Held
    <3>4. MovesTo(fd, "handler", x, 0, "armed", 0, 0) /\ Serial(fd) /\ Kept(fd)
      BY <3>1, <3>3 DEF MovesTo, Placed
    <3>5. Serial(fd)'
      BY <3>4, Moves
    <3>6. fd \in open /\ fd \in registered /\ watch[fd] # NoItem
      BY <1>1, <1>3, <3>1, <3>4 DEF Kept, Placed, Stage, ModEpoll
    <3> QED
      BY <2>1, <3>5, <3>6 DEF Kept
  <2>7. Stage(x)'
    BY <1>1, <2>2 DEF Stage
  <2>8. ASSUME NEW y \in Handlers, y # x PROVE Stage(y)'
    BY <2>2, <2>3, <2>8, SameStage DEF Placed, GoesOn
  <2> QED
    BY <2>5, <2>6, <2>7, <2>8 DEF Placed
<1>4. CASE ModEvents(x)
  <2>1. /\ watch' = [watch EXCEPT ![fd] = IF @ = NoItem THEN NoItem ELSE h[x].ret] /\ Leave(x)
        /\ UNCHANGED <<reports, actives, rqueue, tpq, registered, armed, open>>
    BY <1>1, <1>4 DEF ModEvents
  <2>2. GoesOn(x) /\ Stage(x)'
    BY <2>1, LeaveQuiet
  <2>3. h[x].ret # NoItem
    BY DEF TypeOK, HandlerStates, LoopAssumption
  <2>4. \A g \in Fds : SameKeeping(g)
    BY <2>1, <2>3 DEF SameKeeping, TypeOK
  <2>5. ASSUME NEW g \in Fds PROVE Serial(g)' /\ Kept(g)'
    <3>1. \A k, a, b : Held(g, k, a, b)' => Held(g, k, a, b)
      BY <2>1, <2>2, GoesOnNowhereNew
    <3> QED
      BY <2>4, <3>1, Untouched DEF Placed
  <2>6. ASSUME NEW y \in Handlers, y # x PROVE Stage(y)'
    <3>1. Stage(y) /\ (h[y].pc \in {"add_tree", "add_epoll"} => h[y].arg \in Fds) /\ h'[y] = h[y]
      BY <2>2, <2>6 DEF Placed, TypeOK, GoesOn
    <3>2. h[y].pc \in {"del_epoll", "del_free", "mod_epoll"} => h[y].ri.src \in Fds
      BY <3>1 DEF Stage
    <3> QED
      BY <2>4, <3>1, <3>2, SameStage
  <2> QED
    BY <2>2, <2>5, <2>6 DEF Placed
<1> QED
  BY <1>2, <1>3, <1>4

(* EV_CTL_ADD from a callback: a descriptor that was not open.             *)
LEMMA OpenPlaced ==
    ASSUME LoopAssumption, CallersKeepRules, SerialInv, NEW x \in Handlers, NEW fd \in Fds, AddOpen(x, fd)
    PROVE  Placed'
<1> USE DEF SerialInv
<1>1. /\ fd \notin open /\ open' = open \cup {fd} /\ h[x].pc = "callback" /\ h[x].ri \in Items
      /\ UNCHANGED <<reports, actives, rqueue, tpq, watch, registered, armed>>
  BY DEF AddOpen, CallersKeepRules, InCallback, At, mainVars, queueVars, TypeOK
<1>2. /\ h'[x] = [pc |-> "add_tree", ri |-> h[x].ri, ret |-> h[x].ret, arg |-> fd]
      /\ \A y \in Handlers \ {x} : h'[y] = h[y]
  <2>1. "add_tree" \in HandlerAt /\ fd \in Fds \cup {NoItem}
    BY DEF HandlerAt
  <2>2. Adding(x, "add_tree", fd)
    BY DEF AddOpen, Adding
  <2>3. HandlersOK
    BY TypesOfHandlers
  <2> QED
    BY <1>1, <2>1, <2>2, <2>3, HandlerAdds
<1>3. \A g : SameKeeping(g)
  BY <1>1 DEF SameKeeping
<1>4. ASSUME NEW g \in Fds, NEW y \in Handlers
      PROVE  /\ Holds(y, g)' => Holds(y, g)
             /\ Adds(y, g)' => Adds(y, g) \/ (y = x /\ g = fd)
  BY <1>1, <1>2 DEF Holds, Adds
<1>5. ASSUME NEW g \in Fds, g # fd PROVE Serial(g)' /\ Kept(g)'
  <2>1. \A k, a, b : Held(g, k, a, b)' => Held(g, k, a, b)
    BY <1>1, <1>4, <1>5 DEF Held
  <2> QED
    BY <1>3, <2>1, Untouched DEF Placed
<1>6. Serial(fd)' /\ Kept(fd)'
  <2>1. Kept(fd) /\ \A m, e, f : ~Held(fd, m, e, f)
    BY <1>1 DEF Placed, Kept
  <2>2. \A m, e, f : Held(fd, m, e, f)' => Held(fd, m, e, f) \/ (m = "adding" /\ e = x /\ f = 0)
    BY <1>1, <1>4 DEF Held
  <2>3. ArrivesAt(fd, "adding", x, 0)
    BY <2>1, <2>2 DEF ArrivesAt
  <2>4. Serial(fd)'
    BY <2>3, Arrives
  <2> QED
    BY <1>1, <2>1, <2>4 DEF Kept
<1>7. Stage(x)'
  <2>1. watch[fd] = NoItem
    BY <1>1 DEF Placed, Kept
  <2> QED
    BY <1>1, <1>2, <2>1 DEF Stage
<1>8. ASSUME NEW y \in Handlers, y # x PROVE Stage(y)'
  BY <1>2, <1>3, <1>8, SameStage DEF Placed
<1> QED
  BY <1>5, <1>6, <1>7, <1>8 DEF Placed

(* ev_watch_pool_add: into the tree; the descriptor is not in it yet.      *)
LEMMA AddTreePlaced ==
    ASSUME LoopAssumption, SerialInv, NEW x \in Handlers, AddTree(x)
    PROVE  Placed'
<1> USE DEF SerialInv
<1>1. PICK fd \in Fds : fd = h[x].arg /\ Adds(x, fd) /\ h[x].pc = "add_tree"
  BY DEF AddTree, At, TypeOK, Adds
<1>2. Stage(x) /\ watch[fd] = NoItem
  BY <1>1 DEF Placed, Stage
<1>3. /\ watch' = [watch EXCEPT ![fd] = AddEvents] /\ Move(x, "add_epoll")
      /\ UNCHANGED <<reports, actives, rqueue, tpq, registered, armed, open>>
  BY <1>1, <1>2 DEF AddTree, mainVars, queueVars, kernelVars
<1>4. /\ h'[x] = [pc |-> "add_epoll", ri |-> h[x].ri, ret |-> h[x].ret, arg |-> h[x].arg]
      /\ \A y \in Handlers \ {x} : h'[y] = h[y]
  <2>1. "add_epoll" \in HandlerAt /\ h[x].pc # "idle" /\ h[x].arg \in Fds
    BY <1>1 DEF HandlerAt
  <2> QED
    BY <1>3, <2>1, HandlerMoves, TypesOfHandlers
<1>5. GoesOn(x)
  BY <1>1, <1>4 DEF GoesOn
<1>6. AddEvents # NoItem
  <2>1. AddEvents \in SUBSET Events
    BY DEF LoopAssumption, Events
  <2> QED
    BY <2>1 DEF LoopAssumption
<1>7. watch'[fd] # NoItem /\ \A g \in Fds \ {fd} : SameKeeping(g)
  BY <1>3, <1>6 DEF SameKeeping, TypeOK
<1>8. ASSUME NEW g \in Fds PROVE \A k, a, b : Held(g, k, a, b)' => Held(g, k, a, b)
  BY <1>3, <1>5, GoesOnNowhereNew
<1>9. ASSUME NEW g \in Fds, g # fd PROVE Serial(g)' /\ Kept(g)'
  BY <1>7, <1>8, <1>9, Untouched DEF Placed
<1>10. Serial(fd)' /\ Kept(fd)'
  <2>1. Serial(fd)'
    BY <1>8, NowhereNew DEF Placed
  <2>2. Held(fd, "adding", x, 0) /\ Kept(fd)
    BY <1>1 DEF Held, Placed
  <2>3. fd \in open'
    BY <1>3, <2>2 DEF Kept
  <2> QED
    BY <1>3, <1>7, <2>1, <2>2, <2>3 DEF Kept
<1>11. Stage(x)'
  BY <1>1, <1>4, <1>7 DEF Stage
<1>12. ASSUME NEW y \in Handlers, y # x PROVE Stage(y)'
  <2>1. ~Holds(y, fd) /\ ~Adds(y, fd)
    BY <1>1, <1>12, AdderAlone DEF Placed
  <2> QED
    BY <1>4, <1>7, <1>12, <2>1, OtherStage
<1> QED
  BY <1>9, <1>10, <1>11, <1>12 DEF Placed

(* ... and then into epoll, which arms it.                                 *)
LEMMA AddEpollPlaced ==
    ASSUME LoopAssumption, SerialInv, NEW x \in Handlers, AddEpoll(x)
    PROVE  Placed'
<1> USE DEF SerialInv
<1>1. PICK fd \in Fds : fd = h[x].arg /\ Adds(x, fd) /\ h[x].pc = "add_epoll"
  BY DEF AddEpoll, At, TypeOK, Adds
<1>2. watch[fd] # NoItem
  BY <1>1 DEF Placed, Stage
<1>3. /\ registered' = registered \cup {fd} /\ armed' = [armed EXCEPT ![fd] = AddEvents]
      /\ UNCHANGED <<reports, actives, rqueue, tpq, watch, open>>
  BY <1>1 DEF AddEpoll, mainVars, queueVars
<1>4. /\ h'[x] = [pc |-> "callback", ri |-> h[x].ri, ret |-> h[x].ret, arg |-> NoItem]
      /\ \A y \in Handlers \ {x} : h'[y] = h[y]
  <2>1. "callback" \in HandlerAt /\ NoItem \in Fds \cup {NoItem} /\ h[x].ri \in Items
    BY <1>1 DEF HandlerAt, TypeOK
  <2>2. Adding(x, "callback", NoItem)
    BY DEF AddEpoll, Adding
  <2>3. "callback" \notin {"add_tree", "add_epoll"}
    OBVIOUS
  <2>4. HandlersOK
    BY TypesOfHandlers
  <2> QED
    BY <2>1, <2>2, <2>3, <2>4, HandlerAdds
<1>5. ASSUME NEW g \in Fds, NEW y \in Handlers
      PROVE  (Holds(y, g)' => Holds(y, g)) /\ (Adds(y, g)' => Adds(y, g) /\ y # x)
  BY <1>1, <1>4 DEF Holds, Adds
<1>6. \A g \in Fds \ {fd} : SameKeeping(g) /\ armed'[g] = armed[g]
  BY <1>3 DEF SameKeeping, TypeOK
<1>7. ASSUME NEW g \in Fds, g # fd PROVE Serial(g)' /\ Kept(g)'
  <2>1. \A k, a, b : Held(g, k, a, b)' => Held(g, k, a, b)
    BY <1>3, <1>5, <1>6, <1>7 DEF Held
  <2> QED
    BY <1>6, <1>7, <2>1, Untouched DEF Placed
<1>8. Serial(fd)' /\ Kept(fd)'
  <2>1. Held(fd, "adding", x, 0) /\ ~Held(fd, "adding", x, 0)'
    BY <1>1, <1>5 DEF Held
  <2>2. \A m, e, f : Held(fd, m, e, f)' => Held(fd, m, e, f) \/ (m = "armed" /\ e = 0 /\ f = 0)
    BY <1>3, <1>5 DEF Held
  <2>3. MovesTo(fd, "adding", x, 0, "armed", 0, 0) /\ Serial(fd) /\ Kept(fd)
    BY <2>1, <2>2 DEF MovesTo, Placed
  <2>4. Serial(fd)'
    BY <2>3, Moves
  <2>5. fd \in open' /\ fd \in registered' /\ watch'[fd] # NoItem
    BY <1>2, <1>3, <2>1, <2>3 DEF Kept
  <2> QED
    BY <2>4, <2>5 DEF Kept
<1>9. Stage(x)'
  BY <1>4 DEF Stage
<1>10. ASSUME NEW y \in Handlers, y # x PROVE Stage(y)'
  <2>1. ~Holds(y, fd) /\ ~Adds(y, fd)
    BY <1>1, <1>10, AdderAlone DEF Placed
  <2> QED
    BY <1>4, <1>6, <1>10, <2>1, OtherStage
<1> QED
  BY <1>7, <1>8, <1>9, <1>10 DEF Placed

-----------------------------------------------------------------------------
LEMMA InitPlaced == ASSUME LoopAssumption, Init PROVE Placed
<1>1. ASSUME NEW fd \in Fds PROVE \A k, a, b : ~Held(fd, k, a, b)
  BY DEF Held, Holds, Adds, Init, IdleHandler
<1>2. ASSUME NEW fd \in Fds PROVE Serial(fd) /\ Kept(fd)
  <2>1. fd \notin registered /\ watch[fd] = NoItem /\ armed[fd] = {}
    BY DEF Init
  <2>2. fd \notin DOMAIN reports /\ fd \notin DOMAIN actives
    BY DEF Init
  <2> QED
    BY <1>1, <2>1, <2>2 DEF Serial, Kept
<1>3. ASSUME NEW x \in Handlers PROVE Stage(x)
  BY DEF Init, IdleHandler, Stage
<1> QED
  BY <1>2, <1>3 DEF Placed

LEMMA SerialInductive ==
    ASSUME LoopAssumption, CallersKeepRules, SerialInv, [Next]_vars
    PROVE  SerialInv'
<1>1. TypeOK'
  BY NextKeepsTypes DEF SerialInv
<1>2. ASSUME MainStep \/ EpollInterrupted \/ LoopRun PROVE Placed'
  <2>1. ASSUME LoopTest \/ EpollInterrupted \/ LoopRun \/ EpollTimeout \/ CountReady \/ Drained
                \/ ClearNotification
        PROVE  UNCHANGED <<reports, actives, rqueue, tpq, h, watch, registered, armed, open>>
    BY <2>1 DEF LoopTest, EpollInterrupted, LoopRun, EpollTimeout, CountReady, Drained,
         ClearNotification, queueVars, kernelVars
  <2> QED
    BY <1>2, <2>1, NothingMoves, ReportPlaced, TranslatePlaced, SearchPlaced, EqueuePlaced,
       DrainPlaced DEF MainStep
<1>3. ASSUME NEW x \in Handlers, HandlerStep(x) \/ StopSet(x) PROVE Placed'
  BY <1>3, StartPlaced, ReturnPlaced, SimplePlaced, RequeuePlaced, DelPlaced, ModPlaced,
     AddTreePlaced, AddEpollPlaced DEF HandlerStep
<1>4. ASSUME \/ \E fd \in Fds, e \in IoEvents : IoReady(fd, e)
             \/ UNCHANGED vars
      PROVE  Placed'
  <2>1. UNCHANGED <<reports, actives, rqueue, tpq, h, watch, registered, armed, open>>
    BY <1>4 DEF IoReady, vars, mainVars, queueVars, kernelVars
  <2> QED
    BY <2>1, NothingMoves
<1> QED
  BY <1>1, <1>2, <1>3, <1>4, MainAddPlaced, AsyncPlaced, OpenPlaced DEF Next, SerialInv

(* What the invariant says of the places that CallbacksSerial counts.      *)
LEMMA SerialCounts == ASSUME SerialInv PROVE CallbacksSerial
<1> SUFFICES ASSUME NEW fd \in Fds
             PROVE  Cardinality(EventsOf(fd)) + (IF armed[fd] # {} THEN 1 ELSE 0) <= 1
  BY DEF CallbacksSerial
<1>s. Serial(fd)
  BY DEF SerialInv, Placed
<1>1. ASSUME NEW e \in EventsOf(fd)
      PROVE  \/ e = <<"report", fd>> /\ Held(fd, "report", 0, 0)
             \/ e = <<"active", fd>> /\ Held(fd, "active", 0, 0)
             \/ \E p \in Priorities, i \in Nat : e = <<p, i>> /\ Held(fd, "queued", p, i)
             \/ \E i \in Nat : e = <<"job", i>> /\ Held(fd, "job", 0, i)
             \/ \E x \in Handlers : e = <<"callback", x>> /\ Held(fd, "handler", x, 0)
  <2> DEFINE Reports == {<<"report", fd>> : y \in DOMAIN reports \cap {fd}}
             Actives == {<<"active", fd>> : y \in DOMAIN actives \cap {fd}}
             QueuedAt(p) == {<<p, i>> : i \in {k \in 1..Len(rqueue[p]) : rqueue[p][k].src = fd}}
             InQueue == UNION {QueuedAt(p) : p \in Priorities}
             Jobs == {<<"job", i>> : i \in {k \in 1..Len(tpq) : tpq[k].src = fd}}
             Callbacks == {<<"callback", x>> : x \in InCallbackOf(fd)}
  <2>1. CASE e \in Reports
    BY <2>1 DEF Held
  <2>2. CASE e \in Actives
    BY <2>2 DEF Held
  <2>3. CASE e \in InQueue
    <3>1. PICK p \in Priorities : e \in QueuedAt(p)
      BY <2>3
    <3>2. PICK i \in 1..Len(rqueue[p]) : rqueue[p][i].src = fd /\ e = <<p, i>>
      BY <3>1
    <3>3. Held(fd, "queued", p, i) /\ i \in Nat
      BY <3>2 DEF Held
    <3> QED
      BY <3>2, <3>3
  <2>4. CASE e \in Jobs
    <3>1. PICK i \in 1..Len(tpq) : tpq[i].src = fd /\ e = <<"job", i>>
      BY <2>4
    <3>2. Held(fd, "job", 0, i) /\ i \in Nat
      BY <3>1 DEF Held
    <3> QED
      BY <3>1, <3>2
  <2>5. CASE e \in Callbacks
    <3>1. PICK x \in InCallbackOf(fd) : e = <<"callback", x>>
      BY <2>5
    <3>2. x \in Handlers /\ Held(fd, "handler", x, 0)
      BY DEF InCallbackOf, Held, Holds
    <3> QED
      BY <3>1, <3>2
  <2>6. e \in Reports \cup Actives \cup InQueue \cup Jobs \cup Callbacks
    BY DEF EventsOf
  <2> HIDE DEF Reports, Actives, QueuedAt, InQueue, Jobs, Callbacks
  <2> QED
    BY <2>1, <2>2, <2>3, <2>4, <2>5, <2>6
<1>2. ASSUME NEW e \in EventsOf(fd), NEW f \in EventsOf(fd) PROVE e = f
  <2>1. ASSUME NEW k, NEW a, NEW b, Held(fd, k, a, b), NEW l, NEW c, NEW d, Held(fd, l, c, d)
        PROVE  k = l /\ a = c /\ b = d
    BY <1>s, <2>1 DEF Serial
  <2>2. CASE e = <<"report", fd>> /\ Held(fd, "report", 0, 0)
    BY <1>1, <2>1, <2>2
  <2>3. CASE e = <<"active", fd>> /\ Held(fd, "active", 0, 0)
    BY <1>1, <2>1, <2>3
  <2>4. CASE \E p \in Priorities, i \in Nat : e = <<p, i>> /\ Held(fd, "queued", p, i)
    BY <1>1, <2>1, <2>4
  <2>5. CASE \E i \in Nat : e = <<"job", i>> /\ Held(fd, "job", 0, i)
    BY <1>1, <2>1, <2>5
  <2>6. CASE \E x \in Handlers : e = <<"callback", x>> /\ Held(fd, "handler", x, 0)
    BY <1>1, <2>1, <2>6
  <2> QED
    BY <1>1, <2>2, <2>3, <2>4, <2>5, <2>6
<1>3. ASSUME armed[fd] # {} PROVE EventsOf(fd) = {}
  <2>1. Held(fd, "armed", 0, 0)
    BY <1>3 DEF Held
  <2>2. ASSUME NEW k, NEW a, NEW b, Held(fd, k, a, b) PROVE k = "armed"
    BY <1>s, <2>1, <2>2 DEF Serial
  <2> QED
    BY <1>1, <2>2
<1>4. EventsOf(fd) = {} \/ \E e : EventsOf(fd) = {e}
  BY <1>2
<1>5. CASE EventsOf(fd) = {}
  BY <1>5, FS_EmptySet
<1>6. CASE EventsOf(fd) # {}
  <2>1. Cardinality(EventsOf(fd)) = 1
    BY <1>4, <1>6, FS_Singleton
  <2> QED
    BY <1>3, <1>6, <2>1
<1> QED
  BY <1>5, <1>6

(* With the callers' rules kept, at most one event of a descriptor is      *)
(* between epoll_wait and the return of its callback, and none while it is *)
(* armed (EPOLLONESHOT, and EPOLL_CTL_MOD last).                           *)
THEOREM CallbacksAreSerial ==
    ASSUME LoopAssumption, CallersKeepRules PROVE Spec => []CallbacksSerial
<1>1. Init => SerialInv
  BY InitTypes, InitPlaced DEF SerialInv
<1>2. SerialInv /\ [Next]_vars => SerialInv'
  BY SerialInductive
<1>3. SerialInv => CallbacksSerial
  BY SerialCounts
<1> QED
  BY <1>1, <1>2, <1>3, PTL DEF Spec

(* ... epoll watches open descriptors only, and what it reports is in the  *)
(* tree until its event has been queued.                                   *)
THEOREM ReportsFindItems ==
    ASSUME LoopAssumption, CallersKeepRules PROVE Spec => []ReportsHaveItems
<1>1. Init => SerialInv
  BY InitTypes, InitPlaced DEF SerialInv
<1>2. SerialInv /\ [Next]_vars => SerialInv'
  BY SerialInductive
<1>3. SerialInv => ReportsHaveItems
  BY DEF SerialInv, Placed, Kept, TypeOK, ReportsHaveItems
<1> QED
  BY <1>1, <1>2, <1>3, PTL DEF Spec

(* ... and a watched descriptor stays open.                                *)
THEOREM WatchedStaysOpen ==
    ASSUME LoopAssumption, CallersKeepRules PROVE Spec => []WatchedMeansOpen
<1>1. Init => SerialInv
  BY InitTypes, InitPlaced DEF SerialInv
<1>2. SerialInv /\ [Next]_vars => SerialInv'
  BY SerialInductive
<1>3. SerialInv => WatchedMeansOpen
  BY DEF SerialInv, Placed, Kept, WatchedMeansOpen
<1> QED
  BY <1>1, <1>2, <1>3, PTL DEF Spec

-----------------------------------------------------------------------------
(***************************************************************************)
(* Whatever events the callbacks ask for, and however often they change    *)
(* their mind: a watched descriptor is armed, or on its way from epoll to  *)
(* its callback, or held by a handler, until a dispatch of it ends with no *)
(* events.                                                                 *)
(***************************************************************************)

(* What is watched is in epoll, or about to be.                            *)
Reached(fd) == watch[fd] # NoItem => fd \in registered \/ \E x \in Handlers : Adds(x, fd)

(* A handler that re-arms a descriptor does so for some event.             *)
Rearming(x) == h[x].pc \in {"mod_search", "mod_epoll"} => h[x].ret \cap IoEvents # {}

Waiting == DOMAIN reports # {} => mpc = "translate"

HandInv ==
    /\ SerialInv /\ Waiting
    /\ \A fd \in Fds : Reached(fd)
    /\ \A x \in Handlers : Rearming(x)

(* fd is not forgotten by a step.                                          *)
Minded(fd) == Forgotten(fd)' /\ ~Forgotten(fd) => ReturnsNothing(fd)

AllMinded ==
    /\ \A fd \in Fds : Reached(fd)' /\ Minded(fd)
    /\ \A x \in Handlers : Rearming(x)'

-----------------------------------------------------------------------------
(* The items of lists, and descriptors that are away.                      *)

(* What a list holds after an item has been put at its end, or taken from  *)
(* its head.                                                               *)
LEMMA PutAtEnd ==
    ASSUME NEW s \in Seq(Items), NEW ri \in Items, NEW fd, ItemIn(s, fd) \/ ri.src = fd
    PROVE  ItemIn(Append(s, ri), fd)
<1>1. Len(s) \in Nat /\ Len(Append(s, ri)) = Len(s) + 1 /\ Append(s, ri)[Len(s) + 1] = ri
  OBVIOUS
<1>2. \A i \in 1..Len(s) : i \in 1..Len(Append(s, ri)) /\ Append(s, ri)[i] = s[i]
  OBVIOUS
<1>3. Len(s) + 1 \in 1..Len(Append(s, ri))
  BY <1>1
<1> QED
  BY <1>1, <1>2, <1>3 DEF ItemIn

LEMMA TakenFromHead ==
    ASSUME NEW s \in Seq(Items), s # <<>>, NEW fd, ItemIn(s, fd)
    PROVE  Head(s).src = fd \/ ItemIn(Tail(s), fd)
<1>1. Len(s) \in Nat /\ Len(Tail(s)) = Len(s) - 1
  OBVIOUS
<1>2. PICK i \in 1..Len(s) : s[i].src = fd
  BY DEF ItemIn
<1>3. CASE i = 1
  BY <1>2, <1>3, Taken
<1>4. CASE i # 1
  <2>1. i - 1 \in 1..Len(Tail(s)) /\ (i - 1) + 1 = i
    BY <1>1, <1>4
  <2>2. Tail(s)[i - 1] = s[i]
    BY <2>1, Taken
  <2> QED
    BY <1>2, <2>1, <2>2 DEF ItemIn
<1> QED
  BY <1>3, <1>4

(* An item is queued: what is in the queue stays there.                    *)
LEMMA ReadyQueued ==
    ASSUME LoopAssumption, TypeOK, NEW ri \in Items,
           rqueue' = [rqueue EXCEPT ![Prio[ri.src]] = Append(@, ri)]
    PROVE  /\ \A p \in Priorities : \A fd : ItemIn(rqueue[p], fd) => ItemIn(rqueue'[p], fd)
           /\ Prio[ri.src] \in Priorities /\ ItemIn(rqueue'[Prio[ri.src]], ri.src)
<1>1. Prio[ri.src] \in Priorities
  BY DEF LoopAssumption, Items
<1>2. ASSUME NEW p \in Priorities
      PROVE  /\ rqueue[p] \in Seq(Items)
             /\ rqueue'[p] = IF p = Prio[ri.src] THEN Append(rqueue[p], ri) ELSE rqueue[p]
  BY DEF TypeOK
<1> QED
  BY <1>1, <1>2, PutAtEnd

(* The reports that are translated become active, and what is active is    *)
(* queued, handed to the pool and taken by a handler: still away.          *)
LEMMA TranslateAway ==
    ASSUME LoopAssumption, TypeOK, Translate, NEW fd \in Fds, Away(fd)
    PROVE  Away(fd)'
<1>1. UNCHANGED <<rqueue, tpq, h>>
  BY DEF Translate, queueVars
<1>2. (fd \in DOMAIN reports => fd \in DOMAIN reports' \/ fd \in DOMAIN actives')
      /\ DOMAIN actives \subseteq DOMAIN actives'
  <2>1. CASE UNCHANGED <<reports, actives>>
    BY <2>1
  <2>2. CASE reports' = Without(reports, "pipe") /\ UNCHANGED actives
    BY <2>2 DEF Without, LoopAssumption
  <2>3. ASSUME NEW g, NEW evs, actives' = With(actives, g, evs), reports' = Without(reports, g)
        PROVE  DOMAIN reports' = DOMAIN reports \ {g} /\ DOMAIN actives' = DOMAIN actives \cup {g}
    BY <2>3 DEF With, Without
  <2>4. CASE \E g, evs : actives' = With(actives, g, evs) /\ reports' = Without(reports, g)
    <3>1. PICK g, evs : actives' = With(actives, g, evs) /\ reports' = Without(reports, g)
      BY <2>4
    <3>2. DOMAIN reports' = DOMAIN reports \ {g} /\ DOMAIN actives' = DOMAIN actives \cup {g}
      BY <2>3, <3>1
    <3> QED
      BY <3>2
  <2>5. \/ UNCHANGED <<reports, actives>>
        \/ reports' = Without(reports, "pipe") /\ UNCHANGED actives
        \/ \E g, evs : actives' = With(actives, g, evs) /\ reports' = Without(reports, g)
    BY Zenon DEF Translate
  <2> QED
    BY <2>1, <2>2, <2>4, <2>5
<1> QED
  BY <1>1, <1>2 DEF Away, ItemIn, Holds, Adds

LEMMA EqueueAway ==
    ASSUME LoopAssumption, TypeOK, WaitEqueue, NEW fd \in Fds, Away(fd)
    PROVE  Away(fd)'
<1> DEFINE ri == [src |-> found, ev |-> actives[found]]
<1>1. UNCHANGED <<reports, tpq, h>>
  BY DEF WaitEqueue
<1>2. found \in Fds /\ actives[found] \in SUBSET Events
  BY DEF WaitEqueue, Main, TypeOK, LoopAssumption, Events
<1>3. ri \in Items
  BY <1>2 DEF Items, Sources
<1>4. DOMAIN actives' = DOMAIN actives \ {found} /\ rqueue' = [rqueue EXCEPT ![Prio[ri.src]] = Append(@, ri)]
  BY DEF WaitEqueue, Without
<1>5. /\ \A p \in Priorities : \A g : ItemIn(rqueue[p], g) => ItemIn(rqueue'[p], g)
      /\ Prio[ri.src] \in Priorities /\ ItemIn(rqueue'[Prio[ri.src]], ri.src)
  BY <1>3, <1>4, ReadyQueued
<1> HIDE DEF ri
<1>6. CASE fd \in DOMAIN reports \/ ItemIn(tpq, fd) \/ \E x \in Handlers : Holds(x, fd) \/ Adds(x, fd)
  BY <1>1, <1>6 DEF Away, Holds, Adds, ItemIn
<1>7. CASE fd \in DOMAIN actives
  <2>1. CASE fd = found
    BY <1>5, <2>1 DEF Away, ri
  <2>2. CASE fd # found
    BY <1>4, <1>7, <2>2 DEF Away
  <2> QED BY <2>1, <2>2
<1>8. ASSUME NEW p \in Priorities, ItemIn(rqueue[p], fd) PROVE Away(fd)'
  BY <1>5, <1>8 DEF Away
<1> QED
  BY <1>6, <1>7, <1>8 DEF Away

LEMMA DrainAway ==
    ASSUME TypeOK, Drain, NEW fd \in Fds, Away(fd)
    PROVE  Away(fd)'
<1>1. UNCHANGED <<reports, actives, h>>
  BY DEF Drain, mainVars
<1>2. PICK p \in Priorities : p = hp
  BY DEF TypeOK
<1>3. rqueue[p] \in Seq(Items) /\ rqueue[p] # <<>> /\ tpq \in Seq(Items)
  BY <1>2 DEF Drain, TypeOK
<1>4. /\ tpq' = Append(tpq, Head(rqueue[p]))
      /\ \A q \in Priorities : rqueue'[q] = IF q = p THEN Tail(rqueue[p]) ELSE rqueue[q]
  BY <1>2 DEF Drain, TypeOK
<1>5. /\ Head(rqueue[p]) \in Items
      /\ ItemIn(rqueue[p], fd) => Head(rqueue[p]).src = fd \/ ItemIn(Tail(rqueue[p]), fd)
  BY <1>3, Taken, TakenFromHead
<1>6. ItemIn(tpq, fd) \/ Head(rqueue[p]).src = fd => ItemIn(tpq', fd)
  BY <1>3, <1>4, <1>5, PutAtEnd
<1>7. CASE \E q \in Priorities : ItemIn(rqueue[q], fd)
  <2>1. PICK q \in Priorities : ItemIn(rqueue[q], fd)
    BY <1>7
  <2>2. ItemIn(rqueue'[q], fd) \/ ItemIn(tpq', fd)
    BY <1>4, <1>5, <1>6, <2>1
  <2> QED
    BY <2>2 DEF Away
<1>8. CASE ~\E q \in Priorities : ItemIn(rqueue[q], fd)
  BY <1>1, <1>6, <1>8 DEF Away, Holds, Adds
<1> QED
  BY <1>7, <1>8

LEMMA StartAway ==
    ASSUME TypeOK, NEW x \in Handlers, HandlerStart(x), NEW fd \in Fds
    PROVE  /\ Away(fd) => Away(fd)'
           /\ \A y \in Handlers : Adds(y, fd)' <=> Adds(y, fd)
<1>1. tpq \in Seq(Items) /\ tpq # <<>> /\ tpq' = Tail(tpq) /\ h[x].pc = "idle" /\ UNCHANGED <<reports, actives, rqueue>>
  BY DEF HandlerStart, TypeOK, At, mainVars
<1>2. /\ Head(tpq) \in Items
      /\ ItemIn(tpq, fd) => Head(tpq).src = fd \/ ItemIn(Tail(tpq), fd)
  BY <1>1, Taken, TakenFromHead
<1>3. /\ h'[x] = [pc |-> "callback", ri |-> Head(tpq), ret |-> h[x].ret, arg |-> h[x].arg]
      /\ \A y \in Handlers \ {x} : h'[y] = h[y]
  BY <1>2, HandlerTakes, TypesOfHandlers DEF HandlerStart
<1>4. Head(tpq).src = fd => Holds(x, fd)'
  BY <1>3 DEF Holds
<1>5. \A y \in Handlers : Holds(y, fd) => Holds(y, fd)'
  BY <1>1, <1>3 DEF Holds
<1>6. \A y \in Handlers : Adds(y, fd)' <=> Adds(y, fd)
  BY <1>1, <1>3 DEF Adds
<1> QED
  BY <1>1, <1>2, <1>4, <1>5, <1>6 DEF Away

-----------------------------------------------------------------------------
(* Steps by what they do to the descriptors.                               *)

(* Only reports and their translation concern the reports.                 *)
LEMMA StillWaiting ==
    ASSUME HandInv, Next PROVE Waiting'
<1> USE DEF HandInv, Waiting
<1>1. CASE MainStep \/ EpollInterrupted \/ LoopRun
  <2>1. CASE EpollReport
    BY <2>1 DEF EpollReport, Goto
  <2>2. CASE Translate
    BY <2>2 DEF Translate, Main, Goto, With, Without
  <2>3. CASE ~EpollReport /\ ~Translate
    <3>1. reports' = reports /\ mpc # "translate"
      BY <1>1, <2>3 DEF MainStep, LoopTest, TestBusy, TestRq, TestWpool, TestRunning, ChooseWait,
           EpollInterrupted, LoopRun, OutsideLoop, EpollTimeout, CountReady, Drain, Drained,
           ClearNotification, WaitSearch, WaitEqueue, Main, mainVars
    <3> QED
      BY <3>1
  <2> QED
    BY <2>1, <2>2, <2>3
<1>2. ASSUME NEW x \in Handlers, HandlerStep(x) \/ StopSet(x) PROVE UNCHANGED <<mpc, reports>>
  BY <1>2 DEF HandlerStep, HandlerStart, CallbackReturn, FreeItem, Requeue, DelTree, DelEpoll, DelFree,
       ModSearch, ModEpoll, ModEvents, StopNotify, AddTree, AddEpoll, StopSet, mainVars
<1>3. ASSUME NEW x \in Handlers, NEW fd \in Fds, AddOpen(x, fd) PROVE UNCHANGED <<mpc, reports>>
  BY <1>3 DEF AddOpen, mainVars
<1>4. ASSUME NEW x \in Handlers, NEW a \in Asyncs, CallbackAsync(x, a) PROVE UNCHANGED <<mpc, reports>>
  BY <1>4 DEF CallbackAsync, mainVars
<1>5. ASSUME \/ \E fd \in Fds : MainAdd(fd) \/ \E e \in IoEvents : IoReady(fd, e)
             \/ \E a \in Asyncs : MainAsync(a)
      PROVE  UNCHANGED <<mpc, reports>>
  BY <1>5 DEF MainAdd, IoReady, MainAsync, mainVars
<1> QED
  BY <1>1, <1>2, <1>3, <1>4, <1>5 DEF Next

(* A step of the main thread or of epoll.                                  *)
LEMMA MainMinds ==
    ASSUME HandInv, UNCHANGED <<h, watch, registered>>,
           \A fd \in Fds : /\ Away(fd) => Away(fd)'
                           /\ armed[fd] # {} => armed'[fd] # {} \/ Away(fd)'
    PROVE  AllMinded
<1>1. ASSUME NEW fd \in Fds PROVE Reached(fd)' /\ Minded(fd)
  BY DEF HandInv, Reached, Minded, Forgotten, Adds
<1>2. ASSUME NEW x \in Handlers PROVE Rearming(x)'
  BY DEF HandInv, Rearming
<1> QED
  BY <1>1, <1>2 DEF AllMinded

(* x goes on with its item, and drops only what is not watched, or what    *)
(* the callback returned nothing for.                                      *)
LEMMA HandlerMinds ==
    ASSUME HandInv, NEW x \in Handlers, GoesOn(x), h[x].pc \notin {"add_tree", "add_epoll"},
           h'[x].pc # "mod_events", UNCHANGED <<reports, actives, tpq, armed>>, Rearming(x)',
           \A p \in Priorities : \A fd \in Fds : ItemIn(rqueue[p], fd) => ItemIn(rqueue'[p], fd),
           \A fd \in Fds : watch'[fd] # NoItem =>
                              /\ watch[fd] # NoItem
                              /\ fd \in registered => fd \in registered'
                              /\ Holds(x, fd) => h'[x].pc # "idle" \/ ReturnsNothing(fd)
    PROVE  AllMinded
<1>1. ASSUME NEW fd \in Fds PROVE Reached(fd)' /\ Minded(fd)
  <2>1. \A y \in Handlers : Adds(y, fd)' <=> Adds(y, fd)
    BY DEF Adds, GoesOn
  <2>2. Reached(fd)'
    BY <2>1 DEF HandInv, Reached
  <2>3. \A y \in Handlers : Holds(y, fd) => Holds(y, fd)' \/ (y = x /\ h'[x].pc = "idle")
    BY DEF Holds, GoesOn
  <2>4. watch'[fd] # NoItem /\ ~ReturnsNothing(fd) /\ Away(fd) => Away(fd)'
    BY <2>1, <2>3 DEF Away
  <2> QED
    BY <2>2, <2>4 DEF Minded, Forgotten
<1>2. ASSUME NEW y \in Handlers, y # x PROVE Rearming(y)'
  BY <1>2 DEF HandInv, Rearming, GoesOn
<1> QED
  BY <1>1, <1>2 DEF AllMinded

(* x and its one descriptor: nothing happens to the others.                *)
LEMMA OthersMinded ==
    ASSUME HandInv, NEW x \in Handlers, NEW fd \in Fds, \A y \in Handlers \ {x} : h'[y] = h[y],
           UNCHANGED <<reports, actives, rqueue, tpq>>, Rearming(x)', Reached(fd)', Minded(fd),
           \A g \in Fds \ {fd} :
              /\ armed'[g] = armed[g] /\ watch'[g] = watch[g]
              /\ g \in registered => g \in registered'
              /\ Holds(x, g) => Holds(x, g)'
              /\ ~Adds(x, g)
    PROVE  AllMinded
<1>1. ASSUME NEW g \in Fds \ {fd} PROVE Reached(g)' /\ Minded(g)
  <2>1. \A y \in Handlers : /\ Adds(y, g) => Adds(y, g)'
                            /\ Holds(y, g) => Holds(y, g)'
    BY DEF Adds, Holds
  <2>2. Away(g) => Away(g)'
    BY <2>1 DEF Away
  <2>3. Reached(g)'
    BY <2>1 DEF HandInv, Reached
  <2> QED
    BY <2>2, <2>3 DEF Minded, Forgotten
<1>2. ASSUME NEW y \in Handlers, y # x PROVE Rearming(y)'
  BY <1>2 DEF HandInv, Rearming
<1> QED
  BY <1>1, <1>2 DEF AllMinded

-----------------------------------------------------------------------------
(* The steps.                                                              *)

LEMMA MainStepMinds ==
    ASSUME LoopAssumption, HandInv, MainStep \/ EpollInterrupted \/ LoopRun
    PROVE  AllMinded
<1> USE DEF HandInv, SerialInv
<1>1. CASE EpollReport
  <2>1. UNCHANGED <<actives, rqueue, tpq, h, watch, registered>>
    BY <1>1 DEF EpollReport, queueVars
  <2>2. DOMAIN reports = {}
    BY <1>1 DEF EpollReport, Main, Waiting
  <2>3. \A fd \in Fds : IF fd \in Triggered THEN fd \in DOMAIN reports' ELSE armed'[fd] = armed[fd]
    BY <1>1 DEF EpollReport
  <2>4. ASSUME NEW fd \in Fds
        PROVE  /\ Away(fd) => Away(fd)'
               /\ armed[fd] # {} => armed'[fd] # {} \/ Away(fd)'
    BY <2>1, <2>2, <2>3 DEF Away, ItemIn, Holds, Adds
  <2> QED
    BY <2>1, <2>4, MainMinds
<1>2. CASE Translate
  BY <1>2, TranslateAway, MainMinds DEF Translate, kernelVars
<1>3. CASE WaitEqueue
  BY <1>3, EqueueAway, MainMinds DEF WaitEqueue, kernelVars
<1>4. CASE Drain
  BY <1>4, DrainAway, MainMinds DEF Drain, kernelVars
<1>5. CASE ~EpollReport /\ ~Translate /\ ~WaitEqueue /\ ~Drain
  <2>1. UNCHANGED <<reports, rqueue, tpq, h, watch, registered, armed>>
    BY <1>5 DEF MainStep, LoopTest, EpollInterrupted, LoopRun, EpollTimeout, CountReady, Drained,
         ClearNotification, WaitSearch, queueVars, kernelVars
  <2>2. actives' = actives
    <3>1. CASE WaitSearch
      BY <3>1 DEF WaitSearch, Placed, Kept, TypeOK
    <3>2. CASE ~WaitSearch
      BY <1>5, <3>2 DEF MainStep, LoopTest, EpollInterrupted, LoopRun, EpollTimeout, CountReady,
           Drained, ClearNotification
    <3> QED
      BY <3>1, <3>2
  <2>3. \A fd \in Fds : Away(fd) => Away(fd)'
    BY <2>1, <2>2 DEF Away, ItemIn, Holds, Adds
  <2> QED
    BY <2>1, <2>3, MainMinds
<1> QED
  BY <1>1, <1>2, <1>3, <1>4, <1>5

LEMMA StartMinds ==
    ASSUME HandInv, NEW x \in Handlers, HandlerStart(x) PROVE AllMinded
<1>1. TypeOK /\ UNCHANGED <<watch, registered, armed>>
  BY DEF HandInv, SerialInv, HandlerStart, kernelVars
<1>2. ASSUME NEW fd \in Fds PROVE Reached(fd)' /\ Minded(fd)
  BY <1>1, StartAway DEF HandInv, Reached, Minded, Forgotten
<1>3. ASSUME NEW y \in Handlers PROVE Rearming(y)'
  <2>1. Head(tpq) \in Items
    BY <1>1, Taken DEF HandlerStart, TypeOK
  <2>2. /\ h'[x] = [pc |-> "callback", ri |-> Head(tpq), ret |-> h[x].ret, arg |-> h[x].arg]
        /\ \A z \in Handlers \ {x} : h'[z] = h[z]
    BY <1>1, <2>1, HandlerTakes, TypesOfHandlers DEF HandlerStart
  <2> QED
    BY <2>2 DEF HandInv, Rearming
<1> QED
  BY <1>2, <1>3 DEF AllMinded

(* The callback returns, perhaps nothing.                                  *)
LEMMA ReturnMinds ==
    ASSUME LoopAssumption, HandInv, NEW x \in Handlers, CallbackReturn(x) PROVE AllMinded
<1>1. /\ UNCHANGED <<reports, actives, rqueue, tpq, watch, registered, armed>>
      /\ h[x].pc = "callback" /\ h[x].ri \in Items
  BY DEF CallbackReturn, mainVars, queueVars, At, HandInv, SerialInv, TypeOK
<1>2. PICK ret \in Results(h[x].ri) :
          IF ret = {}
          THEN Leave(x)
          ELSE h' = [h EXCEPT ![x].ret = ret,
                              ![x].pc = After(ret)]
  BY DEF CallbackReturn
<1>3. CASE ret = {}
  <2>1. GoesOn(x) /\ h'[x].pc = "idle"
    BY <1>2, <1>3, LeaveQuiet DEF HandInv
  <2>2. \A fd \in Fds : Holds(x, fd) => ReturnsNothing(fd)
    BY <1>1, <2>1 DEF Holds, ReturnsNothing
  <2> QED
    BY <1>1, <2>1, <2>2, HandlerMinds DEF Rearming
<1>4. CASE ret # {}
  <2>1. ret \in SUBSET Events
    BY DEF Results, Events, LoopAssumption
  <2>2. After(ret) \in {"free_ri", "del_tree", "requeue", "mod_search"}
    BY DEF After
  <2>3. After(ret) \in HandlerAt
    BY <2>2 DEF HandlerAt
  <2>4. /\ h'[x] = [pc |-> After(ret), ri |-> h[x].ri, ret |-> ret, arg |-> h[x].arg]
        /\ \A y \in Handlers \ {x} : h'[y] = h[y]
    BY <1>1, <1>2, <1>4, <2>1, <2>2, <2>3, HandlerReturns, TypesOfHandlers DEF HandInv, SerialInv
  <2>5. GoesOn(x)
    BY <1>1, <2>2, <2>4 DEF GoesOn
  <2>6. Rearming(x)'
    <3>1. After(ret) = "mod_search" => "EV_FIN" \notin ret /\ "EV_ASYNC" \notin ret
      BY DEF After
    <3>2. ret \subseteq IoEvents \cup {"EV_FIN"} \/ ret \subseteq {"EV_ASYNC", "EV_FIN"}
      BY <1>4 DEF Results, LoopAssumption
    <3>3. After(ret) = "mod_search" => ret \cap IoEvents # {}
      BY <1>4, <3>1, <3>2
    <3> QED
      BY <2>2, <2>4, <3>3 DEF Rearming
  <2> QED
    BY <1>1, <2>2, <2>4, <2>5, <2>6, HandlerMinds
<1> QED
  BY <1>3, <1>4

LEMMA SimpleMinds ==
    ASSUME LoopAssumption, HandInv, NEW x \in Handlers,
           FreeItem(x) \/ StopNotify(x) \/ StopSet(x) \/ ModSearch(x)
    PROVE  AllMinded
<1> USE DEF At, mainVars, queueVars, kernelVars
<1>1. UNCHANGED <<reports, actives, rqueue, tpq, watch, registered, armed>>
  BY DEF FreeItem, StopNotify, StopSet, ModSearch, InCallback
<1>2. Stage(x) /\ Rearming(x)
  BY DEF HandInv, SerialInv, Placed
<1>3. CASE FreeItem(x)
  <2>1. GoesOn(x) /\ h'[x].pc = "idle" /\ h[x].pc = "free_ri"
    BY <1>3, LeaveQuiet DEF FreeItem, HandInv
  <2>2. \A fd \in Fds : ~Holds(x, fd)
    BY <1>2, <2>1 DEF Stage, Holds
  <2> QED
    BY <1>1, <2>1, <2>2, HandlerMinds DEF Rearming
<1>4. CASE StopNotify(x) \/ StopSet(x)
  <2>1. GoesOn(x) /\ h'[x].pc \in {"callback", "stop_notify"} /\ h[x].pc \in {"callback", "stop_notify"}
    BY <1>4, MoveQuiet DEF StopNotify, StopSet, InCallback, HandInv
  <2> QED
    BY <1>1, <2>1, HandlerMinds DEF Rearming
<1>5. CASE ModSearch(x)
  <2>1. FdOf(x) = h[x].ri.src /\ h[x].pc = "mod_search"
    BY <1>2, <1>5 DEF ModSearch, Stage, FdOf
  <2>2. CASE watch[FdOf(x)] = NoItem
    <3>1. GoesOn(x) /\ h'[x].pc = "idle"
      BY <1>5, <2>2, LeaveQuiet DEF ModSearch, HandInv
    <3>2. \A fd \in Fds : Holds(x, fd) => watch'[fd] = NoItem
      BY <1>1, <2>1, <2>2 DEF Holds
    <3> QED
      BY <1>1, <2>1, <3>1, <3>2, HandlerMinds DEF Rearming
  <2>3. CASE watch[FdOf(x)] # NoItem
    <3>1. GoesOn(x) /\ h'[x].pc = "mod_epoll" /\ h'[x].ret = h[x].ret
      BY <1>5, <2>1, <2>3, MoveQuiet DEF ModSearch, HandInv
    <3> QED
      BY <1>1, <1>2, <2>1, <3>1, HandlerMinds DEF Rearming
  <2> QED
    BY <2>2, <2>3
<1> QED
  BY <1>3, <1>4, <1>5

(* Only what is of no descriptor is queued again.                          *)
LEMMA RequeueMinds ==
    ASSUME LoopAssumption, HandInv, NEW x \in Handlers, Requeue(x) PROVE AllMinded
<1> USE DEF HandInv, SerialInv
<1> DEFINE ri == [src |-> h[x].ri.src, ev |-> h[x].ret]
<1>1. /\ UNCHANGED <<reports, actives, tpq, watch, registered, armed>>
      /\ rqueue' = [rqueue EXCEPT ![Prio[ri.src]] = Append(@, ri)]
      /\ GoesOn(x) /\ h'[x].pc = "idle" /\ h[x].pc = "requeue"
  BY LeaveQuiet DEF Requeue, MakeReady, mainVars, kernelVars, At
<1>2. ri \in Items /\ ri.src \notin Fds
  BY <1>1 DEF Placed, Stage, Items, TypeOK, HandlerStates
<1>3. \A p \in Priorities : \A fd \in Fds : ItemIn(rqueue[p], fd) => ItemIn(rqueue'[p], fd)
  BY <1>1, <1>2, ReadyQueued
<1>4. Rearming(x)' /\ \A fd \in Fds : ~Holds(x, fd)
  BY <1>1, <1>2 DEF Rearming, Holds
<1> QED
  BY <1>1, <1>3, <1>4, HandlerMinds

(* What is deleted is no longer watched.                                   *)
LEMMA DelMinds ==
    ASSUME LoopAssumption, HandInv, NEW x \in Handlers, DelTree(x) \/ DelEpoll(x) \/ DelFree(x)
    PROVE  AllMinded
<1> USE DEF At, mainVars, queueVars, kernelVars
<1>1. PICK fd \in Fds : fd = h[x].ri.src /\ fd = FdOf(x) /\ Holds(x, fd)
  BY DEF DelTree, DelEpoll, DelFree, HandInv, SerialInv, Placed, Stage, FdOf, Holds
<1>2. armed[fd] = {} /\ \A g \in Fds : Holds(x, g) => g = fd
  BY <1>1, HolderAlone DEF HandInv, SerialInv, Placed, Holds
<1>3. TypeOK /\ Stage(x) /\ UNCHANGED <<reports, actives, rqueue, tpq>>
  BY DEF HandInv, SerialInv, Placed, DelTree, DelEpoll, DelFree
<1>4. CASE DelTree(x)
  <2>1. GoesOn(x) /\ h'[x].pc \in {"idle", "del_epoll"} /\ h[x].pc = "del_tree"
    BY <1>4, LeaveQuiet, MoveQuiet DEF DelTree, HandInv
  <2>2. UNCHANGED <<registered, armed>> /\ watch'[fd] = NoItem /\ \A g \in Fds : g # fd => watch'[g] = watch[g]
    BY <1>1, <1>3, <1>4 DEF DelTree, TypeOK
  <2> QED
    BY <1>2, <1>3, <2>1, <2>2, HandlerMinds DEF Rearming
<1>5. CASE DelEpoll(x)
  <2>1. /\ registered' = registered \ {fd} /\ armed' = [armed EXCEPT ![fd] = {}]
        /\ Move(x, "del_free") /\ watch' = watch /\ h[x].pc = "del_epoll"
    BY <1>1, <1>5 DEF DelEpoll
  <2>2. GoesOn(x) /\ h'[x].pc = "del_free"
    BY <2>1, MoveQuiet DEF HandInv
  <2>3. watch[fd] = NoItem /\ armed' = armed
    BY <1>1, <1>2, <1>3, <2>1 DEF Stage, TypeOK
  <2> QED
    BY <1>3, <2>1, <2>2, <2>3, HandlerMinds DEF Rearming
<1>6. CASE DelFree(x)
  <2>1. Leave(x) /\ h[x].pc = "del_free" /\ UNCHANGED <<watch, registered, armed>>
    BY <1>6 DEF DelFree
  <2>2. GoesOn(x) /\ h'[x].pc = "idle"
    BY <2>1, LeaveQuiet DEF HandInv
  <2>3. watch[fd] = NoItem
    BY <1>1, <1>3, <2>1 DEF Stage
  <2> QED
    BY <1>2, <1>3, <2>1, <2>2, <2>3, HandlerMinds DEF Rearming
<1> QED
  BY <1>4, <1>5, <1>6

(* What is re-armed was in epoll, and is armed for something.              *)
LEMMA ModEpollMinds ==
    ASSUME LoopAssumption, HandInv, NEW x \in Handlers, ModEpoll(x) PROVE AllMinded
<1> USE DEF HandInv
<1>1. TypeOK /\ h[x].pc = "mod_epoll" /\ Rearming(x) /\ Stage(x)
  BY DEF ModEpoll, At, SerialInv, Placed
<1>2. PICK fd \in Fds : fd = h[x].ri.src /\ fd = FdOf(x) /\ Holds(x, fd)
  BY <1>1 DEF Stage, FdOf, Holds
<1>3. Serial(fd) /\ Reached(fd) /\ watch[fd] # NoItem
  BY <1>1, <1>2 DEF SerialInv, Placed, Stage
<1>4. fd \in registered
  BY <1>2, <1>3, HolderAlone DEF Reached
<1>5. /\ armed' = [armed EXCEPT ![fd] = h[x].ret \cap IoEvents] /\ Move(x, "mod_events")
      /\ UNCHANGED <<reports, actives, rqueue, tpq, watch, registered>>
  BY ZenonT(60), <1>2, <1>4 DEF ModEpoll, mainVars, queueVars
<1>6. h'[x].pc = "mod_events" /\ \A y \in Handlers \ {x} : h'[y] = h[y]
  BY <1>1, <1>5, MoveQuiet DEF GoesOn
<1>7. armed'[fd] # {} /\ \A g \in Fds \ {fd} : armed'[g] = armed[g]
  BY <1>1, <1>5 DEF TypeOK, Rearming
<1>8. \A g \in Fds \ {fd} : ~Holds(x, g) /\ ~Adds(x, g)
  BY <1>1, <1>2 DEF Holds, Adds
<1>9. Rearming(x)' /\ Reached(fd)' /\ Minded(fd)
  BY <1>4, <1>5, <1>6, <1>7 DEF Rearming, Reached, Minded, Forgotten
<1> QED
  BY <1>5, <1>6, <1>7, <1>8, <1>9, OthersMinded

LEMMA ModEventsMinds ==
    ASSUME LoopAssumption, HandInv, NEW x \in Handlers, ModEvents(x) PROVE AllMinded
<1> USE DEF HandInv
<1>1. TypeOK /\ h[x].pc = "mod_events" /\ Stage(x)
  BY DEF ModEvents, At, SerialInv, Placed
<1>2. PICK fd \in Fds : fd = FdOf(x)
  BY <1>1 DEF Stage, FdOf
<1>3. /\ watch' = [watch EXCEPT ![fd] = IF @ = NoItem THEN NoItem ELSE h[x].ret]
      /\ Leave(x) /\ UNCHANGED <<reports, actives, rqueue, tpq, registered, armed>>
  BY <1>2 DEF ModEvents, mainVars, queueVars, kernelVars
<1>4. h'[x] = IdleHandler /\ \A y \in Handlers \ {x} : h'[y] = h[y]
  BY <1>1, <1>3, HandlerLeaves, TypesOfHandlers
<1>5. /\ \A g \in Fds \ {fd} : watch'[g] = watch[g]
      /\ watch'[fd] # NoItem => watch[fd] # NoItem
  BY <1>1, <1>3 DEF TypeOK
<1>6. \A g \in Fds, y \in Handlers :
         /\ Holds(y, g)' <=> Holds(y, g)
         /\ Adds(y, g)' <=> Adds(y, g)
  BY <1>1, <1>4 DEF Holds, Adds, IdleHandler
<1>7. \A g \in Fds \ {fd} : (Holds(x, g) => Holds(x, g)') /\ ~Adds(x, g)
  BY <1>1, <1>6 DEF Adds
<1>8. Reached(fd)' /\ Minded(fd)
  <2>1. Away(fd) => Away(fd)'
    BY <1>3, <1>6 DEF Away
  <2> QED
    BY <1>3, <1>5, <1>6, <2>1 DEF Reached, Minded, Forgotten
<1>9. Rearming(x)'
  BY <1>4 DEF Rearming, IdleHandler
<1> QED
  BY <1>3, <1>4, <1>5, <1>7, <1>8, <1>9, OthersMinded

LEMMA OpenMinds ==
    ASSUME LoopAssumption, HandInv, NEW x \in Handlers, NEW fd \in Fds, AddOpen(x, fd)
    PROVE  AllMinded
<1>1. /\ h[x].pc = "callback" /\ h[x].ri \in Items /\ TypeOK
      /\ UNCHANGED <<reports, actives, rqueue, tpq, watch, registered, armed>>
  BY DEF AddOpen, InCallback, At, mainVars, queueVars, HandInv, SerialInv, TypeOK
<1>2. /\ h'[x] = [pc |-> "add_tree", ri |-> h[x].ri, ret |-> h[x].ret, arg |-> fd]
      /\ \A y \in Handlers \ {x} : h'[y] = h[y]
  <2>1. "add_tree" \in HandlerAt /\ fd \in Fds \cup {NoItem}
    BY DEF HandlerAt
  <2>2. Adding(x, "add_tree", fd) /\ HandlersOK
    BY <1>1, TypesOfHandlers DEF AddOpen, Adding
  <2> QED
    BY <1>1, <2>1, <2>2, HandlerAdds
<1>3. \A g \in Fds : (Holds(x, g) => Holds(x, g)') /\ ~Adds(x, g)
  BY <1>1, <1>2 DEF Holds, Adds
<1>4. Adds(x, fd)' /\ Away(fd)'
  BY <1>2 DEF Adds, Away
<1>5. Rearming(x)' /\ Reached(fd)' /\ Minded(fd)
  BY <1>2, <1>4 DEF Rearming, Reached, Minded, Forgotten
<1> QED
  BY <1>1, <1>2, <1>3, <1>5, OthersMinded

LEMMA AddTreeMinds ==
    ASSUME LoopAssumption, HandInv, NEW x \in Handlers, AddTree(x) PROVE AllMinded
<1> USE DEF HandInv
<1>1. TypeOK /\ h[x].pc = "add_tree" /\ Stage(x)
  BY DEF AddTree, At, SerialInv, Placed
<1>2. PICK fd \in Fds : fd = h[x].arg
  BY <1>1 DEF TypeOK
<1>3. /\ watch' = [watch EXCEPT ![fd] = AddEvents] /\ Move(x, "add_epoll")
      /\ UNCHANGED <<reports, actives, rqueue, tpq, registered, armed>>
  BY <1>1, <1>2 DEF AddTree, Stage, mainVars, queueVars, kernelVars
<1>4. /\ h'[x] = [pc |-> "add_epoll", ri |-> h[x].ri, ret |-> h[x].ret, arg |-> h[x].arg]
      /\ \A y \in Handlers \ {x} : h'[y] = h[y]
  <2>1. "add_epoll" \in HandlerAt /\ h[x].pc # "idle" /\ h[x].arg \in Fds
    BY <1>1, <1>2 DEF HandlerAt
  <2> QED
    BY <1>1, <1>3, <2>1, HandlerMoves, TypesOfHandlers
<1>5. \A g \in Fds \ {fd} : watch'[g] = watch[g] /\ (Holds(x, g) => Holds(x, g)') /\ ~Adds(x, g)
  BY <1>1, <1>2, <1>3, <1>4 DEF TypeOK, Holds, Adds
<1>6. Adds(x, fd)' /\ Away(fd)'
  BY <1>2, <1>4 DEF Adds, Away
<1>7. Rearming(x)' /\ Reached(fd)' /\ Minded(fd)
  BY <1>4, <1>6 DEF Rearming, Reached, Minded, Forgotten
<1> QED
  BY <1>3, <1>4, <1>5, <1>7, OthersMinded

LEMMA AddEpollMinds ==
    ASSUME LoopAssumption, HandInv, NEW x \in Handlers, AddEpoll(x) PROVE AllMinded
<1> USE DEF HandInv
<1>1. TypeOK /\ h[x].pc = "add_epoll" /\ h[x].ri \in Items
  BY DEF AddEpoll, At, SerialInv, TypeOK
<1>2. PICK fd \in Fds : fd = h[x].arg
  BY <1>1 DEF TypeOK
<1>3. /\ registered' = registered \cup {fd} /\ armed' = [armed EXCEPT ![fd] = AddEvents]
      /\ UNCHANGED <<reports, actives, rqueue, tpq, watch>>
  BY <1>2 DEF AddEpoll, mainVars, queueVars
<1>4. /\ h'[x] = [pc |-> "callback", ri |-> h[x].ri, ret |-> h[x].ret, arg |-> NoItem]
      /\ \A y \in Handlers \ {x} : h'[y] = h[y]
  <2>1. "callback" \in HandlerAt /\ NoItem \in Fds \cup {NoItem}
    BY DEF HandlerAt
  <2>2. Adding(x, "callback", NoItem) /\ HandlersOK
    BY TypesOfHandlers, <1>1 DEF AddEpoll, Adding
  <2> QED
    BY <1>1, <2>1, <2>2, HandlerAdds
<1>5. armed'[fd] # {} /\ \A g \in Fds \ {fd} : armed'[g] = armed[g]
  BY <1>1, <1>3 DEF TypeOK, LoopAssumption
<1>6. \A g \in Fds \ {fd} : (Holds(x, g) => Holds(x, g)') /\ ~Adds(x, g)
  BY <1>1, <1>2, <1>4 DEF Holds, Adds
<1>7. Rearming(x)' /\ Reached(fd)' /\ Minded(fd)
  BY <1>3, <1>4, <1>5 DEF Rearming, Reached, Minded, Forgotten
<1> QED
  BY <1>3, <1>4, <1>5, <1>6, <1>7, OthersMinded

LEMMA MainAddMinds ==
    ASSUME LoopAssumption, HandInv, NEW fd \in Fds, MainAdd(fd) PROVE AllMinded
<1> USE DEF HandInv
<1>1. /\ UNCHANGED <<reports, actives, rqueue, tpq, h>> /\ registered' = registered \cup {fd}
      /\ \A g \in Fds : /\ watch'[g] = IF g = fd THEN AddEvents ELSE watch[g]
                        /\ armed'[g] = IF g = fd THEN AddEvents ELSE armed[g]
  BY DEF MainAdd, mainVars, queueVars, SerialInv, TypeOK
<1>2. ASSUME NEW g \in Fds PROVE Reached(g)' /\ Minded(g)
  <2>1. Away(g) => Away(g)'
    BY <1>1 DEF Away, Holds, Adds
  <2>2. Reached(g)'
    BY <1>1 DEF Reached, Adds
  <2>3. armed[g] # {} => armed'[g] # {}
    BY <1>1 DEF LoopAssumption
  <2>4. watch'[g] # NoItem => watch[g] # NoItem \/ armed'[g] # {}
    BY <1>1 DEF LoopAssumption
  <2> QED
    BY <2>1, <2>2, <2>3, <2>4 DEF Minded, Forgotten
<1>3. ASSUME NEW x \in Handlers PROVE Rearming(x)'
  BY <1>1 DEF Rearming
<1> QED
  BY <1>2, <1>3 DEF AllMinded

LEMMA AsyncMinds ==
    ASSUME LoopAssumption, HandInv, NEW a \in Asyncs,
           MainAsync(a) \/ \E x \in Handlers : CallbackAsync(x, a)
    PROVE  AllMinded
<1> DEFINE ri == [src |-> a, ev |-> {"EV_ASYNC"}]
<1>1. /\ UNCHANGED <<reports, actives, tpq, h, watch, registered, armed>>
      /\ rqueue' = [rqueue EXCEPT ![Prio[ri.src]] = Append(@, ri)]
  BY DEF MainAsync, CallbackAsync, MakeReady, mainVars, kernelVars
<1>2. ri \in Items /\ TypeOK
  BY DEF Items, Sources, Events, HandInv, SerialInv
<1>3. \A p \in Priorities : \A fd \in Fds : ItemIn(rqueue[p], fd) => ItemIn(rqueue'[p], fd)
  BY <1>1, <1>2, ReadyQueued
<1>4. \A fd \in Fds : Away(fd) => Away(fd)'
  BY <1>1, <1>3 DEF Away, Holds, Adds
<1> QED
  BY <1>1, <1>4, MainMinds

-----------------------------------------------------------------------------
LEMMA NextMinds == ASSUME LoopAssumption, HandInv, Next PROVE AllMinded
<1>1. ASSUME NEW x \in Handlers, HandlerStep(x) \/ StopSet(x) PROVE AllMinded
  BY <1>1, StartMinds, ReturnMinds, SimpleMinds, RequeueMinds, DelMinds, ModEpollMinds,
     ModEventsMinds, AddTreeMinds, AddEpollMinds DEF HandlerStep
<1>2. ASSUME NEW fd \in Fds, NEW e \in IoEvents, IoReady(fd, e) PROVE AllMinded
  <2>1. UNCHANGED <<reports, actives, rqueue, tpq, h, watch, registered, armed>>
    BY <1>2 DEF IoReady, mainVars, queueVars
  <2>2. \A g \in Fds : Away(g) => Away(g)'
    BY <2>1 DEF Away, Holds, Adds
  <2> QED
    BY <2>1, <2>2, MainMinds
<1> QED
  BY <1>1, <1>2, MainStepMinds, MainAddMinds, AsyncMinds, OpenMinds DEF Next

LEMMA HandInductive ==
    ASSUME LoopAssumption, CallersKeepRules, HandInv, [Next]_vars
    PROVE  HandInv' /\ [\A fd \in Fds : Forgotten(fd)' /\ ~Forgotten(fd) => ReturnsNothing(fd)]_vars
<1>1. SerialInv'
  BY SerialInductive DEF HandInv
<1>2. CASE Next
  <2>1. AllMinded /\ Waiting'
    BY <1>2, NextMinds, StillWaiting
  <2> QED
    BY <1>1, <2>1 DEF AllMinded, HandInv, Minded
<1>3. CASE UNCHANGED vars
  <2>1. UNCHANGED <<mpc, reports, h, watch, registered>>
    BY <1>3 DEF vars, mainVars, kernelVars
  <2> QED
    BY <1>1, <1>3, <2>1 DEF HandInv, Waiting, Reached, Rearming, Adds
<1> QED
  BY <1>2, <1>3

LEMMA InitHand == ASSUME LoopAssumption, Init PROVE HandInv
<1>1. SerialInv
  BY InitTypes, InitPlaced DEF SerialInv
<1>2. Waiting /\ \A fd \in Fds : Reached(fd)
  BY DEF Init, Waiting, Reached
<1>3. \A x \in Handlers : Rearming(x)
  BY DEF Init, IdleHandler, Rearming
<1> QED
  BY <1>1, <1>2, <1>3 DEF HandInv

(* Whatever events callbacks ask for, the same or others every time, no    *)
(* interleaving of handlers that re-arm, delete and add descriptors drops  *)
(* one that is watched: when neither epoll nor any thread will come back   *)
(* to it by itself, a dispatch of it has ended with no events.             *)
THEOREM OnlyNothingForgets ==
    ASSUME LoopAssumption, CallersKeepRules PROVE Spec => ForgottenByNothing
<1>1. Init => HandInv
  BY InitHand
<1>2. HandInv /\ [Next]_vars
        => HandInv' /\ [\A fd \in Fds : Forgotten(fd)' /\ ~Forgotten(fd) => ReturnsNothing(fd)]_vars
  BY HandInductive
<1> QED
  BY <1>1, <1>2, PTL DEF Spec, ForgottenByNothing

-----------------------------------------------------------------------------
(***************************************************************************)
(* A descriptor whose callback asks for the same events whenever it does   *)
(* not end the watch is armed for just those events when nobody is busy    *)
(* with it: none of its events is lost for good, whatever the callbacks of *)
(* the other descriptors do.  (The handler that re-arms a descriptor       *)
(* records what it is armed for afterwards, when another one may have come *)
(* and gone: were their wishes different, the record could be the wrong    *)
(* one, and events would be filtered by it.  Callbacks that switch, as     *)
(* those of examples/echo_serv_epoll.c do, have the theorem above.)        *)
(***************************************************************************)
CONSTANTS
    Steady,     \* descriptors whose callbacks ask for the same every time
    Asks        \* what they ask for

SteadyAssumption == Steady \subseteq Fds /\ Asks \in [Steady -> (SUBSET AddEvents) \ {{}}]

(* A callback of a steady descriptor that returns asks for those events,   *)
(* or has the watch ended.  Nothing is said of a dispatch without events,  *)
(* for which no callback runs: there is none, as is proved below.          *)
AsksAgain ==
    \A x \in Handlers :
        /\ h[x].pc = "callback" /\ h[x].ri.src \in Steady /\ h[x].ri.ev # {}
        /\ h'[x].pc \in {"idle", "mod_search"}
        => h'[x].pc = "mod_search" /\ h'[x].ret = Asks[h[x].ri.src]

(* x has re-armed fd and is about to record for what.                      *)
Recording(x, fd) == h[x].pc = "mod_events" /\ h[x].ri.src = fd

(* A steady descriptor is never reported, queued or dispatched without an  *)
(* event, which would leave it disarmed: no callback would run.            *)
HasEvents(ri) == ri.src \in Steady => ri.ev # {}
AllHaveEvents(s) == \A i \in 1..Len(s) : HasEvents(s[i])

Delivered ==
    /\ \A fd \in Steady : /\ fd \in DOMAIN reports => reports[fd] # {}
                          /\ fd \in DOMAIN actives => actives[fd] # {}
    /\ \A p \in Priorities : AllHaveEvents(rqueue[p])
    /\ AllHaveEvents(tpq)

Asked(x) ==
    /\ h[x].pc # "idle" => HasEvents(h[x].ri)
    /\ h[x].pc \in {"mod_search", "mod_epoll", "mod_events"} /\ h[x].ri.src \in Steady
          => h[x].ret = Asks[h[x].ri.src]
    /\ h[x].pc = "add_epoll" /\ h[x].arg \in Steady => watch[h[x].arg] = AddEvents

(* What is watched can be reported, and passes the filter when it is.      *)
Rearmed(fd) ==
    watch[fd] # NoItem =>
       /\ watch[fd] \in {AddEvents, Asks[fd]}
       /\ armed[fd] \subseteq watch[fd]
       /\ fd \in DOMAIN reports => reports[fd] \subseteq watch[fd]
       /\ armed[fd] = watch[fd] \/ Away(fd) \/ \E x \in Handlers : Recording(x, fd)

(* ... and will when the handler that has re-armed it has recorded that.   *)
Recorded(x, fd) ==
    Recording(x, fd) =>
       /\ fd \in open /\ \A y \in Handlers : ~Adds(y, fd)
       /\ armed[fd] \subseteq h[x].ret
       /\ fd \in DOMAIN reports => reports[fd] \subseteq h[x].ret
       /\ watch[fd] # NoItem => armed[fd] = h[x].ret \/ Away(fd)

RearmedInv ==
    \A fd \in Steady : Rearmed(fd) /\ (~broken => \A x \in Handlers : Recorded(x, fd))

ArmedInv ==
    /\ HandInv /\ Delivered
    /\ \A x \in Handlers : Asked(x)
    /\ RearmedInv

-----------------------------------------------------------------------------
(* Steps by what they do to one descriptor.                                *)

(* A step that leaves fd as it is: where it is changes at most.            *)
SameHandling(fd) ==
    /\ armed'[fd] = armed[fd]
    /\ fd \in DOMAIN reports' => fd \in DOMAIN reports /\ reports'[fd] = reports[fd]
    /\ \A x \in Handlers : /\ Adds(x, fd)' <=> Adds(x, fd)
                           /\ Recording(x, fd)' <=> Recording(x, fd)
                           /\ Recording(x, fd) => h'[x].ret = h[x].ret

LEMMA StaysRearmed ==
    ASSUME NEW fd \in Steady, Rearmed(fd), ~broken' => \A x \in Handlers : Recorded(x, fd),
           SameHandling(fd),
           watch'[fd] # NoItem => watch'[fd] = watch[fd] /\ (Away(fd) => Away(fd)'),
           ~broken' /\ fd \in open /\ (\E x \in Handlers : Recording(x, fd)) => fd \in open'
    PROVE  Rearmed(fd)' /\ (~broken' => \A x \in Handlers : Recorded(x, fd)')
<1>1. Rearmed(fd)'
  BY DEF Rearmed, SameHandling
<1>2. ASSUME ~broken', NEW x \in Handlers, Recording(x, fd)' PROVE Recorded(x, fd)'
  <2>1. Recording(x, fd) /\ h'[x].ret = h[x].ret /\ Recorded(x, fd)
    BY <1>2 DEF SameHandling
  <2> QED
    BY <1>2, <2>1 DEF Recorded, SameHandling
<1> QED
  BY <1>1, <1>2 DEF Recorded

(* A step that does nothing to any.                                        *)
LEMMA NothingRearmed ==
    ASSUME ArmedInv, UNCHANGED <<h, watch, armed, open>>,
           \A fd \in Steady : fd \in DOMAIN reports' => fd \in DOMAIN reports /\ reports'[fd] = reports[fd],
           \A fd \in Steady : Away(fd) => Away(fd)',
           ~broken' => ~broken
    PROVE  RearmedInv' /\ \A x \in Handlers : Asked(x)'
<1>1. ASSUME NEW fd \in Steady
      PROVE  Rearmed(fd)' /\ (~broken' => \A x \in Handlers : Recorded(x, fd)')
  <2>1. SameHandling(fd)
    BY DEF SameHandling, Adds, Recording
  <2> QED
    BY <2>1, StaysRearmed DEF ArmedInv, HandInv, RearmedInv
<1>2. ASSUME NEW x \in Handlers PROVE Asked(x)'
  BY DEF ArmedInv, HandInv, Asked, HasEvents
<1> QED
  BY <1>1, <1>2 DEF RearmedInv

(* What is put at the end of a list, or taken from its head.               *)
LEMMA EventsPut ==
    ASSUME NEW s \in Seq(Items), NEW ri \in Items, AllHaveEvents(s), HasEvents(ri)
    PROVE  AllHaveEvents(Append(s, ri))
<1>1. ASSUME NEW i \in 1..Len(Append(s, ri)) PROVE HasEvents(Append(s, ri)[i])
  BY Appended DEF AllHaveEvents
<1> QED
  BY <1>1 DEF AllHaveEvents

LEMMA EventsTaken ==
    ASSUME NEW s \in Seq(Items), s # <<>>, AllHaveEvents(s)
    PROVE  HasEvents(Head(s)) /\ AllHaveEvents(Tail(s))
<1>1. HasEvents(s[1]) /\ Head(s) = s[1]
  BY Taken DEF AllHaveEvents
<1>2. ASSUME NEW i \in 1..Len(Tail(s)) PROVE HasEvents(Tail(s)[i])
  BY Taken DEF AllHaveEvents
<1> QED
  BY <1>1, <1>2 DEF AllHaveEvents

LEMMA EventsQueued ==
    ASSUME LoopAssumption, TypeOK, Delivered, NEW ri \in Items, HasEvents(ri),
           rqueue' = [rqueue EXCEPT ![Prio[ri.src]] = Append(@, ri)]
    PROVE  \A p \in Priorities : AllHaveEvents(rqueue'[p])
<1>1. ASSUME NEW p \in Priorities
      PROVE  /\ rqueue[p] \in Seq(Items) /\ AllHaveEvents(rqueue[p])
             /\ rqueue'[p] = IF p = Prio[ri.src] THEN Append(rqueue[p], ri) ELSE rqueue[p]
  BY DEF TypeOK, Delivered
<1> QED
  BY <1>1, EventsPut

-----------------------------------------------------------------------------
(* The main thread and epoll.                                              *)

(* Steps that move no descriptor.                                          *)
LEMMA NothingArmed ==
    ASSUME SteadyAssumption, ArmedInv,
           UNCHANGED <<reports, actives, rqueue, tpq, h, watch, armed, open, broken>>
    PROVE  Delivered' /\ RearmedInv' /\ \A x \in Handlers : Asked(x)'
<1>1. \A fd \in Steady : Away(fd) => Away(fd)'
  BY DEF Away, ItemIn, Holds, Adds
<1>2. RearmedInv' /\ \A x \in Handlers : Asked(x)'
  BY <1>1, NothingRearmed
<1>3. Delivered'
  BY DEF ArmedInv, HandInv, Delivered, AllHaveEvents, HasEvents
<1> QED
  BY <1>2, <1>3

LEMMA ReportArmed ==
    ASSUME LoopAssumption, SteadyAssumption, ArmedInv, EpollReport
    PROVE  Delivered' /\ RearmedInv' /\ \A x \in Handlers : Asked(x)'
<1> USE DEF EpollReport, ArmedInv, HandInv
<1>t. TypeOK /\ Steady \subseteq Fds
  BY DEF SerialInv, SteadyAssumption
<1>1. UNCHANGED <<actives, rqueue, tpq, h, watch, registered, open, broken>>
  BY DEF queueVars
<1>2. ASSUME NEW fd \in Steady, fd \notin Triggered
      PROVE  armed'[fd] = armed[fd] /\ fd \notin DOMAIN reports'
  BY <1>t, <1>2 DEF LoopAssumption
<1>3. ASSUME NEW fd \in Steady, fd \in Triggered
      PROVE  /\ armed'[fd] = {} /\ fd \in DOMAIN reports'
             /\ reports'[fd] \subseteq armed[fd] /\ reports'[fd] # {}
  BY <1>t, <1>3 DEF Triggered
<1>4. DOMAIN reports = {}
  BY DEF Waiting, Main
<1>5. Delivered'
  <2>1. \A fd \in Steady : fd \in DOMAIN reports' => reports'[fd] # {}
    BY <1>2, <1>3
  <2> QED
    BY <1>1, <2>1 DEF Delivered, AllHaveEvents, HasEvents
<1>6. ASSUME NEW fd \in Steady, fd \notin Triggered
      PROVE  Rearmed(fd)' /\ (~broken' => \A x \in Handlers : Recorded(x, fd)')
  <2>1. Away(fd) => Away(fd)'
    BY <1>1, <1>4 DEF Away, ItemIn, Holds, Adds
  <2>2. SameHandling(fd)
    BY <1>1, <1>2, <1>6 DEF SameHandling, Adds, Recording
  <2> QED
    BY <1>1, <2>1, <2>2, StaysRearmed DEF RearmedInv
<1>7. ASSUME NEW fd \in Steady, fd \in Triggered
      PROVE  Rearmed(fd)' /\ (~broken' => \A x \in Handlers : Recorded(x, fd)')
  <2>1. Away(fd)'
    BY <1>3, <1>7 DEF Away
  <2>2. Rearmed(fd)'
    BY <1>1, <1>3, <1>7, <2>1 DEF RearmedInv, Rearmed, Adds
  <2>3. ASSUME ~broken', NEW x \in Handlers PROVE Recorded(x, fd)'
    <3>1. Recorded(x, fd)
      BY <1>1, <2>3 DEF RearmedInv
    <3> QED
      BY <1>1, <1>3, <1>7, <2>1, <3>1 DEF Recorded, Recording, Adds
  <2> QED
    BY <2>2, <2>3
<1>8. ASSUME NEW x \in Handlers PROVE Asked(x)'
  BY <1>1 DEF Asked, HasEvents
<1> QED
  BY <1>5, <1>6, <1>7, <1>8 DEF RearmedInv

(* What is reported is watched for: the filter leaves it as it is.         *)
LEMMA TranslateArmed ==
    ASSUME LoopAssumption, SteadyAssumption, ArmedInv, Translate
    PROVE  Delivered' /\ RearmedInv' /\ \A x \in Handlers : Asked(x)'
<1> USE DEF ArmedInv, HandInv
<1>1. /\ UNCHANGED <<rqueue, tpq, h, watch, armed, open, broken>>
      /\ TypeOK /\ Steady \subseteq Fds
  BY DEF Translate, queueVars, kernelVars, SerialInv, SteadyAssumption
<1>2. \A fd \in Steady : Away(fd) => Away(fd)'
  BY <1>1, TranslateAway
<1>3. CASE UNCHANGED <<reports, actives>>
  BY <1>1, <1>2, <1>3, NothingRearmed DEF Delivered, AllHaveEvents, HasEvents
<1>4. CASE reports' = Without(reports, "pipe") /\ UNCHANGED actives
  <2>1. \A fd \in Steady : /\ fd \in DOMAIN reports' <=> fd \in DOMAIN reports
                           /\ fd \in DOMAIN reports => reports'[fd] = reports[fd]
    BY <1>1, <1>4 DEF Without, LoopAssumption
  <2>2. Delivered'
    BY <1>1, <1>4, <2>1 DEF Delivered, AllHaveEvents, HasEvents
  <2> QED
    BY <1>1, <1>2, <2>1, <2>2, NothingRearmed
<1>5. ASSUME NEW g \in DOMAIN reports \ {"pipe"},
             NEW evs \in IF watch[g] = NoItem THEN SUBSET reports[g] ELSE {reports[g] \cap watch[g]},
             actives' = With(actives, g, evs), reports' = Without(reports, g)
      PROVE  Delivered' /\ RearmedInv' /\ \A x \in Handlers : Asked(x)'
  <2>1. g \in Fds
    BY <1>1 DEF TypeOK
  <2>2. g \in Steady => evs # {}
    <3>1. watch[g] # NoItem
      BY <2>1 DEF SerialInv, Placed, Kept
    <3>2. g \in Steady => reports[g] \subseteq watch[g] /\ reports[g] # {}
      BY <2>1, <3>1 DEF RearmedInv, Rearmed, Delivered
    <3> QED
      BY <3>1, <3>2
  <2>3. /\ DOMAIN reports' = DOMAIN reports \ {g} /\ DOMAIN actives' = DOMAIN actives \cup {g}
        /\ \A fd \in DOMAIN reports' : reports'[fd] = reports[fd]
        /\ actives'[g] = evs /\ \A fd \in DOMAIN actives \ {g} : actives'[fd] = actives[fd]
    BY <1>5 DEF With, Without
  <2>4. Delivered'
    BY <1>1, <2>2, <2>3 DEF Delivered, AllHaveEvents, HasEvents
  <2> QED
    BY <1>1, <1>2, <2>3, <2>4, NothingRearmed
<1> QED
  BY <1>3, <1>4, <1>5 DEF Translate

LEMMA SearchArmed ==
    ASSUME LoopAssumption, SteadyAssumption, ArmedInv, WaitSearch
    PROVE  Delivered' /\ RearmedInv' /\ \A x \in Handlers : Asked(x)'
<1> USE DEF ArmedInv, HandInv
<1>1. UNCHANGED <<reports, rqueue, tpq, h, watch, armed, open, broken>>
  BY DEF WaitSearch, queueVars, kernelVars
<1>2. actives' = actives
  BY DEF WaitSearch, SerialInv, Placed, Kept, TypeOK
<1> QED
  BY <1>1, <1>2, NothingArmed

LEMMA EqueueArmed ==
    ASSUME LoopAssumption, SteadyAssumption, ArmedInv, WaitEqueue
    PROVE  Delivered' /\ RearmedInv' /\ \A x \in Handlers : Asked(x)'
<1> USE DEF ArmedInv, HandInv
<1> DEFINE ri == [src |-> found, ev |-> actives[found]]
<1>1. /\ UNCHANGED <<reports, tpq, h, watch, armed, open, broken>>
      /\ TypeOK /\ Steady \subseteq Fds
  BY DEF WaitEqueue, kernelVars, SerialInv, SteadyAssumption
<1>2. found \in Fds /\ found \in DOMAIN actives /\ actives[found] \in SUBSET Events
  BY <1>1 DEF WaitEqueue, Main, TypeOK, LoopAssumption, Events
<1>3. ri \in Items /\ HasEvents(ri)
  BY <1>2 DEF Items, Sources, HasEvents, Delivered
<1>4. /\ DOMAIN actives' = DOMAIN actives \ {found}
      /\ \A fd \in DOMAIN actives' : actives'[fd] = actives[fd]
      /\ rqueue' = [rqueue EXCEPT ![Prio[ri.src]] = Append(@, ri)]
  BY DEF WaitEqueue, Without
<1>5. \A p \in Priorities : AllHaveEvents(rqueue'[p])
  BY <1>1, <1>3, <1>4, EventsQueued
<1>6. \A fd \in Steady : Away(fd) => Away(fd)'
  BY <1>1, EqueueAway
<1>7. Delivered'
  BY <1>1, <1>4, <1>5 DEF Delivered
<1> QED
  BY <1>1, <1>6, <1>7, NothingRearmed

LEMMA DrainArmed ==
    ASSUME LoopAssumption, SteadyAssumption, ArmedInv, Drain
    PROVE  Delivered' /\ RearmedInv' /\ \A x \in Handlers : Asked(x)'
<1> USE DEF ArmedInv, HandInv
<1>1. /\ UNCHANGED <<reports, actives, h, watch, armed, open, broken>>
      /\ TypeOK /\ Steady \subseteq Fds
  BY DEF Drain, kernelVars, mainVars, SerialInv, SteadyAssumption
<1>2. PICK p \in Priorities : p = hp
  BY <1>1 DEF TypeOK
<1>3. rqueue[p] \in Seq(Items) /\ rqueue[p] # <<>> /\ tpq \in Seq(Items)
  BY <1>1, <1>2 DEF Drain, TypeOK
<1>4. /\ tpq' = Append(tpq, Head(rqueue[p]))
      /\ \A q \in Priorities : rqueue'[q] = IF q = p THEN Tail(rqueue[p]) ELSE rqueue[q]
  BY <1>1, <1>2 DEF Drain, TypeOK
<1>5. Head(rqueue[p]) \in Items /\ HasEvents(Head(rqueue[p])) /\ AllHaveEvents(Tail(rqueue[p]))
  BY <1>3, Taken, EventsTaken DEF Delivered
<1>6. AllHaveEvents(tpq')
  BY <1>3, <1>4, <1>5, EventsPut DEF Delivered
<1>7. \A fd \in Steady : Away(fd) => Away(fd)'
  BY <1>1, DrainAway
<1>8. Delivered'
  BY <1>1, <1>4, <1>5, <1>6 DEF Delivered
<1> QED
  BY <1>1, <1>7, <1>8, NothingRearmed

-----------------------------------------------------------------------------
(* Handlers that neither add a descriptor nor re-arm one.                  *)

LEMMA StartArmed ==
    ASSUME LoopAssumption, SteadyAssumption, ArmedInv, NEW x \in Handlers, HandlerStart(x)
    PROVE  Delivered' /\ RearmedInv' /\ \A y \in Handlers : Asked(y)'
<1> USE DEF ArmedInv, HandInv
<1>1. /\ UNCHANGED <<reports, actives, rqueue, watch, armed, open, broken>>
      /\ TypeOK /\ Steady \subseteq Fds
  BY DEF HandlerStart, kernelVars, mainVars, SerialInv, SteadyAssumption
<1>2. tpq \in Seq(Items) /\ tpq # <<>> /\ tpq' = Tail(tpq) /\ h[x].pc = "idle"
  BY <1>1 DEF HandlerStart, TypeOK, At
<1>3. Head(tpq) \in Items /\ HasEvents(Head(tpq)) /\ AllHaveEvents(Tail(tpq))
  BY <1>2, Taken, EventsTaken DEF Delivered
<1>4. /\ h'[x] = [pc |-> "callback", ri |-> Head(tpq), ret |-> h[x].ret, arg |-> h[x].arg]
      /\ \A y \in Handlers \ {x} : h'[y] = h[y]
  BY <1>1, <1>3, HandlerTakes, TypesOfHandlers DEF HandlerStart
<1>5. ASSUME NEW fd \in Steady
      PROVE  Rearmed(fd)' /\ (~broken' => \A y \in Handlers : Recorded(y, fd)')
  <2>1. (Away(fd) => Away(fd)') /\ \A y \in Handlers : Adds(y, fd)' <=> Adds(y, fd)
    BY <1>1, StartAway
  <2>2. SameHandling(fd)
    BY <1>1, <1>2, <1>4, <2>1 DEF SameHandling, Recording
  <2> QED
    BY <1>1, <2>1, <2>2, StaysRearmed DEF RearmedInv
<1>6. ASSUME NEW y \in Handlers PROVE Asked(y)'
  BY <1>1, <1>3, <1>4 DEF Asked, HasEvents
<1>7. Delivered'
  BY <1>1, <1>2, <1>3 DEF Delivered
<1> QED
  BY <1>5, <1>6, <1>7 DEF RearmedInv

Busy == {"mod_events", "add_tree", "add_epoll"}

(* x goes on with its item, and leaves a watched descriptor to nobody.     *)
LEMMA GoesOnArmed ==
    ASSUME ArmedInv, NEW x \in Handlers, GoesOn(x), h[x].pc \notin Busy, h'[x].pc \notin Busy,
           UNCHANGED <<reports, actives, tpq, armed>>, Asked(x)', broken \in BOOLEAN, ~broken,
           \A p \in Priorities : \A fd \in Steady : ItemIn(rqueue[p], fd) => ItemIn(rqueue'[p], fd),
           \A fd \in Steady :
              /\ watch'[fd] # NoItem =>
                    /\ watch'[fd] = watch[fd]
                    /\ Holds(x, fd) => h'[x].pc # "idle"
              /\ \A y \in Handlers : Adds(y, fd) => watch'[fd] = watch[fd]
              /\ ~broken' /\ fd \in open /\ (\E y \in Handlers : Recording(y, fd)) => fd \in open'
    PROVE  RearmedInv' /\ \A y \in Handlers : Asked(y)'
<1> USE DEF ArmedInv, HandInv
<1>1. ASSUME NEW fd \in Steady
      PROVE  Rearmed(fd)' /\ (~broken' => \A y \in Handlers : Recorded(y, fd)')
  <2>1. \A y \in Handlers : Adds(y, fd)' <=> Adds(y, fd)
    BY DEF Adds, GoesOn, Busy
  <2>2. \A y \in Handlers : /\ Recording(y, fd)' <=> Recording(y, fd)
                            /\ Recording(y, fd) => h'[y].ret = h[y].ret
    BY DEF Recording, GoesOn, Busy
  <2>3. SameHandling(fd)
    BY <2>1, <2>2 DEF SameHandling
  <2>4. ASSUME watch'[fd] # NoItem, NEW y \in Handlers, Holds(y, fd) PROVE Holds(y, fd)'
    BY <2>4 DEF Holds, GoesOn, Busy
  <2>5. ASSUME watch'[fd] # NoItem, Away(fd) PROVE Away(fd)'
    BY <2>1, <2>4, <2>5 DEF Away
  <2> QED
    BY <2>3, <2>5, StaysRearmed DEF RearmedInv
<1>2. ASSUME NEW y \in Handlers, y # x PROVE Asked(y)'
  <2>1. h'[y] = h[y] /\ Asked(y)
    BY <1>2 DEF GoesOn
  <2>2. h[y].pc = "add_epoll" => Adds(y, h[y].arg)
    BY DEF Adds
  <2> QED
    BY <2>1, <2>2 DEF Asked, HasEvents
<1> QED
  BY <1>1, <1>2 DEF RearmedInv

(* ... when no descriptor is touched besides.                              *)
LEMMA OnlyGoesOn ==
    ASSUME ArmedInv, NEW x \in Handlers, GoesOn(x), h[x].pc \notin Busy, h'[x].pc \notin Busy,
           UNCHANGED <<reports, actives, rqueue, tpq, armed, watch, open, broken>>,
           Asked(x)', ~broken,
           h'[x].pc = "idle" => h[x].ri.src \notin Steady \/ watch[h[x].ri.src] = NoItem
    PROVE  Delivered' /\ RearmedInv' /\ \A y \in Handlers : Asked(y)'
<1>1. broken \in BOOLEAN
  BY DEF ArmedInv, HandInv, SerialInv, TypeOK
<1>2. \A fd \in Steady : watch'[fd] # NoItem => (Holds(x, fd) => h'[x].pc # "idle")
  BY DEF Holds
<1>3. Delivered'
  BY DEF ArmedInv, HandInv, Delivered
<1> QED
  BY <1>1, <1>2, <1>3, GoesOnArmed

(* A callback of a steady descriptor was called for something: it asks for *)
(* the same as ever, or has the descriptor deleted.                        *)
LEMMA ReturnArmed ==
    ASSUME LoopAssumption, SteadyAssumption, ArmedInv, NEW x \in Handlers, CallbackReturn(x), AsksAgain
    PROVE  Delivered' /\ RearmedInv' /\ \A y \in Handlers : Asked(y)'
<1>1. /\ UNCHANGED <<reports, actives, rqueue, tpq, watch, armed, open, broken>>
      /\ h[x].pc = "callback" /\ h[x].ri \in Items /\ ~broken
  BY DEF CallbackReturn, mainVars, queueVars, At, ArmedInv, HandInv, SerialInv, TypeOK
<1>2. PICK ret \in Results(h[x].ri) :
          IF ret = {}
          THEN Leave(x)
          ELSE h' = [h EXCEPT ![x].ret = ret,
                              ![x].pc = After(ret)]
  BY DEF CallbackReturn
<1>3. HasEvents(h[x].ri)
  BY <1>1 DEF ArmedInv, Asked
<1>4. h[x].ri.src \in Steady /\ h'[x].pc \in {"idle", "mod_search"}
         => h'[x].pc = "mod_search" /\ h'[x].ret = Asks[h[x].ri.src]
  BY <1>1, <1>3 DEF AsksAgain, HasEvents
<1>5. CASE ret = {}
  <2>1. GoesOn(x) /\ h'[x].pc = "idle"
    BY <1>2, <1>5, LeaveQuiet DEF ArmedInv, HandInv
  <2>2. h[x].ri.src \notin Steady
    BY <1>4, <2>1
  <2>3. Asked(x)'
    BY <2>1 DEF Asked
  <2> QED
    BY <1>1, <2>1, <2>2, <2>3, OnlyGoesOn DEF Busy
<1>6. CASE ret # {}
  <2>1. ret \in SUBSET Events
    BY DEF Results, Events, LoopAssumption
  <2>2. After(ret) \in {"free_ri", "del_tree", "requeue", "mod_search"}
    BY DEF After
  <2>3. /\ h'[x] = [pc |-> After(ret), ri |-> h[x].ri, ret |-> ret, arg |-> h[x].arg]
        /\ \A y \in Handlers \ {x} : h'[y] = h[y]
    <3>1. After(ret) \in HandlerAt /\ After(ret) \notin {"add_tree", "add_epoll"}
      BY <2>2 DEF HandlerAt
    <3> QED
      BY <1>1, <1>2, <1>6, <2>1, <3>1, HandlerReturns, TypesOfHandlers DEF ArmedInv, HandInv, SerialInv
  <2>4. GoesOn(x)
    BY <1>1, <2>2, <2>3 DEF GoesOn
  <2>5. Asked(x)'
    BY <1>3, <1>4, <2>2, <2>3 DEF Asked
  <2> QED
    BY <1>1, <2>2, <2>3, <2>4, <2>5, OnlyGoesOn DEF Busy
<1> QED
  BY <1>5, <1>6

LEMMA SimpleArmed ==
    ASSUME LoopAssumption, SteadyAssumption, ArmedInv, NEW x \in Handlers,
           FreeItem(x) \/ StopNotify(x) \/ StopSet(x) \/ ModSearch(x)
    PROVE  Delivered' /\ RearmedInv' /\ \A y \in Handlers : Asked(y)'
<1> USE DEF At, mainVars, queueVars, kernelVars
<1>1. UNCHANGED <<reports, actives, rqueue, tpq, watch, armed, open, broken>> /\ ~broken
  BY DEF FreeItem, StopNotify, StopSet, ModSearch, InCallback
<1>2. Asked(x) /\ Stage(x)
  BY DEF ArmedInv, HandInv, SerialInv, Placed
<1>3. CASE FreeItem(x)
  <2>1. GoesOn(x) /\ h'[x].pc = "idle" /\ h[x].pc = "free_ri"
    BY <1>3, LeaveQuiet DEF FreeItem, ArmedInv, HandInv
  <2> QED
    BY <1>1, <1>2, <2>1, OnlyGoesOn DEF Stage, Asked, Busy, SteadyAssumption
<1>4. CASE StopNotify(x)
  <2>1. GoesOn(x) /\ h'[x].pc = "callback" /\ h'[x].ri = h[x].ri /\ h[x].pc = "stop_notify"
    BY <1>4, MoveQuiet DEF StopNotify, ArmedInv, HandInv
  <2> QED
    BY <1>1, <1>2, <2>1, OnlyGoesOn DEF Asked, Busy
<1>5. CASE StopSet(x)
  <2>1. GoesOn(x) /\ h'[x].pc = "stop_notify" /\ h'[x].ri = h[x].ri /\ h[x].pc = "callback"
    BY <1>5, MoveQuiet DEF StopSet, InCallback, ArmedInv, HandInv
  <2> QED
    BY <1>1, <1>2, <2>1, OnlyGoesOn DEF Asked, Busy
<1>6. CASE ModSearch(x)
  <2>1. h[x].ri.src \in Fds /\ FdOf(x) = h[x].ri.src /\ h[x].pc = "mod_search"
    BY <1>2, <1>6 DEF ModSearch, Stage, FdOf
  <2>2. CASE watch[FdOf(x)] = NoItem
    <3>1. GoesOn(x) /\ h'[x].pc = "idle"
      BY <1>6, <2>2, LeaveQuiet DEF ModSearch, ArmedInv, HandInv
    <3> QED
      BY <1>1, <1>2, <2>1, <2>2, <3>1, OnlyGoesOn DEF Asked, Busy
  <2>3. CASE watch[FdOf(x)] # NoItem
    <3>1. GoesOn(x) /\ h'[x].pc = "mod_epoll" /\ h'[x].ri = h[x].ri /\ h'[x].ret = h[x].ret
      BY <1>6, <2>3, MoveQuiet DEF ModSearch, ArmedInv, HandInv
    <3> QED
      BY <1>1, <1>2, <2>1, <3>1, OnlyGoesOn DEF Asked, Busy
  <2> QED
    BY <2>2, <2>3
<1> QED
  BY <1>3, <1>4, <1>5, <1>6

LEMMA RequeueArmed ==
    ASSUME LoopAssumption, SteadyAssumption, ArmedInv, NEW x \in Handlers, Requeue(x)
    PROVE  Delivered' /\ RearmedInv' /\ \A y \in Handlers : Asked(y)'
<1> USE DEF ArmedInv, HandInv, SerialInv, SteadyAssumption
<1> DEFINE ri == [src |-> h[x].ri.src, ev |-> h[x].ret]
<1>1. /\ UNCHANGED <<reports, actives, tpq, watch, registered, armed, open, broken>>
      /\ rqueue' = [rqueue EXCEPT ![Prio[ri.src]] = Append(@, ri)]
      /\ GoesOn(x) /\ h'[x].pc = "idle" /\ h[x].pc = "requeue" /\ ~broken
  BY LeaveQuiet DEF Requeue, MakeReady, mainVars, kernelVars, At
<1>2. ri \in Items /\ ri.src \notin Fds
  BY SMTT(60), <1>1 DEF Placed, Stage, Items, TypeOK, HandlerStates
<1>3. /\ \A p \in Priorities : AllHaveEvents(rqueue'[p])
      /\ \A p \in Priorities : \A fd : ItemIn(rqueue[p], fd) => ItemIn(rqueue'[p], fd)
  <2>1. HasEvents(ri) /\ TypeOK /\ Delivered
    BY <1>2 DEF HasEvents
  <2> HIDE DEF ri, ArmedInv, HandInv, SerialInv
  <2> QED
    BY <1>1, <1>2, <2>1, ReadyQueued, EventsQueued
<1>4. Delivered'
  BY <1>1, <1>3 DEF Delivered
<1>5. broken \in BOOLEAN /\ Asked(x)' /\ \A fd \in Steady : ~Holds(x, fd)
  BY SMTT(30), <1>1, <1>2 DEF TypeOK, Asked, Holds
<1> QED
  BY <1>1, <1>3, <1>4, <1>5, GoesOnArmed DEF Busy

(* ev_watch_pool_del: what is not watched needs not be armed.              *)
LEMMA DelArmed ==
    ASSUME LoopAssumption, SteadyAssumption, ArmedInv, NEW x \in Handlers, DelTree(x) \/ DelEpoll(x) \/ DelFree(x)
    PROVE  Delivered' /\ RearmedInv' /\ \A y \in Handlers : Asked(y)'
<1> USE DEF At, mainVars, queueVars, kernelVars
<1>1. PICK fd \in Fds : fd = h[x].ri.src /\ fd = FdOf(x) /\ Holds(x, fd)
  BY DEF DelTree, DelEpoll, DelFree, ArmedInv, HandInv, SerialInv, Placed, Stage, FdOf, Holds
<1>2. armed[fd] = {} /\ \A y \in Handlers : ~Adds(y, fd)
  BY <1>1, HolderAlone DEF ArmedInv, HandInv, SerialInv, Placed
<1>3. TypeOK /\ broken \in BOOLEAN /\ ~broken /\ Asked(x) /\ Stage(x)
  BY DEF ArmedInv, HandInv, SerialInv, TypeOK, DelTree, DelEpoll, DelFree, Placed
<1>4. UNCHANGED <<reports, actives, rqueue, tpq>>
  BY DEF DelTree, DelEpoll, DelFree
<1>5. Delivered'
  BY <1>4 DEF ArmedInv, HandInv, Delivered
<1>6. CASE DelTree(x)
  <2>1. CASE watch[fd] = NoItem
    <3>1. Leave(x) /\ UNCHANGED <<watch, registered, armed, open, broken>> /\ h[x].pc = "del_tree"
      BY <1>1, <1>6, <2>1 DEF DelTree
    <3>2. GoesOn(x) /\ h'[x].pc = "idle"
      BY <3>1, LeaveQuiet DEF ArmedInv, HandInv
    <3> QED
      BY <1>1, <1>3, <1>4, <2>1, <3>1, <3>2, OnlyGoesOn DEF Asked, Busy
  <2>2. CASE watch[fd] # NoItem
    <3>1. /\ watch' = [watch EXCEPT ![fd] = NoItem] /\ Move(x, "del_epoll") /\ h[x].pc = "del_tree"
          /\ UNCHANGED <<registered, armed, open, broken>>
      BY <1>1, <1>6, <2>2 DEF DelTree
    <3>2. GoesOn(x) /\ h'[x].pc = "del_epoll" /\ h'[x].ri = h[x].ri
      BY <3>1, MoveQuiet DEF ArmedInv, HandInv
    <3>3. Asked(x)'
      BY <1>3, <3>1, <3>2 DEF Asked
    <3>4. watch'[fd] = NoItem /\ \A g \in Steady : g # fd => watch'[g] = watch[g]
      BY <1>3, <3>1 DEF TypeOK, SteadyAssumption
    <3> QED
      BY <1>2, <1>3, <1>4, <1>5, <3>1, <3>2, <3>3, <3>4, GoesOnArmed DEF Busy
  <2> QED
    BY <2>1, <2>2
<1>7. CASE DelEpoll(x)
  <2>1. /\ registered' = registered \ {fd} /\ armed' = [armed EXCEPT ![fd] = {}]
        /\ Move(x, "del_free") /\ UNCHANGED <<watch, open, broken>> /\ h[x].pc = "del_epoll"
    BY <1>1, <1>7 DEF DelEpoll
  <2>2. GoesOn(x) /\ h'[x].pc = "del_free" /\ h'[x].ri = h[x].ri
    BY <2>1, MoveQuiet DEF ArmedInv, HandInv
  <2>3. Asked(x)'
    BY <1>3, <2>1, <2>2 DEF Asked
  <2>4. watch[fd] = NoItem
    BY <1>1, <1>3, <2>1 DEF Stage
  <2>5. armed' = armed
    BY <1>2, <1>3, <2>1 DEF TypeOK
  <2> QED
    BY <1>3, <1>4, <1>5, <2>1, <2>2, <2>3, <2>4, <2>5, GoesOnArmed DEF Busy
<1>8. CASE DelFree(x)
  <2>1. /\ open' = open \ {fd} /\ Leave(x) /\ h[x].pc = "del_free"
        /\ UNCHANGED <<watch, registered, armed>> /\ broken' = ItemInUse(fd, x)
    BY <1>1, <1>8 DEF DelFree
  <2>2. GoesOn(x) /\ h'[x].pc = "idle"
    BY <2>1, LeaveQuiet DEF ArmedInv, HandInv
  <2>3. Asked(x)'
    BY <2>2 DEF Asked
  <2>4. watch[fd] = NoItem
    BY <1>1, <1>3, <2>1 DEF Stage
  <2>5. ASSUME NEW y \in Handlers, Recording(y, fd) PROVE broken'
    <3>1. y # x /\ FdOf(y) = fd /\ h[y].pc \in {"mod_epoll", "mod_events"}
      BY <1>1, <2>1, <2>5 DEF Recording, FdOf
    <3> QED
      BY <2>1, <3>1 DEF ItemInUse
  <2>6. \A g \in Steady : Holds(x, g) => g = fd
    BY <1>1 DEF Holds
  <2> QED
    BY <1>3, <1>4, <1>5, <2>1, <2>2, <2>3, <2>4, <2>5, <2>6, GoesOnArmed DEF Busy
<1> QED
  BY <1>6, <1>7, <1>8

-----------------------------------------------------------------------------
(* Handlers that re-arm a descriptor, or add one.                          *)

(* A handler and its one descriptor: the others stay what they are.        *)
LEMMA OthersArmed ==
    ASSUME ArmedInv, NEW x \in Handlers, NEW fd \in Fds, \A y \in Handlers \ {x} : h'[y] = h[y],
           UNCHANGED <<reports, actives, rqueue, tpq>>, ~broken,
           \A g \in Steady \ {fd} :
              /\ armed'[g] = armed[g] /\ watch'[g] = watch[g]
              /\ g \in open => g \in open'
              /\ Holds(x, g) => Holds(x, g)'
              /\ ~Adds(x, g) /\ ~Adds(x, g)' /\ ~Recording(x, g) /\ ~Recording(x, g)'
    PROVE  \A g \in Steady \ {fd} : Rearmed(g)' /\ (~broken' => \A y \in Handlers : Recorded(y, g)')
<1> SUFFICES ASSUME NEW g \in Steady \ {fd}
             PROVE  Rearmed(g)' /\ (~broken' => \A y \in Handlers : Recorded(y, g)')
  OBVIOUS
<1>1. \A y \in Handlers : Adds(y, g)' <=> Adds(y, g)
  BY DEF Adds
<1>2. \A y \in Handlers : /\ Recording(y, g)' <=> Recording(y, g)
                          /\ Recording(y, g) => h'[y].ret = h[y].ret
  BY DEF Recording
<1>3. \A y \in Handlers : Holds(y, g) => Holds(y, g)'
  BY DEF Holds
<1>4. SameHandling(g)
  BY <1>1, <1>2 DEF SameHandling
<1>5. Away(g) => Away(g)'
  BY <1>1, <1>3 DEF Away
<1> QED
  BY <1>4, <1>5, StaysRearmed DEF ArmedInv, HandInv, RearmedInv

LEMMA ModEpollArmed ==
    ASSUME LoopAssumption, SteadyAssumption, ArmedInv, NEW x \in Handlers, ModEpoll(x)
    PROVE  Delivered' /\ RearmedInv' /\ \A y \in Handlers : Asked(y)'
<1> USE DEF ArmedInv, HandInv
<1>1. TypeOK /\ h[x].pc = "mod_epoll" /\ ~broken /\ Asked(x) /\ Stage(x) /\ Steady \subseteq Fds
  BY DEF ModEpoll, At, SerialInv, Placed, SteadyAssumption
<1>2. PICK fd \in Fds : fd = h[x].ri.src /\ fd = FdOf(x) /\ Holds(x, fd)
  BY <1>1 DEF Stage, FdOf, Holds
<1>3. Serial(fd) /\ Kept(fd) /\ Reached(fd) /\ watch[fd] # NoItem
  BY <1>1, <1>2 DEF SerialInv, Placed, Stage
<1>4. fd \notin DOMAIN reports /\ \A y \in Handlers : ~Adds(y, fd)
  BY <1>2, <1>3, HolderAlone
<1>5. fd \in registered /\ fd \in open
  BY <1>3, <1>4 DEF Reached, Kept
<1>6. /\ armed' = [armed EXCEPT ![fd] = h[x].ret \cap IoEvents] /\ Move(x, "mod_events")
      /\ UNCHANGED <<reports, actives, rqueue, tpq, watch, open, broken>>
  BY ZenonT(30), <1>2, <1>5 DEF ModEpoll, mainVars, queueVars
<1>7. /\ h'[x].pc = "mod_events" /\ h'[x].ri = h[x].ri /\ h'[x].ret = h[x].ret
      /\ \A y \in Handlers \ {x} : h'[y] = h[y]
  BY <1>1, <1>6, MoveQuiet DEF GoesOn
<1>8. armed'[fd] = h[x].ret \cap IoEvents /\ \A g \in Fds \ {fd} : armed'[g] = armed[g]
  BY <1>1, <1>6 DEF TypeOK
<1>9. \A g \in Steady \ {fd} : Rearmed(g)' /\ (~broken' => \A y \in Handlers : Recorded(y, g)')
  <2>1. \A g \in Steady \ {fd} : /\ ~Holds(x, g) /\ ~Adds(x, g) /\ ~Adds(x, g)'
                                 /\ ~Recording(x, g) /\ ~Recording(x, g)'
    BY <1>1, <1>2, <1>7 DEF Holds, Adds, Recording
  <2> QED
    BY <1>1, <1>6, <1>7, <1>8, <2>1, OthersArmed
<1>10. ASSUME fd \in Steady
       PROVE  Rearmed(fd)' /\ \A y \in Handlers : Recorded(y, fd)'
  <2>1. Asks[fd] \subseteq AddEvents /\ Asks[fd] \cap IoEvents = Asks[fd]
    BY <1>10 DEF SteadyAssumption, LoopAssumption
  <2>2. armed'[fd] = Asks[fd]
    BY <1>1, <1>2, <1>8, <1>10, <2>1 DEF Asked
  <2>3. watch[fd] \in {AddEvents, Asks[fd]}
    BY <1>3, <1>10 DEF RearmedInv, Rearmed
  <2>4. \A z \in Handlers : ~Adds(z, fd)'
    BY <1>4, <1>7 DEF Adds
  <2>5. Rearmed(fd)'
    <3>1. Recording(x, fd)'
      BY <1>2, <1>7 DEF Recording
    <3> QED
      BY <1>4, <1>6, <2>1, <2>2, <2>3, <3>1 DEF Rearmed
  <2>6. ASSUME NEW y \in Handlers PROVE Recorded(y, fd)'
    <3>1. Recording(y, fd)' => h'[y].ret = Asks[fd]
      BY <1>1, <1>2, <1>7, <1>10 DEF Recording, Asked
    <3> QED
      BY <1>4, <1>5, <1>6, <2>2, <2>4, <3>1 DEF Recorded
  <2> QED
    BY <2>5, <2>6
<1>11. ASSUME NEW y \in Handlers PROVE Asked(y)'
  <2>1. CASE y = x
    BY <1>1, <1>7, <2>1 DEF Asked, HasEvents
  <2>2. CASE y # x
    BY <1>6, <1>7, <2>2 DEF Asked, HasEvents
  <2> QED
    BY <2>1, <2>2
<1>12. Delivered'
  BY <1>6 DEF Delivered
<1> QED
  BY <1>9, <1>10, <1>11, <1>12 DEF RearmedInv

LEMMA ModEventsArmed ==
    ASSUME LoopAssumption, SteadyAssumption, ArmedInv, NEW x \in Handlers, ModEvents(x)
    PROVE  Delivered' /\ RearmedInv' /\ \A y \in Handlers : Asked(y)'
<1> USE DEF ArmedInv, HandInv
<1>1. TypeOK /\ h[x].pc = "mod_events" /\ ~broken /\ Asked(x) /\ Stage(x) /\ Steady \subseteq Fds
  BY DEF ModEvents, At, SerialInv, Placed, SteadyAssumption
<1>2. PICK fd \in Fds : fd = h[x].ri.src /\ fd = FdOf(x) /\ Recording(x, fd)
  BY <1>1 DEF Stage, FdOf, Recording
<1>3. fd \in Steady => Recorded(x, fd) /\ Rearmed(fd) /\ h[x].ret = Asks[fd]
  BY <1>1, <1>2 DEF RearmedInv, Asked
<1>4. /\ watch' = [watch EXCEPT ![fd] = IF @ = NoItem THEN NoItem ELSE h[x].ret]
      /\ Leave(x) /\ UNCHANGED <<reports, actives, rqueue, tpq, registered, armed, open, broken>>
  BY <1>2 DEF ModEvents, mainVars, queueVars, kernelVars
<1>5. h'[x] = IdleHandler /\ \A y \in Handlers \ {x} : h'[y] = h[y]
  BY <1>1, <1>4, HandlerLeaves, TypesOfHandlers
<1>6. /\ \A g \in Fds \ {fd} : watch'[g] = watch[g]
      /\ watch'[fd] = IF watch[fd] = NoItem THEN NoItem ELSE h[x].ret
  BY <1>1, <1>4 DEF TypeOK
<1>7. \A g \in Fds, y \in Handlers :
         /\ Holds(y, g)' <=> Holds(y, g)
         /\ Adds(y, g)' <=> Adds(y, g)
         /\ Recording(y, g)' => Recording(y, g) /\ y # x
  BY <1>1, <1>5 DEF Holds, Adds, Recording, IdleHandler
<1>8. \A g \in Steady \ {fd} : Rearmed(g)' /\ (~broken' => \A y \in Handlers : Recorded(y, g)')
  <2>1. \A g \in Fds \ {fd} : ~Adds(x, g) /\ ~Recording(x, g)
    BY <1>1, <1>2 DEF Adds, Recording
  <2> QED
    BY <1>1, <1>4, <1>5, <1>6, <1>7, <2>1, OthersArmed
<1>9. Away(fd) => Away(fd)'
  BY <1>4, <1>7 DEF Away
<1>10. ASSUME fd \in Steady
       PROVE  Rearmed(fd)' /\ \A y \in Handlers : Recorded(y, fd)'
  <2>1. Rearmed(fd)'
    BY <1>2, <1>3, <1>4, <1>6, <1>9, <1>10 DEF Rearmed, Recorded
  <2>2. ASSUME NEW y \in Handlers PROVE Recorded(y, fd)'
    <3>1. SUFFICES ASSUME Recording(y, fd)' PROVE Recorded(y, fd)'
      BY DEF Recorded
    <3>2. Recording(y, fd) /\ h'[y] = h[y] /\ Recorded(y, fd)
      BY <1>1, <1>5, <1>7, <1>10, <3>1 DEF RearmedInv
    <3>3. watch'[fd] # NoItem => watch[fd] # NoItem
      BY <1>6
    <3> QED
      BY <1>4, <1>7, <1>9, <3>2, <3>3 DEF Recorded
  <2> QED
    BY <2>1, <2>2
<1>11. ASSUME NEW y \in Handlers PROVE Asked(y)'
  <2>1. CASE y = x
    BY <1>5, <2>1 DEF Asked, IdleHandler
  <2>2. CASE y # x
    <3>1. h[y].pc = "add_epoll" /\ h[y].arg \in Steady => h[y].arg \in Steady \ {fd}
      BY <1>2, <1>3 DEF Recorded, Adds
    <3> QED
      BY <1>1, <1>5, <1>6, <2>2, <3>1 DEF Asked, HasEvents
  <2> QED
    BY <2>1, <2>2
<1>12. Delivered'
  BY <1>4 DEF Delivered
<1> QED
  BY <1>8, <1>10, <1>11, <1>12 DEF RearmedInv

(* A descriptor that is not open is nobody's.                              *)
LEMMA ClosedIsFree ==
    ASSUME SteadyAssumption, ArmedInv, ~broken, NEW fd \in Steady, fd \notin open
    PROVE  /\ watch[fd] = NoItem /\ fd \notin DOMAIN reports
           /\ \A y \in Handlers : ~Recording(y, fd) /\ ~Adds(y, fd)
<1>1. Kept(fd) /\ \A y \in Handlers : Recorded(y, fd)
  BY DEF ArmedInv, HandInv, SerialInv, Placed, RearmedInv, SteadyAssumption
<1>2. \A y \in Handlers : ~Held(fd, "adding", y, 0)
  BY <1>1 DEF Kept
<1>3. ~Held(fd, "report", 0, 0)
  BY <1>1 DEF Kept
<1> QED
  BY <1>1, <1>2, <1>3, Kinds DEF Kept, Recorded

LEMMA OpenArmed ==
    ASSUME LoopAssumption, CallersKeepRules, SteadyAssumption, ArmedInv, NEW x \in Handlers,
           NEW fd \in Fds, AddOpen(x, fd)
    PROVE  Delivered' /\ RearmedInv' /\ \A y \in Handlers : Asked(y)'
<1> USE DEF ArmedInv, HandInv
<1>1. /\ fd \notin open /\ open' = open \cup {fd} /\ h[x].pc = "callback" /\ h[x].ri \in Items /\ ~broken
      /\ UNCHANGED <<reports, actives, rqueue, tpq, watch, armed, broken>> /\ Steady \subseteq Fds
  BY DEF AddOpen, CallersKeepRules, InCallback, At, mainVars, queueVars, SerialInv, TypeOK, SteadyAssumption
<1>2. /\ h'[x] = [pc |-> "add_tree", ri |-> h[x].ri, ret |-> h[x].ret, arg |-> fd]
      /\ \A y \in Handlers \ {x} : h'[y] = h[y]
  <2>1. "add_tree" \in HandlerAt /\ fd \in Fds \cup {NoItem}
    BY DEF HandlerAt
  <2>2. Adding(x, "add_tree", fd) /\ HandlersOK
    BY TypesOfHandlers DEF AddOpen, Adding, SerialInv
  <2> QED
    BY <1>1, <2>1, <2>2, HandlerAdds
<1>3. \A g \in Steady \ {fd} : Rearmed(g)' /\ (~broken' => \A y \in Handlers : Recorded(y, g)')
  <2>1. \A g \in Fds \ {fd} : /\ Holds(x, g) => Holds(x, g)'
                              /\ ~Adds(x, g) /\ ~Adds(x, g)' /\ ~Recording(x, g) /\ ~Recording(x, g)'
    BY <1>1, <1>2 DEF Holds, Adds, Recording
  <2> QED
    BY <1>1, <1>2, <2>1, OthersArmed
<1>4. ASSUME fd \in Steady PROVE Rearmed(fd)' /\ \A y \in Handlers : Recorded(y, fd)'
  <2>1. watch[fd] = NoItem /\ \A y \in Handlers : ~Recording(y, fd)
    BY <1>1, <1>4, ClosedIsFree
  <2>2. \A y \in Handlers : ~Recording(y, fd)'
    BY <1>2, <2>1 DEF Recording
  <2> QED
    BY <1>1, <2>1, <2>2 DEF Rearmed, Recorded
<1>5. ASSUME NEW y \in Handlers PROVE Asked(y)'
  BY <1>1, <1>2 DEF Asked, HasEvents
<1>6. Delivered'
  BY <1>1 DEF Delivered
<1> QED
  BY <1>3, <1>4, <1>5, <1>6 DEF RearmedInv

LEMMA AddTreeArmed ==
    ASSUME LoopAssumption, SteadyAssumption, ArmedInv, NEW x \in Handlers, AddTree(x)
    PROVE  Delivered' /\ RearmedInv' /\ \A y \in Handlers : Asked(y)'
<1> USE DEF ArmedInv, HandInv
<1>1. TypeOK /\ h[x].pc = "add_tree" /\ ~broken /\ Asked(x) /\ Stage(x) /\ Steady \subseteq Fds
  BY DEF AddTree, At, SerialInv, Placed, SteadyAssumption
<1>2. PICK fd \in Fds : fd = h[x].arg /\ Adds(x, fd)
  BY <1>1 DEF TypeOK, Adds
<1>3. watch[fd] = NoItem
  BY <1>1, <1>2 DEF Stage
<1>4. /\ watch' = [watch EXCEPT ![fd] = AddEvents] /\ Move(x, "add_epoll")
      /\ UNCHANGED <<reports, actives, rqueue, tpq, registered, armed, open, broken>>
  BY <1>2, <1>3 DEF AddTree, mainVars, queueVars, kernelVars
<1>5. /\ h'[x] = [pc |-> "add_epoll", ri |-> h[x].ri, ret |-> h[x].ret, arg |-> h[x].arg]
      /\ \A y \in Handlers \ {x} : h'[y] = h[y]
  <2>1. "add_epoll" \in HandlerAt /\ h[x].pc # "idle" /\ h[x].arg \in Fds
    BY <1>1, <1>2 DEF HandlerAt
  <2> QED
    BY <1>1, <1>4, <2>1, HandlerMoves, TypesOfHandlers
<1>6. watch'[fd] = AddEvents /\ \A g \in Fds \ {fd} : watch'[g] = watch[g]
  BY <1>1, <1>4 DEF TypeOK
<1>7. /\ armed[fd] = {} /\ fd \notin DOMAIN reports
      /\ \A y \in Handlers : Adds(y, fd) => y = x
  BY <1>2, AdderAlone DEF SerialInv, Placed
<1>8. \A g \in Steady \ {fd} : Rearmed(g)' /\ (~broken' => \A y \in Handlers : Recorded(y, g)')
  <2>1. \A g \in Fds \ {fd} : /\ Holds(x, g) => Holds(x, g)'
                              /\ ~Adds(x, g) /\ ~Adds(x, g)' /\ ~Recording(x, g) /\ ~Recording(x, g)'
    BY <1>1, <1>2, <1>5 DEF Holds, Adds, Recording
  <2> QED
    BY <1>1, <1>4, <1>5, <1>6, <2>1, OthersArmed
<1>9. Adds(x, fd)' /\ Away(fd)'
  BY <1>2, <1>5 DEF Adds, Away
<1>10. Rearmed(fd)'
  BY <1>4, <1>6, <1>7, <1>9 DEF Rearmed
<1>11. ASSUME fd \in Steady, NEW y \in Handlers PROVE Recorded(y, fd)'
  <2>1. Recorded(y, fd)
    BY <1>1, <1>11 DEF RearmedInv
  <2>2. ~Recording(y, fd)
    BY <1>2, <2>1 DEF Recorded
  <2> QED
    BY <1>1, <1>5, <2>2 DEF Recorded, Recording
<1>12. ASSUME NEW y \in Handlers PROVE Asked(y)'
  <2>1. CASE y = x
    BY <1>1, <1>2, <1>5, <1>6, <2>1 DEF Asked, HasEvents
  <2>2. CASE y # x
    <3>1. h[y].pc = "add_epoll" => h[y].arg \in Fds \ {fd}
      BY <1>1, <1>7, <2>2 DEF TypeOK, Adds
    <3> QED
      BY <1>5, <1>6, <2>2, <3>1 DEF Asked, HasEvents
  <2> QED
    BY <2>1, <2>2
<1>13. Delivered'
  BY <1>4 DEF Delivered
<1> QED
  BY <1>8, <1>10, <1>11, <1>12, <1>13 DEF RearmedInv

LEMMA AddEpollArmed ==
    ASSUME LoopAssumption, SteadyAssumption, ArmedInv, NEW x \in Handlers, AddEpoll(x)
    PROVE  Delivered' /\ RearmedInv' /\ \A y \in Handlers : Asked(y)'
<1> USE DEF ArmedInv, HandInv
<1>1. TypeOK /\ h[x].pc = "add_epoll" /\ ~broken /\ Asked(x) /\ h[x].ri \in Items /\ Steady \subseteq Fds
  BY DEF AddEpoll, At, SerialInv, TypeOK, SteadyAssumption
<1>2. PICK fd \in Fds : fd = h[x].arg /\ Adds(x, fd)
  BY <1>1 DEF TypeOK, Adds
<1>3. fd \in Steady => watch[fd] = AddEvents
  BY <1>1, <1>2 DEF Asked
<1>4. /\ registered' = registered \cup {fd} /\ armed' = [armed EXCEPT ![fd] = AddEvents]
      /\ UNCHANGED <<reports, actives, rqueue, tpq, watch, open, broken>>
  BY <1>2 DEF AddEpoll, mainVars, queueVars
<1>5. /\ h'[x] = [pc |-> "callback", ri |-> h[x].ri, ret |-> h[x].ret, arg |-> NoItem]
      /\ \A y \in Handlers \ {x} : h'[y] = h[y]
  <2>1. "callback" \in HandlerAt /\ NoItem \in Fds \cup {NoItem}
    BY DEF HandlerAt
  <2>2. Adding(x, "callback", NoItem) /\ HandlersOK
    BY TypesOfHandlers, <1>1 DEF AddEpoll, Adding
  <2> QED
    BY <1>1, <2>1, <2>2, HandlerAdds
<1>6. armed'[fd] = AddEvents /\ \A g \in Fds \ {fd} : armed'[g] = armed[g]
  BY <1>1, <1>4 DEF TypeOK
<1>7. fd \notin DOMAIN reports
  BY <1>2, AdderAlone DEF SerialInv, Placed
<1>8. \A g \in Steady \ {fd} : Rearmed(g)' /\ (~broken' => \A y \in Handlers : Recorded(y, g)')
  <2>1. \A g \in Fds \ {fd} : /\ Holds(x, g) => Holds(x, g)'
                              /\ ~Adds(x, g) /\ ~Adds(x, g)' /\ ~Recording(x, g) /\ ~Recording(x, g)'
    BY <1>1, <1>2, <1>5 DEF Holds, Adds, Recording
  <2> QED
    BY <1>1, <1>4, <1>5, <1>6, <2>1, OthersArmed
<1>9. fd \in Steady => Rearmed(fd)'
  BY <1>3, <1>4, <1>6, <1>7 DEF Rearmed
<1>10. ASSUME fd \in Steady, NEW y \in Handlers PROVE Recorded(y, fd)'
  <2>1. Recorded(y, fd)
    BY <1>1, <1>10 DEF RearmedInv
  <2>2. ~Recording(y, fd)
    BY <1>2, <2>1 DEF Recorded
  <2> QED
    BY <1>1, <1>5, <2>2 DEF Recorded, Recording
<1>11. ASSUME NEW y \in Handlers PROVE Asked(y)'
  BY <1>1, <1>4, <1>5 DEF Asked, HasEvents
<1>12. Delivered'
  BY <1>4 DEF Delivered
<1> QED
  BY <1>8, <1>9, <1>10, <1>11, <1>12 DEF RearmedInv

LEMMA MainAddArmed ==
    ASSUME LoopAssumption, SteadyAssumption, ArmedInv, NEW fd \in Fds, MainAdd(fd)
    PROVE  Delivered' /\ RearmedInv' /\ \A y \in Handlers : Asked(y)'
<1> USE DEF ArmedInv, HandInv
<1>1. /\ fd \notin open /\ ~broken /\ TypeOK /\ UNCHANGED <<reports, actives, rqueue, tpq, h, broken>>
      /\ open' = open \cup {fd} /\ Steady \subseteq Fds
      /\ \A g \in Fds : /\ watch'[g] = IF g = fd THEN AddEvents ELSE watch[g]
                        /\ armed'[g] = IF g = fd THEN AddEvents ELSE armed[g]
  BY DEF MainAdd, OutsideLoop, Main, mainVars, queueVars, SerialInv, TypeOK, SteadyAssumption
<1>2. ASSUME fd \in Steady PROVE fd \notin DOMAIN reports /\ \A y \in Handlers : ~Recording(y, fd) /\ ~Adds(y, fd)
  BY <1>1, <1>2, ClosedIsFree
<1>3. ASSUME NEW g \in Steady, g # fd
      PROVE  Rearmed(g)' /\ (~broken' => \A y \in Handlers : Recorded(y, g)')
  <2>1. SameHandling(g)
    BY <1>1, <1>3 DEF SameHandling, Adds, Recording
  <2>2. Away(g) => Away(g)'
    BY <1>1 DEF Away, Holds, Adds
  <2> QED
    BY <1>1, <1>3, <2>1, <2>2, StaysRearmed DEF RearmedInv
<1>4. ASSUME fd \in Steady PROVE Rearmed(fd)' /\ \A y \in Handlers : Recorded(y, fd)'
  BY <1>1, <1>2, <1>4 DEF Rearmed, Recorded, Recording
<1>5. ASSUME NEW y \in Handlers PROVE Asked(y)'
  BY <1>1 DEF Asked, HasEvents
<1>6. Delivered'
  BY <1>1 DEF Delivered
<1> QED
  BY <1>3, <1>4, <1>5, <1>6 DEF RearmedInv

LEMMA AsyncArmed ==
    ASSUME LoopAssumption, SteadyAssumption, ArmedInv, NEW a \in Asyncs,
           MainAsync(a) \/ \E x \in Handlers : CallbackAsync(x, a)
    PROVE  Delivered' /\ RearmedInv' /\ \A y \in Handlers : Asked(y)'
<1> USE DEF ArmedInv, HandInv
<1> DEFINE ri == [src |-> a, ev |-> {"EV_ASYNC"}]
<1>1. /\ UNCHANGED <<reports, actives, tpq, h, watch, registered, armed, open, broken>>
      /\ rqueue' = [rqueue EXCEPT ![Prio[ri.src]] = Append(@, ri)]
  BY DEF MainAsync, CallbackAsync, MakeReady, mainVars, kernelVars
<1>2. ri \in Items /\ HasEvents(ri) /\ TypeOK /\ Steady \subseteq Fds
  BY DEF Items, Sources, Events, HasEvents, SerialInv, SteadyAssumption
<1>3. /\ \A p \in Priorities : AllHaveEvents(rqueue'[p])
      /\ \A p \in Priorities : \A fd : ItemIn(rqueue[p], fd) => ItemIn(rqueue'[p], fd)
  BY <1>1, <1>2, ReadyQueued, EventsQueued
<1>4. \A fd \in Steady : Away(fd) => Away(fd)'
  BY <1>1, <1>3 DEF Away, Holds, Adds
<1>5. Delivered'
  BY <1>1, <1>3 DEF Delivered
<1> QED
  BY <1>1, <1>4, <1>5, NothingRearmed

-----------------------------------------------------------------------------
LEMMA InitArmed == ASSUME LoopAssumption, SteadyAssumption, Init PROVE ArmedInv
<1>1. HandInv
  BY InitHand
<1>2. Delivered
  BY DEF Init, Delivered, AllHaveEvents
<1>3. \A x \in Handlers : Asked(x) /\ \A fd : ~Recording(x, fd)
  BY DEF Init, IdleHandler, Asked, Recording
<1>4. \A fd \in Steady : watch[fd] = NoItem
  BY DEF Init, SteadyAssumption
<1> QED
  BY <1>1, <1>2, <1>3, <1>4 DEF ArmedInv, RearmedInv, Rearmed, Recorded

LEMMA ArmedInductive ==
    ASSUME LoopAssumption, CallersKeepRules, SteadyAssumption, ArmedInv, [Next]_vars, [AsksAgain]_vars
    PROVE  ArmedInv'
<1>1. HandInv'
  BY HandInductive DEF ArmedInv
<1>2. ASSUME MainStep \/ EpollInterrupted \/ LoopRun
      PROVE  Delivered' /\ RearmedInv' /\ \A y \in Handlers : Asked(y)'
  <2>1. ASSUME LoopTest \/ EpollInterrupted \/ LoopRun \/ EpollTimeout \/ CountReady \/ Drained
                \/ ClearNotification
        PROVE  UNCHANGED <<reports, actives, rqueue, tpq, h, watch, armed, open, broken>>
    BY <2>1 DEF LoopTest, EpollInterrupted, LoopRun, EpollTimeout, CountReady, Drained,
         ClearNotification, queueVars, kernelVars
  <2> QED
    BY <1>2, <2>1, NothingArmed, ReportArmed, TranslateArmed, SearchArmed, EqueueArmed,
       DrainArmed DEF MainStep
<1>3. ASSUME NEW x \in Handlers, HandlerStep(x) \/ StopSet(x), AsksAgain
      PROVE  Delivered' /\ RearmedInv' /\ \A y \in Handlers : Asked(y)'
  BY <1>3, StartArmed, ReturnArmed, SimpleArmed, RequeueArmed, DelArmed, ModEpollArmed,
     ModEventsArmed, AddTreeArmed, AddEpollArmed DEF HandlerStep
<1>4. ASSUME \/ \E fd \in Fds, e \in IoEvents : IoReady(fd, e)
             \/ UNCHANGED vars
      PROVE  Delivered' /\ RearmedInv' /\ \A y \in Handlers : Asked(y)'
  <2>1. UNCHANGED <<reports, actives, rqueue, tpq, h, watch, armed, open, broken>>
    BY <1>4 DEF IoReady, vars, mainVars, queueVars, kernelVars
  <2> QED
    BY <2>1, NothingArmed
<1>5. Delivered' /\ RearmedInv' /\ \A y \in Handlers : Asked(y)'
  BY <1>2, <1>3, <1>4, MainAddArmed, AsyncArmed, OpenArmed DEF Next
<1> QED
  BY <1>1, <1>5 DEF ArmedInv

(* Nobody busy with it, a descriptor is nowhere on its way.                *)
LEMMA QuietIsIn == ASSUME NEW fd \in Fds, Quiet(fd)
                   PROVE  ~Away(fd) /\ \A x \in Handlers : ~Recording(x, fd)
<1>1. \A x \in Handlers : ~Holds(x, fd) /\ ~Adds(x, fd) /\ ~Recording(x, fd)
  BY DEF Quiet, Holds, Adds, Recording, FdOf
<1>2. fd \notin DOMAIN reports /\ fd \notin DOMAIN actives
  <2>1. EventsOf(fd) = {}
    BY DEF Quiet
  <2>2. /\ fd \in DOMAIN reports => <<"report", fd>> \in EventsOf(fd)
        /\ fd \in DOMAIN actives => <<"active", fd>> \in EventsOf(fd)
    BY DEF EventsOf
  <2> QED
    BY <2>1, <2>2
<1>3. ASSUME NEW p \in Priorities, ItemIn(rqueue[p], fd) PROVE FALSE
  <2>1. PICK i \in 1..Len(rqueue[p]) : rqueue[p][i].src = fd
    BY <1>3 DEF ItemIn
  <2>2. <<p, i>> \in EventsOf(fd)
    BY <2>1 DEF EventsOf
  <2> QED
    BY <2>2 DEF Quiet
<1>4. ASSUME ItemIn(tpq, fd) PROVE FALSE
  <2>1. PICK i \in 1..Len(tpq) : tpq[i].src = fd
    BY <1>4 DEF ItemIn
  <2>2. <<"job", i>> \in EventsOf(fd)
    BY <2>1 DEF EventsOf
  <2> QED
    BY <2>2 DEF Quiet
<1> QED
  BY <1>1, <1>2, <1>3, <1>4 DEF Away

LEMMA QuietIsArmed ==
    ASSUME SteadyAssumption, ArmedInv PROVE \A fd \in Steady : ArmedAsWatched(fd)
BY QuietIsIn DEF ArmedInv, RearmedInv, Rearmed, ArmedAsWatched, SteadyAssumption

(* Whenever nobody is busy with it, a watched descriptor whose callbacks   *)
(* ask for the same events every time is armed for just what it is watched *)
(* for: no interleaving of handlers that re-arm, delete and add            *)
(* descriptors, and no callbacks of other descriptors that switch their    *)
(* events, lose the events of one that is still watched.                   *)
THEOREM SteadyIsArmed ==
    ASSUME LoopAssumption, CallersKeepRules, SteadyAssumption
    PROVE  Spec /\ [][AsksAgain]_vars => [](\A fd \in Steady : ArmedAsWatched(fd))
<1>1. Init => ArmedInv
  BY InitArmed
<1>2. ArmedInv /\ [Next]_vars /\ [AsksAgain]_vars => ArmedInv'
  BY ArmedInductive
<1>3. ArmedInv => \A fd \in Steady : ArmedAsWatched(fd)
  BY QuietIsArmed
<1> QED
  BY <1>1, <1>2, <1>3, PTL DEF Spec

(* So every watched descriptor is, when the callbacks of each ask for the  *)
(* same events every time.                                                 *)
THEOREM WatchedIsArmed ==
    ASSUME LoopAssumption, CallersKeepRules, SteadyAssumption, Steady = Fds
    PROVE  Spec /\ [][AsksAgain]_vars => []WatchedMeansArmed
<1>1. (\A fd \in Steady : ArmedAsWatched(fd)) => WatchedMeansArmed
  BY DEF WatchedMeansArmed
<1> QED
  BY <1>1, SteadyIsArmed, PTL
=============================================================================
