------------------------------ MODULE ThreadPool ------------------------------
(***************************************************************************)
(* The thread pool of src/system/nx/thread_pool: a FIFO of jobs served by  *)
(* detached worker threads that are spawned on demand, sleep on a          *)
(* condition variable while there is nothing to do, and exit after a       *)
(* timeout when the pool is larger than t_min.                             *)
(*                                                                         *)
(* Every access to the pool is made under pool_mtx.  A caller's critical   *)
(* section (tp_queue, one turn of tp_wait, ...) is one action; a worker    *)
(* holds the mutex over a sequence of steps (thread_idle's loop, its exit, *)
(* worker_cleanup), and each of those steps is an action that requires     *)
(* mtx = w.  A thread that sleeps on a condition variable does not hold    *)
(* the mutex and takes it again when it wakes.                             *)
(***************************************************************************)
EXTENDS Integers, Sequences, FiniteSets

CONSTANTS
    Workers,        \* thread slots: pthread_create fails when all are in use
    Callers,        \* threads outside the pool that call its functions
    Cancellers,     \* the callers that call tp_cancel or tp_destroy
    Jobs,           \* the jobs that may be queued, each once
    t_num_min,      \* tp_create's arguments
    t_num_max,
    timeout_sec,
    SpawnMayFail,   \* TRUE: pthread_create may also fail with a slot free
    Spurious,       \* TRUE: pthread_cond_wait may return without a signal
    NoThread,       \* the mutex is free
    NoJob           \* the worker has no job

T_NUM_MIN_DEFAULT == 5
T_NUM_MAX_DEFAULT == 100

(* tp_create: a zero selects the default.  The arguments are compared, not *)
(* the results: tp_create(0, 3, ...) yields t_min = 5 and t_max = 3.       *)
t_min == IF t_num_min = 0 THEN T_NUM_MIN_DEFAULT ELSE t_num_min
t_max == IF t_num_max = 0 THEN T_NUM_MAX_DEFAULT ELSE t_num_max

ASSUME PoolAssumption ==
    /\ t_num_min \in Nat /\ t_num_max \in Nat
    /\ t_num_min <= t_num_max
    /\ timeout_sec \in Nat
    /\ SpawnMayFail \in BOOLEAN /\ Spurious \in BOOLEAN
    /\ IsFiniteSet(Workers)
    /\ Cancellers \subseteq Callers
    /\ NoThread \notin Workers
    /\ NoJob \notin Jobs

VARIABLES
    jobq,       \* tp->jobq: the queued jobs, oldest first
    idleq,      \* tp->idleq, as a set: only its emptiness is ever tested
    activeq,    \* tp->activeq, as a set
    t_total,    \* tp->t_total
    state,      \* tp->state: the flags that are set
    mtx,        \* the worker that holds tp->pool_mtx between two actions
    pc,         \* where each worker is
    job,        \* the job whose callback a worker runs
    cancelreq,  \* workers with a pending pthread_cancel
    cpc,        \* where each caller is
    cancelling, \* callers that have entered tp_cancel
    freed,      \* tp_destroy has freed the pool
    ret,        \* what tp_queue returned for each job
    finished    \* history: jobs whose callback has returned

poolVars   == <<jobq, idleq, activeq, t_total, state>>
workerVars == <<mtx, pc, job, cancelreq>>
callerVars == <<cpc, cancelling, freed>>
vars == <<poolVars, workerVars, callerVars, ret, finished>>

Sleeping == {"wait", "timedwait"}
Flags == {"BUSY", "WAIT", "CANCEL"}

Init ==
    /\ jobq = <<>> /\ idleq = {} /\ activeq = {} /\ t_total = 0 /\ state = {}
    /\ mtx = NoThread
    /\ pc = [w \in Workers |-> "none"]
    /\ job = [w \in Workers |-> NoJob]
    /\ cancelreq = {}
    /\ cpc = [c \in Callers |-> "out"]
    /\ cancelling = {} /\ freed = FALSE
    /\ ret = [j \in Jobs |-> "none"]
    /\ finished = {}

-----------------------------------------------------------------------------
(* Shared steps                                                            *)

(* A step on a freed pool is undefined behaviour; none is modelled, and    *)
(* ReapedBeforeFree says whether one could be taken.                       *)

(* A caller's critical section: nobody holds the mutex.                    *)
Section(c, at) == ~freed /\ cpc[c] = at /\ mtx = NoThread

(* A worker takes the mutex, and goes on while it holds it.                *)
Lock(w) == ~freed /\ mtx = NoThread /\ mtx' = w
Holds(w, at) == ~freed /\ pc[w] = at /\ mtx = w
Unlock(w) == mtx = w /\ mtx' = NoThread

Idle == activeq = {} /\ jobq = <<>>

(* Mutant: pthread_cond_signal instead of pthread_cond_broadcast.          *)
BroadcastToOne(asleep, awake) ==
    IF \E c \in Callers : cpc[c] = asleep
    THEN \E c \in Callers : cpc[c] = asleep /\ cpc' = [cpc EXCEPT ![c] = awake]
    ELSE UNCHANGED cpc

(* Mutant: the condition variable is not signalled.                        *)
BroadcastToNobody(asleep, awake) == UNCHANGED cpc

(* The callers asleep at one place, broadcast to, go to another.           *)
Broadcast(asleep, awake) ==
    cpc' = [c \in Callers |-> IF cpc[c] = asleep THEN awake ELSE cpc[c]]

(* if (state & POOL_WAIT) tp_notify_waiter(tp), with the active queue as   *)
(* the caller of it leaves it.                                             *)
NotifyWaiter(active) ==
    IF "WAIT" \in state /\ active = {} /\ jobq = <<>>
    THEN state' = state \ {"WAIT"} /\ Broadcast("wait_sleep", "wait_test")
    ELSE UNCHANGED <<state, cpc>>

(* pthread_cond_signal(&pool_workcv): one sleeper, if there is one.        *)
SignalWork ==
    IF \E w \in Workers : pc[w] \in Sleeping
    THEN \E w \in Workers : pc[w] \in Sleeping /\ pc' = [pc EXCEPT ![w] = "woken"]
    ELSE UNCHANGED pc

Spawn == \E w \in Workers : pc[w] = "none" /\ pc' = [pc EXCEPT ![w] = "spawned"]

SpawnCanFail == SpawnMayFail \/ \A w \in Workers : pc[w] # "none"

-----------------------------------------------------------------------------
(* Callers                                                                 *)

(* The job is enqueued, and an idle worker signalled, before tp_queue      *)
(* decides whether to spawn; a failed spawn leaves the job queued.         *)
TpQueue(c, j) ==
    /\ Section(c, "out") /\ c \notin cancelling
    /\ ret[j] = "none"
    /\ jobq' = Append(jobq, j)
    /\ state' = state \cup {"BUSY"}
    /\ \/ /\ idleq # {}
          /\ SignalWork
          /\ ret' = [ret EXCEPT ![j] = "ok"]
       \/ /\ idleq = {} /\ t_total < t_max
          /\ Spawn
          /\ ret' = [ret EXCEPT ![j] = "ok"]
       \/ /\ idleq = {} /\ t_total < t_max
          /\ SpawnCanFail
          /\ UNCHANGED pc
          /\ ret' = [ret EXCEPT ![j] = "error"]
       \/ /\ idleq = {} /\ t_total >= t_max
          /\ UNCHANGED pc
          /\ ret' = [ret EXCEPT ![j] = "ok"]
    /\ UNCHANGED <<idleq, activeq, t_total, mtx, job, cancelreq, callerVars, finished>>

TpWaitCall(c) ==
    /\ ~freed /\ cpc[c] = "out" /\ c \notin cancelling
    /\ cpc' = [cpc EXCEPT ![c] = "wait_test"]
    /\ UNCHANGED <<poolVars, workerVars, cancelling, freed, ret, finished>>

(* One turn of tp_wait's loop: sleep, or return to the caller (or to       *)
(* tp_cancel, which calls it).                                             *)
TpWait(c) ==
    /\ Section(c, "wait_test")
    /\ \/ /\ ~Idle
          /\ state' = state \cup {"WAIT"}
          /\ cpc' = [cpc EXCEPT ![c] = "wait_sleep"]
       \/ /\ Idle
          /\ cpc' = [cpc EXCEPT ![c] = IF c \in cancelling THEN "exit_test" ELSE "out"]
          /\ UNCHANGED state
    /\ UNCHANGED <<jobq, idleq, activeq, t_total, workerVars, cancelling, freed, ret, finished>>

(* Mutant: only the active threads are cancelled.                          *)
TpCancelActive(c) ==
    /\ c \in Cancellers
    /\ Section(c, "out") /\ c \notin cancelling
    /\ state' = state \cup {"CANCEL"}
    /\ jobq' = <<>>
    /\ cancelreq' = cancelreq \cup activeq
    /\ cpc' = [cpc EXCEPT ![c] = "wait_test"]
    /\ cancelling' = cancelling \cup {c}
    /\ UNCHANGED <<idleq, activeq, t_total, mtx, pc, job, freed, ret, finished>>

(* tp_cancel's first critical section: drop the queue, cancel the threads. *)
TpCancel(c) ==
    /\ c \in Cancellers
    /\ Section(c, "out") /\ c \notin cancelling
    /\ state' = state \cup {"CANCEL"}
    /\ jobq' = <<>>
    /\ cancelreq' = cancelreq \cup activeq \cup idleq
    /\ cpc' = [cpc EXCEPT ![c] = "wait_test"]
    /\ cancelling' = cancelling \cup {c}
    /\ UNCHANGED <<idleq, activeq, t_total, mtx, pc, job, freed, ret, finished>>

(* tp_cancel's last loop: until no thread is counted.                      *)
TpCancelExit(c) ==
    /\ Section(c, "exit_test")
    /\ cpc' = [cpc EXCEPT ![c] = IF t_total # 0 THEN "exit_sleep" ELSE "returned"]
    /\ UNCHANGED <<poolVars, workerVars, cancelling, freed, ret, finished>>

(* tp_destroy after its tp_cancel.  Its caller must be the last user of    *)
(* the pool: no other caller is inside one of its functions.               *)
TpDestroy(c) ==
    /\ ~freed /\ cpc[c] = "returned"
    /\ \A d \in Callers : cpc[d] \in {"out", "returned"}
    /\ freed' = TRUE
    /\ UNCHANGED <<poolVars, workerVars, cpc, cancelling, ret, finished>>

-----------------------------------------------------------------------------
(* Workers                                                                 *)

(* create_worker up to its loop.                                           *)
CreateWorker(w) ==
    /\ pc[w] = "spawned"
    /\ Lock(w)
    /\ idleq' = idleq \cup {w}
    /\ t_total' = t_total + 1
    /\ pc' = [pc EXCEPT ![w] = "idle"]
    /\ UNCHANGED <<jobq, activeq, state, job, cancelreq, callerVars, ret, finished>>

(* thread_idle before its loop.                                            *)
ThreadIdle(w) ==
    /\ Holds(w, "idle")
    /\ NotifyWaiter(activeq)
    /\ pc' = [pc EXCEPT ![w] = "idle_loop"]
    /\ UNCHANGED <<jobq, idleq, activeq, t_total, mtx, job, cancelreq,
                   cancelling, freed, ret, finished>>

(* A thread that goes idle clears POOL_BUSY if none is active.             *)
AfterIdle == IF activeq = {} THEN state \ {"BUSY"} ELSE state

(* The pool is above its minimum.  (Mutant: above its maximum.)            *)
SurplusOverMax == t_total > t_max
Surplus == t_total > t_min

(* thread_idle's loop body: nothing to do, so sleep, with a timeout if the *)
(* pool is above its minimum; a timeout of zero exits at once.             *)
IdleWait(w) ==
    /\ Holds(w, "idle_loop")
    /\ jobq = <<>> /\ "CANCEL" \notin state
    /\ state' = AfterIdle
    /\ \/ /\ ~Surplus
          /\ pc' = [pc EXCEPT ![w] = "wait"]
          /\ Unlock(w)
       \/ /\ Surplus /\ timeout_sec > 0
          /\ pc' = [pc EXCEPT ![w] = "timedwait"]
          /\ Unlock(w)
       \/ /\ Surplus /\ timeout_sec = 0
          /\ pc' = [pc EXCEPT ![w] = "exit"]
          /\ UNCHANGED mtx
    /\ UNCHANGED <<jobq, idleq, activeq, t_total, job, cancelreq, callerVars, ret, finished>>

(* A cancelled pool breaks create_worker's loop.                           *)
IdleBreak(w) ==
    /\ Holds(w, "idle_loop")
    /\ "CANCEL" \in state
    /\ pc' = [pc EXCEPT ![w] = "exit"]
    /\ UNCHANGED <<poolVars, mtx, job, cancelreq, callerVars, ret, finished>>

(* Mutant: POOL_CANCEL is not looked at.                                   *)
TakeJobCancelled(w) ==
    /\ Holds(w, "idle_loop")
    /\ jobq # <<>>
    /\ jobq' = Tail(jobq)
    /\ job' = [job EXCEPT ![w] = Head(jobq)]
    /\ idleq' = idleq \ {w}
    /\ activeq' = activeq \cup {w}
    /\ state' = state \cup {"BUSY"}
    /\ pc' = [pc EXCEPT ![w] = "run"]
    /\ Unlock(w)
    /\ UNCHANGED <<t_total, cancelreq, callerVars, ret, finished>>

(* create_worker takes the oldest job and runs it outside the mutex.       *)
TakeJob(w) ==
    /\ Holds(w, "idle_loop")
    /\ jobq # <<>> /\ "CANCEL" \notin state
    /\ jobq' = Tail(jobq)
    /\ job' = [job EXCEPT ![w] = Head(jobq)]
    /\ idleq' = idleq \ {w}
    /\ activeq' = activeq \cup {w}
    /\ state' = state \cup {"BUSY"}
    /\ pc' = [pc EXCEPT ![w] = "run"]
    /\ Unlock(w)
    /\ UNCHANGED <<t_total, cancelreq, callerVars, ret, finished>>

(* A sleeper that was signalled gets the mutex back and tests again.       *)
Wake(w) ==
    /\ pc[w] = "woken"
    /\ Lock(w)
    /\ pc' = [pc EXCEPT ![w] = "idle_loop"]
    /\ UNCHANGED <<poolVars, job, cancelreq, callerVars, ret, finished>>

(* The timed wait expires; the thread still has to get the mutex back, and *)
(* then exits without looking at the queue again.                          *)
Timeout(w) ==
    /\ ~freed /\ pc[w] = "timedwait"
    /\ pc' = [pc EXCEPT ![w] = "timedout"]
    /\ UNCHANGED <<poolVars, mtx, job, cancelreq, callerVars, ret, finished>>

TimeoutExit(w) ==
    /\ pc[w] = "timedout"
    /\ Lock(w)
    /\ pc' = [pc EXCEPT ![w] = "exit"]
    /\ UNCHANGED <<poolVars, job, cancelreq, callerVars, ret, finished>>

(* A pending cancellation acts on a thread blocked on pool_workcv.         *)
CancelIdle(w) ==
    /\ w \in cancelreq /\ pc[w] \in Sleeping
    /\ Lock(w)
    /\ pc' = [pc EXCEPT ![w] = "exit"]
    /\ UNCHANGED <<poolVars, job, cancelreq, callerVars, ret, finished>>

(* The effect of job_finish, whatever ended the job.                       *)
LeaveActive(w) ==
    /\ Lock(w)
    /\ activeq' = activeq \ {w}
    /\ idleq' = idleq \cup {w}
    /\ job' = [job EXCEPT ![w] = NoJob]
    /\ NotifyWaiter(activeq \ {w})
    /\ UNCHANGED <<jobq, t_total, cancelreq, cancelling, freed, ret>>

JobFinish(w) ==
    /\ pc[w] = "run"
    /\ LeaveActive(w)
    /\ finished' = finished \cup {job[w]}
    /\ pc' = [pc EXCEPT ![w] = "idle"]

(* Mutant: job_finish is not pushed as a cleanup handler.                  *)
JobCancelledActive(w) ==
    /\ pc[w] = "run" /\ w \in cancelreq
    /\ Lock(w)
    /\ pc' = [pc EXCEPT ![w] = "exit"]
    /\ UNCHANGED <<poolVars, job, cancelreq, callerVars, ret, finished>>

(* A pending cancellation acts inside the callback: job_finish, then       *)
(* worker_cleanup.                                                         *)
JobCancelled(w) ==
    /\ pc[w] = "run" /\ w \in cancelreq
    /\ LeaveActive(w)
    /\ pc' = [pc EXCEPT ![w] = "exit"]
    /\ UNCHANGED finished

(* Mutant: a thread that exits does not look at the queue.                 *)
NoReplacement(total) == FALSE

NeedsReplacement(total) == jobq # <<>> /\ total < t_max

(* The thread leaves the pool.  In a pool that is not cancelled it starts  *)
(* its replacement if jobs are queued (the slot it frees is the one the    *)
(* replacement takes); in a cancelled pool the last one tells tp_cancel.   *)
WorkerCleanup(w) ==
    /\ Holds(w, "exit")
    /\ Unlock(w)
    /\ t_total' = t_total - 1
    /\ idleq' = idleq \ {w}
    /\ cancelreq' = cancelreq \ {w}
    /\ \/ /\ "CANCEL" \in state
          /\ pc' = [pc EXCEPT ![w] = "none"]
          /\ IF t_total' = 0 THEN Broadcast("exit_sleep", "exit_test") ELSE UNCHANGED cpc
       \/ /\ "CANCEL" \notin state
          /\ \/ /\ NeedsReplacement(t_total')
                /\ pc' = [pc EXCEPT ![w] = "spawned"]
             \/ /\ ~NeedsReplacement(t_total') \/ SpawnMayFail
                /\ pc' = [pc EXCEPT ![w] = "none"]
          /\ UNCHANGED cpc
    /\ UNCHANGED <<jobq, activeq, state, job, cancelling, freed, ret, finished>>

(* POSIX lets pthread_cond_wait return without a signal.                   *)
SpuriousWorker(w) ==
    /\ Spurious /\ ~freed
    /\ pc[w] \in Sleeping
    /\ pc' = [pc EXCEPT ![w] = "woken"]
    /\ UNCHANGED <<poolVars, mtx, job, cancelreq, callerVars, ret, finished>>

SpuriousCaller(c) ==
    /\ Spurious /\ ~freed
    /\ \/ cpc[c] = "wait_sleep" /\ cpc' = [cpc EXCEPT ![c] = "wait_test"]
       \/ cpc[c] = "exit_sleep" /\ cpc' = [cpc EXCEPT ![c] = "exit_test"]
    /\ UNCHANGED <<poolVars, workerVars, cancelling, freed, ret, finished>>
-----------------------------------------------------------------------------
CallerStep(c) ==
    \/ \E j \in Jobs : TpQueue(c, j)
    \/ TpWaitCall(c) \/ TpWait(c)
    \/ TpCancel(c) \/ TpCancelExit(c) \/ TpDestroy(c)
    \/ SpuriousCaller(c)

WorkerStep(w) ==
    \/ CreateWorker(w) \/ ThreadIdle(w) \/ IdleWait(w) \/ IdleBreak(w) \/ TakeJob(w)
    \/ Wake(w) \/ Timeout(w) \/ TimeoutExit(w) \/ CancelIdle(w)
    \/ JobFinish(w) \/ JobCancelled(w)
    \/ WorkerCleanup(w) \/ SpuriousWorker(w)

Next ==
    \/ \E c \in Callers : CallerStep(c)
    \/ \E w \in Workers : WorkerStep(w)

Spec == Init /\ [][Next]_vars

(* Steps of a thread that holds the mutex, and steps that begin by taking  *)
(* it.                                                                     *)
Holding(w) == ThreadIdle(w) \/ IdleWait(w) \/ IdleBreak(w) \/ TakeJob(w) \/ WorkerCleanup(w)
Locking(w) == CreateWorker(w) \/ Wake(w) \/ TimeoutExit(w) \/ CancelIdle(w) \/ JobFinish(w)

(* Threads that can run do run; a thread that waits for a mutex which is   *)
(* free again and again gets it; clocks advance; callbacks return.         *)
(* Nothing is assumed of the callers but that they finish the calls they   *)
(* make, and nothing makes a callback reach a cancellation point.          *)
Fairness ==
    /\ \A w \in Workers : /\ WF_vars(Holding(w))
                          /\ SF_vars(Locking(w))
                          /\ WF_vars(Timeout(w))
    /\ \A c \in Callers : SF_vars(TpWait(c) \/ TpCancelExit(c))

FairSpec == Spec /\ Fairness

-----------------------------------------------------------------------------
(* Properties                                                              *)

WorkerAt == {"none", "spawned", "idle", "idle_loop", "wait", "timedwait", "woken",
             "timedout", "run", "exit"}
CallerAt == {"out", "wait_test", "wait_sleep", "exit_test", "exit_sleep", "returned"}

(* Every variable has its type.                                            *)
TypeOK ==
    /\ jobq \in Seq(Jobs)
    /\ idleq \subseteq Workers /\ activeq \subseteq Workers
    /\ t_total \in Nat
    /\ state \subseteq Flags
    /\ mtx \in Workers \cup {NoThread}
    /\ pc \in [Workers -> WorkerAt]
    /\ job \in [Workers -> Jobs \cup {NoJob}]
    /\ cancelreq \subseteq Workers
    /\ cpc \in [Callers -> CallerAt]
    /\ cancelling \subseteq Callers
    /\ freed \in BOOLEAN
    /\ ret \in [Jobs -> {"none", "ok", "error"}]
    /\ finished \subseteq Jobs

(* t_total, which decides spawning, timing out and the end of tp_cancel,   *)
(* is at every moment the number of threads on the two thread queues, and  *)
(* no thread is on both.                                                   *)
TotalCountsQueues ==
    /\ idleq \cap activeq = {}
    /\ t_total = Cardinality(idleq \cup activeq)

Queued  == {jobq[i] : i \in 1..Len(jobq)}
Running == {job[w] : w \in activeq}
Accepted == {j \in Jobs : ret[j] # "none"}

(* A job is never in two places: not twice in the queue, not queued while  *)
(* a worker runs it or after it has run, not run by two workers; and       *)
(* unless the pool is cancelled an accepted job is always in one of them,  *)
(* whatever wakeups, timeouts and respawns happen.                         *)
JobInOnePlace ==
    /\ \A i, k \in 1..Len(jobq) : jobq[i] = jobq[k] => i = k
    /\ \A v, w \in activeq : job[v] = job[w] => v = w
    /\ Queued \cap Running = {} /\ Queued \cap finished = {} /\ Running \cap finished = {}
    /\ "CANCEL" \notin state
           => Accepted = Queued \cup Running \cup finished

(* No lost wakeup in tp_wait: while a caller sleeps on pool_waitcv in a    *)
(* pool that is not cancelled, POOL_WAIT is set, so that the next          *)
(* job_finish or thread_idle will broadcast, and there is work left that   *)
(* will lead to one.                                                       *)
WaiterHasWaker ==
    "CANCEL" \notin state /\ (\E c \in Callers : cpc[c] = "wait_sleep")
        => "WAIT" \in state /\ ~Idle

(* No lost wakeup in tp_cancel: while its caller sleeps on pool_exitcv,    *)
(* some thread is still counted, and the last to leave broadcasts.         *)
CancellerHasWaker ==
    (\E c \in Callers : cpc[c] = "exit_sleep") => t_total # 0

(* A queued job never waits for a pool that is all asleep or empty: the    *)
(* signal that tp_queue sends may be taken by a worker that is timing out, *)
(* or sent when nobody sleeps, and worker_cleanup's respawn makes up for   *)
(* it.  Holds as long as pthread_create does not fail.                     *)
QueuedJobHasWorker ==
    jobq # <<>> /\ "CANCEL" \notin state
        => \E w \in Workers : pc[w] \notin {"none"} \cup Sleeping

(* POOL_BUSY is set exactly while there is a queued job or an active       *)
(* thread (_thread_pool.h:15), whenever the mutex is free and the pool is  *)
(* not cancelled.                                                          *)
BusyMeansWork ==
    mtx = NoThread /\ "CANCEL" \notin state => ("BUSY" \in state <=> ~Idle)

(* The callers as JobPool sees them.                                       *)
Waiting == {c \in Callers \ cancelling : cpc[c] \in {"wait_test", "wait_sleep"}}
Closing == {c \in cancelling : cpc[c] # "returned"}
Gone    == {c \in Callers : cpc[c] = "returned"}

JP == INSTANCE JobPool WITH
          accepted <- Accepted, queue <- jobq, running <- Running,
          closed <- "CANCEL" \in state,
          waiting <- Waiting, closing <- Closing, gone <- Gone

(* The pool keeps JobPool's promises to its callers: jobs start in the     *)
(* order in which tp_queue took them, tp_wait returns only when nothing is *)
(* queued or active, nothing starts after tp_cancel has begun, and         *)
(* tp_cancel returns only when nothing runs.                               *)
ImplementsJobPool == JP!Spec

(* Every job that tp_queue accepted is run, if the pool is not cancelled.  *)
EveryJobRuns == \A j \in Jobs : ret[j] = "ok" ~> (j \in finished \/ "CANCEL" \in state)

(* A caller of tp_wait is released once the jobs run out.                  *)
WaitReturns ==
    \A c \in Callers : cpc[c] = "wait_sleep" ~> (cpc[c] = "out" \/ "CANCEL" \in state)

(* Idle threads beyond t_min go away: when the jobs run out, the pool      *)
(* shrinks to t_min threads or fewer and stays there.                      *)
ShrinksToMin == <>[](t_total <= t_min)

(* tp_cancel returns, provided that nobody queues jobs behind it.          *)
CancelReturns ==
    \A c \in Callers :
        (c \in cancelling /\ [](jobq = <<>>)) ~> (cpc[c] = "returned")

-----------------------------------------------------------------------------
(* What the documentation says and the code does not do                    *)

(* thread_pool.h:53: tp_destroy reaps all the threads, then reclaims the   *)
(* pool.                                                                   *)
ReapedBeforeFree == freed => \A w \in Workers : pc[w] = "none"

(* thread_pool.h:40: tp_wait blocks until all the jobs are finished and no *)
(* thread is active, and so not for ever in a pool where that is so.       *)
WaitReturnsWhenIdle ==
    \A c \in Callers : (cpc[c] = "wait_sleep" /\ []Idle) ~> (cpc[c] # "wait_sleep")
=============================================================================
