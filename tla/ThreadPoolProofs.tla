--------------------------- MODULE ThreadPoolProofs ---------------------------
(***************************************************************************)
(* Proofs about ThreadPool, for every number of threads, callers and jobs  *)
(* and every t_num_min, t_num_max and timeout.                             *)
(***************************************************************************)
EXTENDS ThreadPool, FiniteSetTheorems, TLAPS

IdleAt == {"idle", "idle_loop", "wait", "timedwait", "woken", "timedout", "exit"}
HoldAt == {"idle", "idle_loop", "exit"}

(* The thread queues are determined by where the threads are, and so is    *)
(* the holder of the mutex; a thread that runs has a job.                  *)
QueueInv ==
    /\ idleq = {w \in Workers : pc[w] \in IdleAt}
    /\ activeq = {w \in Workers : pc[w] = "run"}
    /\ \A w \in Workers : pc[w] = "run" => job[w] \in Jobs
MutexInv == \A w \in Workers : mtx = w <=> pc[w] \in HoldAt

(* The inductive invariant for the threads: t_total cannot go below zero   *)
(* because it counts the thread that leaves.                               *)
ThreadInv == TypeOK /\ QueueInv /\ MutexInv /\ TotalCountsQueues

-----------------------------------------------------------------------------
LEMMA AddMember ==
    ASSUME NEW S, NEW x, IsFiniteSet(S), x \notin S
    PROVE  Cardinality(S \cup {x}) = Cardinality(S) + 1
BY FS_AddElement

LEMMA RemoveMember ==
    ASSUME NEW S, NEW x, IsFiniteSet(S), x \in S
    PROVE  /\ Cardinality(S \ {x}) = Cardinality(S) - 1
           /\ Cardinality(S \ {x}) \in Nat
BY FS_RemoveElement, FS_CardinalityType

LEMMA QueuesFinite ==
    ASSUME TypeOK
    PROVE  IsFiniteSet(idleq \cup activeq)
BY PoolAssumption, FS_Subset DEF TypeOK

(* A notification changes only POOL_WAIT and wakes only sleeping waiters.  *)
LEMMA NotifyType ==
    ASSUME TypeOK, NEW active, NotifyWaiter(active)
    PROVE  state' \subseteq Flags /\ cpc' \in [Callers -> CallerAt]
BY DEF TypeOK, NotifyWaiter, Broadcast, CallerAt

LEMMA ThreadInvInit == Init => ThreadInv
<1> SUFFICES ASSUME Init PROVE ThreadInv
    OBVIOUS
<1>1. TypeOK
  <2>1. pc \in [Workers -> WorkerAt] /\ cpc \in [Callers -> CallerAt]
    BY DEF Init, WorkerAt, CallerAt
  <2>2. job \in [Workers -> Jobs \cup {NoJob}] /\ ret \in [Jobs -> {"none", "ok", "error"}]
    BY DEF Init
  <2>3. freed \in BOOLEAN
    BY Zenon DEF Init
  <2>4. jobq \in Seq(Jobs) /\ t_total \in Nat
    BY DEF Init
  <2> QED BY <2>1, <2>2, <2>3, <2>4 DEF Init, TypeOK
<1>2. QueueInv /\ MutexInv
  BY PoolAssumption DEF Init, QueueInv, MutexInv, IdleAt, HoldAt
<1>3. idleq \cup activeq = {} /\ t_total = 0 /\ idleq \cap activeq = {}
  BY DEF Init
<1> QED BY <1>1, <1>2, <1>3, FS_EmptySet DEF ThreadInv, TotalCountsQueues

LEMMA ThreadInvNext == ThreadInv /\ [Next]_vars => ThreadInv'
<1> SUFFICES ASSUME ThreadInv, [Next]_vars PROVE ThreadInv'
    OBVIOUS
<1> USE DEF ThreadInv
<1>1. ASSUME NEW c \in Callers, NEW j \in Jobs, TpQueue(c, j) PROVE ThreadInv'
  <2>1. \/ UNCHANGED pc
        \/ \E w \in Workers : pc[w] \in Sleeping /\ pc' = [pc EXCEPT ![w] = "woken"]
        \/ \E w \in Workers : pc[w] = "none" /\ pc' = [pc EXCEPT ![w] = "spawned"]
    BY <1>1 DEF TpQueue, SignalWork, Spawn
  <2>2. pc' \in [Workers -> WorkerAt] /\ QueueInv' /\ MutexInv'
    <3>1. UNCHANGED <<idleq, activeq, mtx, job>>
      BY <1>1 DEF TpQueue
    <3>2. CASE UNCHANGED pc
      BY <3>1, <3>2 DEF TypeOK, QueueInv, MutexInv
    <3>3. ASSUME NEW w \in Workers, pc[w] \in Sleeping, pc' = [pc EXCEPT ![w] = "woken"]
          PROVE  pc' \in [Workers -> WorkerAt] /\ QueueInv' /\ MutexInv'
      BY <3>1, <3>3 DEF Sleeping, TypeOK, QueueInv, MutexInv, IdleAt, HoldAt, WorkerAt
    <3>4. ASSUME NEW w \in Workers, pc[w] = "none", pc' = [pc EXCEPT ![w] = "spawned"]
          PROVE  pc' \in [Workers -> WorkerAt] /\ QueueInv' /\ MutexInv'
      BY <3>1, <3>4 DEF TypeOK, QueueInv, MutexInv, IdleAt, HoldAt, WorkerAt
    <3> QED BY <2>1, <3>2, <3>3, <3>4
  <2>3. ret' \in [Jobs -> {"none", "ok", "error"}]
    BY <1>1 DEF TpQueue, TypeOK
  <2>4. state' \subseteq Flags
    BY <1>1 DEF TpQueue, TypeOK, Flags
  <2>5. jobq' \in Seq(Jobs)
    <3>1. jobq' = Append(jobq, j) /\ jobq \in Seq(Jobs)
      BY <1>1 DEF TpQueue, TypeOK
    <3> QED BY <3>1
  <2> QED
    BY <1>1, <2>2, <2>3, <2>4, <2>5 DEF TpQueue, TypeOK, TotalCountsQueues, callerVars
<1>2. ASSUME NEW c \in Callers, TpWaitCall(c) PROVE ThreadInv'
  BY <1>2 DEF TpWaitCall, TypeOK, QueueInv, MutexInv, TotalCountsQueues, CallerAt,
              poolVars, workerVars
<1>3. ASSUME NEW c \in Callers, TpWait(c) PROVE ThreadInv'
  BY <1>3 DEF TpWait, Section, TypeOK, QueueInv, MutexInv, TotalCountsQueues, CallerAt, Flags,
              workerVars
<1>4. ASSUME NEW c \in Callers, TpCancel(c) PROVE ThreadInv'
  BY <1>4 DEF TpCancel, Section, TypeOK, QueueInv, MutexInv, TotalCountsQueues, CallerAt, Flags
<1>5. ASSUME NEW c \in Callers, TpCancelExit(c) PROVE ThreadInv'
  BY <1>5 DEF TpCancelExit, Section, TypeOK, QueueInv, MutexInv, TotalCountsQueues, CallerAt,
              poolVars, workerVars
<1>6. ASSUME NEW c \in Callers, TpDestroy(c) PROVE ThreadInv'
  BY <1>6 DEF TpDestroy, TypeOK, QueueInv, MutexInv, TotalCountsQueues, poolVars, workerVars
<1>7. ASSUME NEW c \in Callers, SpuriousCaller(c) PROVE ThreadInv'
  BY <1>7 DEF SpuriousCaller, TypeOK, QueueInv, MutexInv, TotalCountsQueues, CallerAt,
              poolVars, workerVars
<1>8. ASSUME NEW w \in Workers, CreateWorker(w) PROVE ThreadInv'
  <2>1. w \notin idleq \cup activeq /\ mtx' = w
    BY <1>8 DEF CreateWorker, Lock, TypeOK, QueueInv, IdleAt
  <2>2. TypeOK' /\ QueueInv' /\ MutexInv'
    BY <1>8, <2>1, PoolAssumption
       DEF CreateWorker, Lock, TypeOK, QueueInv, MutexInv, IdleAt, HoldAt, WorkerAt, callerVars
  <2>3. idleq' \cup activeq' = (idleq \cup activeq) \cup {w}
    BY <1>8 DEF CreateWorker
  <2>4. Cardinality(idleq' \cup activeq') = t_total + 1
    BY <2>1, <2>3, QueuesFinite, AddMember DEF TotalCountsQueues
  <2> QED BY <1>8, <2>1, <2>2, <2>4 DEF CreateWorker, TotalCountsQueues
<1>9. ASSUME NEW w \in Workers, ThreadIdle(w) PROVE ThreadInv'
  BY <1>9, NotifyType
     DEF ThreadIdle, Holds, TypeOK, QueueInv, MutexInv, TotalCountsQueues, IdleAt, HoldAt, WorkerAt
<1>10. ASSUME NEW w \in Workers, IdleWait(w) PROVE ThreadInv'
  BY <1>10, PoolAssumption
     DEF IdleWait, AfterIdle, Holds, Unlock, TypeOK, QueueInv, MutexInv, TotalCountsQueues,
         IdleAt, HoldAt, WorkerAt, Flags, callerVars
<1>11. ASSUME NEW w \in Workers, IdleBreak(w) PROVE ThreadInv'
  BY <1>11 DEF IdleBreak, Holds, TypeOK, QueueInv, MutexInv, TotalCountsQueues, IdleAt, HoldAt, WorkerAt,
               callerVars, poolVars
<1>12. ASSUME NEW w \in Workers, TakeJob(w) PROVE ThreadInv'
  <2>1. idleq' \cup activeq' = idleq \cup activeq
    BY <1>12 DEF TakeJob, Holds, QueueInv, IdleAt
  <2>2. QueueInv' /\ MutexInv'
    BY <1>12, PoolAssumption
       DEF TakeJob, Holds, Unlock, TypeOK, QueueInv, MutexInv, IdleAt, HoldAt, WorkerAt
  <2>3. TypeOK'
    BY <1>12, PoolAssumption DEF TakeJob, Holds, Unlock, TypeOK, WorkerAt, Flags, callerVars
  <2> QED BY <1>12, <2>1, <2>2, <2>3 DEF TakeJob, Holds, TotalCountsQueues, QueueInv
<1>13. ASSUME NEW w \in Workers, Wake(w) \/ TimeoutExit(w) \/ CancelIdle(w) PROVE ThreadInv'
  <2>1. PICK p \in HoldAt : pc' = [pc EXCEPT ![w] = p]
    BY <1>13 DEF Wake, TimeoutExit, CancelIdle, HoldAt
  <2>2. pc[w] \in {"woken", "timedout", "wait", "timedwait"} /\ Lock(w)
    BY <1>13 DEF Wake, TimeoutExit, CancelIdle, Sleeping
  <2>3. UNCHANGED <<poolVars, job, cancelreq, callerVars, ret, finished>>
    BY <1>13 DEF Wake, TimeoutExit, CancelIdle
  <2> QED
    BY <2>1, <2>2, <2>3, PoolAssumption
       DEF Lock, TypeOK, QueueInv, MutexInv, TotalCountsQueues, IdleAt, HoldAt, WorkerAt,
           callerVars, poolVars
<1>14. ASSUME NEW w \in Workers, Timeout(w) \/ SpuriousWorker(w) PROVE ThreadInv'
  BY ZenonT(30), <1>14 DEF Timeout, SpuriousWorker, Sleeping, TypeOK, QueueInv, MutexInv, TotalCountsQueues,
               IdleAt, HoldAt, WorkerAt, callerVars, poolVars
<1>15. ASSUME NEW w \in Workers, JobFinish(w) \/ JobCancelled(w) PROVE ThreadInv'
  <2>1. LeaveActive(w) /\ pc[w] = "run"
    BY <1>15 DEF JobFinish, JobCancelled
  <2>2. state' \subseteq Flags /\ cpc' \in [Callers -> CallerAt]
    BY <2>1, NotifyType DEF LeaveActive
  <2>3. idleq' \cup activeq' = idleq \cup activeq
    BY <2>1 DEF LeaveActive, QueueInv
  <2>4. QueueInv' /\ MutexInv'
    BY <1>15, <2>1, PoolAssumption
       DEF JobFinish, JobCancelled, LeaveActive, Lock, TypeOK, QueueInv, MutexInv, IdleAt, HoldAt,
           WorkerAt
  <2>5. finished' \subseteq Jobs
    BY <1>15, <2>1 DEF JobFinish, JobCancelled, TypeOK, QueueInv
  <2>6. idleq' \cap activeq' = {} /\ idleq' \subseteq Workers /\ activeq' \subseteq Workers
    BY <2>4 DEF QueueInv, IdleAt
  <2>7. pc' \in [Workers -> WorkerAt] /\ job' \in [Workers -> Jobs \cup {NoJob}]
    BY <1>15, <2>1 DEF JobFinish, JobCancelled, LeaveActive, TypeOK, WorkerAt
  <2> QED
    BY <2>1, <2>2, <2>3, <2>4, <2>5, <2>6, <2>7
       DEF LeaveActive, Lock, TypeOK, TotalCountsQueues
<1>16. ASSUME NEW w \in Workers, WorkerCleanup(w) PROVE ThreadInv'
  <2>1. w \in idleq \cup activeq /\ w \notin activeq
    BY <1>16 DEF WorkerCleanup, Holds, QueueInv, IdleAt
  <2>2. idleq' \cup activeq' = (idleq \cup activeq) \ {w}
    BY <1>16, <2>1 DEF WorkerCleanup
  <2>3. Cardinality(idleq' \cup activeq') = t_total - 1 /\ t_total - 1 \in Nat
    BY <2>1, <2>2, QueuesFinite, RemoveMember DEF TotalCountsQueues
  <2>4. QueueInv' /\ MutexInv'
    BY <1>16, PoolAssumption, ZenonT(40)
       DEF WorkerCleanup, Holds, Unlock, TypeOK, QueueInv, MutexInv, IdleAt, HoldAt, WorkerAt
  <2>5. cpc' \in [Callers -> CallerAt]
    BY <1>16 DEF WorkerCleanup, Broadcast, TypeOK, CallerAt
  <2>6. TypeOK'
    BY <1>16, <2>3, <2>5 DEF WorkerCleanup, Holds, Unlock, TypeOK, WorkerAt
  <2> QED BY <1>16, <2>3, <2>4, <2>6 DEF WorkerCleanup, TotalCountsQueues, QueueInv, IdleAt
<1>17. CASE UNCHANGED vars
  BY <1>17 DEF vars, poolVars, workerVars, callerVars, TypeOK, QueueInv, MutexInv,
               TotalCountsQueues
<1> QED
  BY <1>1, <1>2, <1>3, <1>4, <1>5, <1>6, <1>7, <1>8, <1>9, <1>10, <1>11, <1>12, <1>13, <1>14,
     <1>15, <1>16, <1>17
     DEF Next, CallerStep, WorkerStep

LEMMA ThreadInvAlways == Spec => []ThreadInv
BY ThreadInvInit, ThreadInvNext, PTL DEF Spec

(* Every reachable state is well typed.                                    *)
THEOREM TypeCorrect == Spec => []TypeOK
BY ThreadInvAlways, PTL DEF ThreadInv

(* t_total is the number of threads on the queues, which are disjoint.     *)
THEOREM TotalCorrect == Spec => []TotalCountsQueues
BY ThreadInvAlways, PTL DEF ThreadInv

-----------------------------------------------------------------------------
(* Only a cancelled pool has cancelled threads and callers in tp_cancel,   *)
(* and only those callers get past its tp_wait.                            *)
CancelInv ==
    /\ cancelreq # {} \/ cancelling # {} => "CANCEL" \in state
    /\ \A c \in Callers : cpc[c] \in {"exit_test", "exit_sleep", "returned"} => c \in cancelling

WakeInv == CancelInv /\ WaiterHasWaker /\ CancellerHasWaker

(* A notification leaves nobody asleep in an idle pool.                    *)
LEMMA NotifyWakes ==
    ASSUME TypeOK, NEW active, NotifyWaiter(active),
           "CANCEL" \notin state => WaiterHasWaker,
           "CANCEL" \notin state', NEW c \in Callers, cpc'[c] = "wait_sleep"
    PROVE  "WAIT" \in state' /\ ~(active = {} /\ jobq = <<>>)
<1>1. CASE "WAIT" \in state /\ active = {} /\ jobq = <<>>
  BY <1>1 DEF NotifyWaiter, Broadcast
<1>2. CASE ~("WAIT" \in state /\ active = {} /\ jobq = <<>>)
  BY <1>2 DEF NotifyWaiter, WaiterHasWaker
<1> QED BY <1>1, <1>2

LEMMA NotifyCancelFlag ==
    ASSUME NEW active, NotifyWaiter(active)
    PROVE  /\ "CANCEL" \in state' <=> "CANCEL" \in state
           /\ TypeOK => \A c \in Callers :
                            \/ cpc'[c] = cpc[c]
                            \/ cpc[c] = "wait_sleep" /\ cpc'[c] = "wait_test"
BY DEF NotifyWaiter, Broadcast, TypeOK

LEMMA WakeInvInit == Init => WakeInv
BY DEF Init, WakeInv, CancelInv, WaiterHasWaker, CancellerHasWaker

LEMMA WakeInvNext == ThreadInv /\ WakeInv /\ [Next]_vars => WakeInv'
<1> SUFFICES ASSUME ThreadInv, WakeInv, [Next]_vars PROVE WakeInv'
    OBVIOUS
<1> USE DEF ThreadInv, WakeInv
<1>1. ASSUME NEW c \in Callers, NEW j \in Jobs, TpQueue(c, j) PROVE WakeInv'
  <2>1. jobq' # <<>>
    BY <1>1 DEF TpQueue, TypeOK
  <2> QED
    BY <1>1, <2>1 DEF TpQueue, CancelInv, WaiterHasWaker, CancellerHasWaker, Idle, callerVars
<1>2. ASSUME NEW c \in Callers, TpWaitCall(c) PROVE WakeInv'
  BY <1>2 DEF TpWaitCall, TypeOK, CancelInv, WaiterHasWaker, CancellerHasWaker, Idle,
              poolVars, workerVars
<1>3. ASSUME NEW c \in Callers, TpWait(c) PROVE WakeInv'
  BY <1>3 DEF TpWait, Section, TypeOK, CancelInv, WaiterHasWaker, CancellerHasWaker, Idle,
              workerVars
<1>4. ASSUME NEW c \in Callers, TpCancel(c) PROVE WakeInv'
  BY <1>4 DEF TpCancel, Section, TypeOK, CancelInv, WaiterHasWaker, CancellerHasWaker
<1>5. ASSUME NEW c \in Callers, TpCancelExit(c) PROVE WakeInv'
  BY <1>5 DEF TpCancelExit, Section, TypeOK, CancelInv, WaiterHasWaker, CancellerHasWaker, Idle,
              poolVars, workerVars
<1>6. ASSUME NEW c \in Callers, TpDestroy(c) PROVE WakeInv'
  BY <1>6 DEF TpDestroy, CancelInv, WaiterHasWaker, CancellerHasWaker, Idle, poolVars, workerVars
<1>7. ASSUME NEW c \in Callers, SpuriousCaller(c) PROVE WakeInv'
  BY <1>7 DEF SpuriousCaller, TypeOK, CancelInv, WaiterHasWaker, CancellerHasWaker, Idle,
              poolVars, workerVars
<1>8. ASSUME NEW w \in Workers, CreateWorker(w) PROVE WakeInv'
  BY <1>8 DEF CreateWorker, TypeOK, CancelInv, WaiterHasWaker, CancellerHasWaker, Idle, callerVars
<1>9. ASSUME NEW w \in Workers, ThreadIdle(w) PROVE WakeInv'
  <2>1. NotifyWaiter(activeq) /\ UNCHANGED <<jobq, activeq, t_total, cancelreq, cancelling>>
    BY <1>9 DEF ThreadIdle
  <2>2. WaiterHasWaker'
    BY <2>1, NotifyWakes DEF WaiterHasWaker, Idle
  <2> QED BY <2>1, <2>2, NotifyCancelFlag DEF CancelInv, CancellerHasWaker
<1>10. ASSUME NEW w \in Workers, IdleWait(w) PROVE WakeInv'
  BY <1>10 DEF IdleWait, AfterIdle, CancelInv, WaiterHasWaker, CancellerHasWaker, Idle, callerVars
<1>11. ASSUME NEW w \in Workers, IdleBreak(w) PROVE WakeInv'
  BY <1>11 DEF IdleBreak, CancelInv, WaiterHasWaker, CancellerHasWaker, Idle, callerVars, poolVars
<1>12. ASSUME NEW w \in Workers, TakeJob(w) PROVE WakeInv'
  BY <1>12 DEF TakeJob, CancelInv, WaiterHasWaker, CancellerHasWaker, Idle, callerVars
<1>13. ASSUME NEW w \in Workers,
              Wake(w) \/ TimeoutExit(w) \/ CancelIdle(w) \/ Timeout(w) \/ SpuriousWorker(w)
       PROVE  WakeInv'
  BY <1>13 DEF Wake, TimeoutExit, CancelIdle, Timeout, SpuriousWorker, CancelInv,
               WaiterHasWaker, CancellerHasWaker, Idle, callerVars, poolVars
<1>14. ASSUME NEW w \in Workers, JobFinish(w) \/ JobCancelled(w) PROVE WakeInv'
  <2>1. NotifyWaiter(activeq \ {w}) /\ activeq' = activeq \ {w}
        /\ UNCHANGED <<jobq, t_total, cancelreq, cancelling>>
    BY <1>14 DEF JobFinish, JobCancelled, LeaveActive
  <2>2. WaiterHasWaker'
    BY <2>1, NotifyWakes DEF WaiterHasWaker, Idle
  <2> QED BY <2>1, <2>2, NotifyCancelFlag DEF CancelInv, CancellerHasWaker
<1>15. ASSUME NEW w \in Workers, WorkerCleanup(w) PROVE WakeInv'
  <2>1. CASE "CANCEL" \in state
    <3>1. \A c \in Callers :
              \/ cpc'[c] = cpc[c] /\ (cpc'[c] = "exit_sleep" => t_total' # 0)
              \/ cpc[c] = "exit_sleep" /\ cpc'[c] = "exit_test"
      <4>1. CASE t_total' = 0
        <5>1. cpc' = [c \in Callers |-> IF cpc[c] = "exit_sleep" THEN "exit_test" ELSE cpc[c]]
          BY <1>15, <2>1, <4>1 DEF WorkerCleanup, Broadcast
        <5> QED BY <5>1
      <4>2. CASE t_total' # 0
        <5>1. cpc' = cpc
          BY <1>15, <2>1, <4>2 DEF WorkerCleanup
        <5> QED BY <4>2, <5>1
      <4> QED BY <4>1, <4>2
    <3>2. UNCHANGED <<state, cancelling>>
      BY <1>15 DEF WorkerCleanup
    <3>3. CancelInv'
      BY <2>1, <3>1, <3>2 DEF CancelInv
    <3>4. WaiterHasWaker' /\ CancellerHasWaker'
      BY <2>1, <3>1, <3>2 DEF WaiterHasWaker, CancellerHasWaker
    <3> QED BY <3>3, <3>4
  <2>2. CASE "CANCEL" \notin state
    BY <1>15, <2>2 DEF WorkerCleanup, CancelInv, WaiterHasWaker, CancellerHasWaker, Idle
  <2> QED BY <2>1, <2>2
<1>16. CASE UNCHANGED vars
  BY <1>16 DEF vars, poolVars, workerVars, callerVars, CancelInv, WaiterHasWaker,
               CancellerHasWaker, Idle
<1> QED
  BY <1>1, <1>2, <1>3, <1>4, <1>5, <1>6, <1>7, <1>8, <1>9, <1>10, <1>11, <1>12, <1>13, <1>14,
     <1>15, <1>16
     DEF Next, CallerStep, WorkerStep

LEMMA WakeInvAlways == Spec => []WakeInv
BY ThreadInvAlways, WakeInvInit, WakeInvNext, PTL DEF Spec

(* tp_wait loses no wakeup: a sleeping caller always has work before it    *)
(* and the flag set that makes the end of that work wake it.               *)
THEOREM NoLostWaiter == Spec => []WaiterHasWaker
BY WakeInvAlways, PTL DEF WakeInv

(* tp_cancel loses no wakeup: while it sleeps a thread is still counted.   *)
THEOREM NoLostCanceller == Spec => []CancellerHasWaker
BY WakeInvAlways, PTL DEF WakeInv

(***************************************************************************)
(* The pool neither forgets a queued job nor mistakes itself for busy or   *)
(* idle.                                                                   *)
(***************************************************************************)

(* POOL_BUSY is never missing, and it is stale only while a thread that    *)
(* has just gone idle holds the mutex and has not cleared it yet.          *)
BusyInv ==
    "CANCEL" \notin state =>
        /\ ~Idle => "BUSY" \in state
        /\ Idle /\ "BUSY" \in state =>
              \E w \in Workers : mtx = w /\ pc[w] \in {"idle", "idle_loop"}

LEMMA BusyInvInit == Init => BusyInv
BY DEF Init, BusyInv, Idle

(* A notification does not touch POOL_BUSY.                                *)
LEMMA NotifyBusyFlag ==
    ASSUME NEW active, NotifyWaiter(active)
    PROVE  "BUSY" \in state' <=> "BUSY" \in state
BY DEF NotifyWaiter

LEMMA BusyInvNext == ThreadInv /\ WakeInv /\ BusyInv /\ [Next]_vars => BusyInv'
<1> SUFFICES ASSUME ThreadInv, WakeInv, BusyInv, [Next]_vars PROVE BusyInv'
    OBVIOUS
<1> USE DEF ThreadInv, BusyInv, Idle
<1>1. ASSUME NEW c \in Callers, NEW j \in Jobs, TpQueue(c, j) PROVE BusyInv'
  <2>1. jobq' # <<>>
    BY <1>1 DEF TpQueue, TypeOK
  <2> QED BY <1>1, <2>1 DEF TpQueue
<1>2. ASSUME NEW c \in Callers,
             TpWaitCall(c) \/ TpCancelExit(c) \/ TpDestroy(c) \/ SpuriousCaller(c)
      PROVE  BusyInv'
  BY <1>2 DEF TpWaitCall, TpCancelExit, TpDestroy, SpuriousCaller, poolVars, workerVars
<1>3. ASSUME NEW c \in Callers, TpWait(c) PROVE BusyInv'
  BY <1>3 DEF TpWait, workerVars
<1>4. ASSUME NEW c \in Callers, TpCancel(c) PROVE BusyInv'
  BY <1>4 DEF TpCancel
<1>5. ASSUME NEW w \in Workers, CreateWorker(w) \/ Wake(w) \/ TimeoutExit(w) \/ CancelIdle(w)
      PROVE  BusyInv'
  <2>1. mtx = NoThread /\ UNCHANGED <<jobq, activeq, state>>
    BY <1>5 DEF CreateWorker, Wake, TimeoutExit, CancelIdle, Lock, poolVars
  <2> QED BY <2>1, PoolAssumption DEF PoolAssumption
<1>6. ASSUME NEW w \in Workers, ThreadIdle(w) PROVE BusyInv'
  <2>1. /\ UNCHANGED <<jobq, activeq, mtx>> /\ mtx = w /\ pc'[w] = "idle_loop"
        /\ NotifyWaiter(activeq)
    BY <1>6 DEF ThreadIdle, Holds, TypeOK
  <2> QED BY <2>1, NotifyBusyFlag, NotifyCancelFlag
<1>7. ASSUME NEW w \in Workers, IdleWait(w) PROVE BusyInv'
  BY <1>7 DEF IdleWait, AfterIdle
<1>8. ASSUME NEW w \in Workers, IdleBreak(w) PROVE BusyInv'
  BY <1>8 DEF IdleBreak, poolVars
<1>9. ASSUME NEW w \in Workers, TakeJob(w) PROVE BusyInv'
  BY <1>9 DEF TakeJob
<1>10. ASSUME NEW w \in Workers, Timeout(w) \/ SpuriousWorker(w) PROVE BusyInv'
  <2>1. pc[w] \notin {"idle", "idle_loop"} /\ UNCHANGED <<poolVars, mtx>>
        /\ \A v \in Workers \ {w} : pc'[v] = pc[v]
    BY <1>10 DEF Timeout, SpuriousWorker, Sleeping, TypeOK
  <2> QED BY <2>1 DEF poolVars
<1>11. ASSUME NEW w \in Workers, JobFinish(w) PROVE BusyInv'
  <2>1. /\ NotifyWaiter(activeq \ {w}) /\ UNCHANGED jobq
        /\ mtx' = w /\ pc'[w] = "idle" /\ w \in activeq
    BY <1>11 DEF JobFinish, LeaveActive, Lock, TypeOK, QueueInv
  <2> QED BY <2>1, NotifyBusyFlag, NotifyCancelFlag
<1>12. ASSUME NEW w \in Workers, JobCancelled(w) PROVE BusyInv'
  <2>1. NotifyWaiter(activeq \ {w}) /\ "CANCEL" \in state
    BY <1>12 DEF JobCancelled, LeaveActive, WakeInv, CancelInv
  <2> QED BY <2>1, NotifyCancelFlag
<1>13. ASSUME NEW w \in Workers, WorkerCleanup(w) PROVE BusyInv'
  <2>1. mtx = w /\ pc[w] = "exit" /\ UNCHANGED <<jobq, activeq, state>>
    BY <1>13 DEF WorkerCleanup, Holds
  <2> QED BY <2>1
<1>14. CASE UNCHANGED vars
  BY <1>14 DEF vars, poolVars, workerVars
<1> QED
  BY <1>1, <1>2, <1>3, <1>4, <1>5, <1>6, <1>7, <1>8, <1>9, <1>10, <1>11, <1>12, <1>13, <1>14
  DEF Next, CallerStep, WorkerStep

(* Whenever the mutex is free, POOL_BUSY says whether there is work: what  *)
(* tp_is_busy answers is right.                                            *)
THEOREM BusyIsRight == Spec => []BusyMeansWork
<1>1. BusyInv => BusyMeansWork
  BY PoolAssumption DEF BusyInv, BusyMeansWork, PoolAssumption
<1>2. Spec => []BusyInv
  BY ThreadInvAlways, WakeInvAlways, BusyInvInit, BusyInvNext, PTL DEF Spec
<1> QED BY <1>1, <1>2, PTL

-----------------------------------------------------------------------------
(* Threads that look at the queue before they sleep or exit.               *)
Looking == {"spawned", "idle", "idle_loop", "woken", "run"}

(* A queued job has a thread that will look at the queue; or all threads   *)
(* are about to exit, none is asleep, and the last of them is replaced.    *)
QueuedInv ==
    jobq # <<>> /\ "CANCEL" \notin state =>
        \/ \E w \in Workers : pc[w] \in Looking
        \/ /\ \A w \in Workers : pc[w] \notin Sleeping
           /\ \E w \in Workers : pc[w] \in {"timedout", "exit"}

LEMMA QueuedInvInit == Init => QueuedInv
BY DEF Init, QueuedInv

(* Whichever way tp_queue goes, the queue has a thread behind it.          *)
LEMMA QueueStep ==
    ASSUME ~SpawnMayFail, Workers # {}, ThreadInv, QueuedInv,
           NEW c \in Callers, NEW j \in Jobs, TpQueue(c, j)
    PROVE  QueuedInv'
<1> USE DEF ThreadInv, QueuedInv, Looking, Sleeping
<1>1. CASE idleq # {} /\ SignalWork
  <2>1. CASE \E w \in Workers : pc[w] \in Sleeping
    BY <1>1, <2>1 DEF SignalWork, TypeOK
  <2>2. CASE \A w \in Workers : pc[w] \notin Sleeping
    <3>1. pc' = pc
      BY <1>1, <2>2 DEF SignalWork
    <3>2. PICK w \in Workers : pc[w] \in IdleAt
      BY <1>1 DEF QueueInv
    <3> QED BY <2>2, <3>1, <3>2 DEF IdleAt
  <2> QED BY <2>1, <2>2
<1>2. CASE Spawn
  BY <1>2 DEF Spawn, TypeOK
<1>3. CASE idleq = {} /\ SpawnCanFail /\ UNCHANGED pc
  <2>1. PICK w \in Workers : pc[w] # "none" /\ pc[w] \notin IdleAt
    BY <1>3 DEF SpawnCanFail, QueueInv
  <2> QED BY <1>3, <2>1 DEF TypeOK, WorkerAt, IdleAt
<1>4. CASE idleq = {} /\ t_total >= t_max /\ UNCHANGED pc
  <2>1. t_total # 0
    BY <1>4, PoolAssumption DEF PoolAssumption, t_max, T_NUM_MAX_DEFAULT, TypeOK
  <2>2. activeq # {}
    BY <1>4, <2>1, FS_EmptySet DEF TotalCountsQueues
  <2> QED BY <1>4, <2>2 DEF QueueInv
<1> QED BY <1>1, <1>2, <1>3, <1>4 DEF TpQueue

(* The last thread to exit is replaced: the others are counted.            *)
LEMMA CleanupStep ==
    ASSUME ~SpawnMayFail, ThreadInv, QueuedInv,
           NEW w \in Workers, WorkerCleanup(w)
    PROVE  QueuedInv'
<1> USE DEF ThreadInv, QueuedInv, Looking, Sleeping
<1> SUFFICES ASSUME jobq' # <<>>, "CANCEL" \notin state',
                    \A v \in Workers : pc'[v] \notin Looking
             PROVE  /\ \A v \in Workers : pc'[v] \notin Sleeping
                    /\ \E v \in Workers : pc'[v] \in {"timedout", "exit"}
  OBVIOUS
<1>1. /\ pc[w] = "exit" /\ pc \in [Workers -> WorkerAt]
      /\ jobq # <<>> /\ "CANCEL" \notin state
      /\ t_total' = t_total - 1
      /\ t_total \in Nat /\ t_max \in Nat /\ t_max > 0
  BY PoolAssumption
  DEF WorkerCleanup, Holds, TypeOK, PoolAssumption, t_max, T_NUM_MAX_DEFAULT
<1>2. pc' = [pc EXCEPT ![w] = "none"] /\ ~NeedsReplacement(t_total')
  BY <1>1 DEF WorkerCleanup, TypeOK
<1>3. \A v \in Workers : pc[v] \notin Looking \cup Sleeping
  BY <1>1, <1>2
<1>4. t_total > 1
  BY <1>1, <1>2 DEF NeedsReplacement
<1>5. PICK v \in idleq \cup activeq : v # w
  <2>1. CASE idleq \cup activeq \subseteq {w}
    <3>1. Cardinality(idleq \cup activeq) <= Cardinality({w})
      BY <2>1, FS_Singleton, FS_Subset
    <3>2. Cardinality({w}) = 1
      BY FS_Singleton
    <3>3. Cardinality(idleq \cup activeq) = t_total
      BY DEF TotalCountsQueues
    <3> QED BY <1>1, <1>4, <3>1, <3>2, <3>3
  <2> QED BY <2>1
<1>6. v \in Workers /\ pc[v] \in {"timedout", "exit"} /\ pc'[v] = pc[v]
  BY <1>1, <1>2, <1>3, <1>5 DEF QueueInv, IdleAt
<1> QED BY <1>1, <1>2, <1>3, <1>6

LEMMA QueuedInvNext ==
    ASSUME ~SpawnMayFail, Workers # {}
    PROVE  ThreadInv /\ WakeInv /\ QueuedInv /\ [Next]_vars => QueuedInv'
<1> SUFFICES ASSUME ThreadInv, WakeInv, QueuedInv, [Next]_vars PROVE QueuedInv'
    OBVIOUS
<1> USE DEF ThreadInv, QueuedInv, Looking, Sleeping
<1>1. ASSUME NEW c \in Callers, NEW j \in Jobs, TpQueue(c, j) PROVE QueuedInv'
  BY <1>1, QueueStep
<1>2. ASSUME NEW c \in Callers,
             TpWaitCall(c) \/ TpCancelExit(c) \/ TpDestroy(c) \/ SpuriousCaller(c)
      PROVE  QueuedInv'
  BY <1>2 DEF TpWaitCall, TpCancelExit, TpDestroy, SpuriousCaller, poolVars, workerVars
<1>3. ASSUME NEW c \in Callers, TpWait(c) PROVE QueuedInv'
  BY <1>3 DEF TpWait, workerVars
<1>4. ASSUME NEW c \in Callers, TpCancel(c) PROVE QueuedInv'
  BY <1>4 DEF TpCancel
<1>5. ASSUME NEW w \in Workers,
             CreateWorker(w) \/ Wake(w) \/ SpuriousWorker(w) \/ TakeJob(w)
      PROVE  QueuedInv'
  <2>1. pc'[w] \in Looking
    BY <1>5 DEF CreateWorker, Wake, SpuriousWorker, TakeJob, TypeOK
  <2> QED BY <2>1
<1>6. ASSUME NEW w \in Workers, TimeoutExit(w) \/ Timeout(w) PROVE QueuedInv'
  <2>1. /\ UNCHANGED <<jobq, state>>
        /\ pc[w] \in {"timedwait", "timedout"} /\ pc'[w] \in {"timedout", "exit"}
        /\ \A v \in Workers \ {w} : pc'[v] = pc[v]
    BY <1>6 DEF TimeoutExit, Timeout, poolVars, TypeOK
  <2> QED BY <2>1
<1>7. ASSUME NEW w \in Workers, CancelIdle(w) \/ JobCancelled(w) PROVE QueuedInv'
  <2>1. "CANCEL" \in state'
    BY <1>7, NotifyCancelFlag
    DEF CancelIdle, JobCancelled, LeaveActive, WakeInv, CancelInv, poolVars
  <2> QED BY <2>1
<1>8. ASSUME NEW w \in Workers, ThreadIdle(w) PROVE QueuedInv'
  <2>1. pc'[w] \in Looking
    BY <1>8 DEF ThreadIdle, TypeOK
  <2> QED BY <2>1
<1>9. ASSUME NEW w \in Workers, IdleWait(w) PROVE QueuedInv'
  BY <1>9 DEF IdleWait
<1>10. ASSUME NEW w \in Workers, IdleBreak(w) PROVE QueuedInv'
  BY <1>10 DEF IdleBreak, poolVars
<1>11. ASSUME NEW w \in Workers, JobFinish(w) PROVE QueuedInv'
  <2>1. pc'[w] \in Looking
    BY <1>11 DEF JobFinish, TypeOK
  <2> QED BY <2>1
<1>12. ASSUME NEW w \in Workers, WorkerCleanup(w) PROVE QueuedInv'
  BY <1>12, CleanupStep
<1>13. CASE UNCHANGED vars
  BY <1>13 DEF vars, poolVars, workerVars
<1> QED
  BY <1>1, <1>2, <1>3, <1>4, <1>5, <1>6, <1>7, <1>8, <1>9, <1>10, <1>11, <1>12, <1>13
  DEF Next, CallerStep, WorkerStep

(* As long as pthread_create does not fail, a queued job never waits for a *)
(* pool that is empty or all asleep, whatever signals are lost and however *)
(* many threads time out together.                                         *)
THEOREM QueuedJobIsServed ==
    ASSUME ~SpawnMayFail, Workers # {}
    PROVE  Spec => []QueuedJobHasWorker
<1>1. QueuedInv => QueuedJobHasWorker
  BY DEF QueuedInv, QueuedJobHasWorker, Looking, Sleeping
<1>2. ThreadInv /\ WakeInv /\ QueuedInv /\ [Next]_vars => QueuedInv'
  BY QueuedInvNext
<1>3. Spec => []QueuedInv
  BY <1>2, ThreadInvAlways, WakeInvAlways, QueuedInvInit, PTL DEF Spec
<1> QED BY <1>1, <1>3, PTL

(***************************************************************************)
(* ThreadPool implements JobPool: jobs start in the order in which they    *)
(* were queued and at most once, and tp_wait and tp_cancel return only     *)
(* when they may.                                                          *)
(***************************************************************************)

(* No job is in two places, and jobs come from tp_queue only.              *)
JobInv == JobInOnePlace /\ Queued \cup Running \cup finished \subseteq Accepted

Elems(s) == {s[i] : i \in 1..Len(s)}
Distinct(s) == \A i, k \in 1..Len(s) : s[i] = s[k] => i = k

(* Appending a new element to a sequence without repetitions.              *)
LEMMA AppendDistinct ==
    ASSUME NEW S, NEW s \in Seq(S), NEW x \in S
    PROVE  /\ Elems(Append(s, x)) = Elems(s) \cup {x}
           /\ Distinct(s) /\ x \notin Elems(s) => Distinct(Append(s, x))
<1> DEFINE t == Append(s, x)
<1>1. /\ Len(t) = Len(s) + 1 /\ Len(s) \in Nat
      /\ t[Len(s) + 1] = x
      /\ \A i \in 1..Len(s) : t[i] = s[i]
  OBVIOUS
<1> HIDE DEF t
<1>2. Elems(t) = Elems(s) \cup {x}
  <2>1. ASSUME NEW i \in 1..Len(t) PROVE t[i] \in Elems(s) \cup {x}
    <3>1. CASE i = Len(s) + 1
      BY <3>1, <1>1
    <3>2. CASE i \in 1..Len(s)
      BY <3>2, <1>1 DEF Elems
    <3> QED BY <3>1, <3>2, <1>1
  <2>2. ASSUME NEW i \in 1..Len(s) PROVE s[i] \in Elems(t)
    BY <1>1 DEF Elems
  <2>3. x \in Elems(t)
    BY <1>1 DEF Elems
  <2> QED BY <2>1, <2>2, <2>3 DEF Elems
<1>3. Distinct(s) /\ x \notin Elems(s) => Distinct(t)
  BY <1>1 DEF Distinct, Elems
<1> QED BY <1>2, <1>3 DEF t

(* Removing the first element of a sequence without repetitions.           *)
LEMMA TailDistinct ==
    ASSUME NEW S, NEW s \in Seq(S), s # <<>>, Distinct(s)
    PROVE  /\ Head(s) \in Elems(s)
           /\ Elems(Tail(s)) = Elems(s) \ {Head(s)}
           /\ Distinct(Tail(s))
<1> DEFINE t == Tail(s)
<1>1. /\ Len(s) \in Nat /\ Len(s) >= 1 /\ Len(t) = Len(s) - 1
      /\ Head(s) = s[1]
      /\ \A i \in 1..Len(t) : t[i] = s[i + 1]
  OBVIOUS
<1> HIDE DEF t
<1>2. Head(s) \in Elems(s)
  BY <1>1 DEF Elems
<1>3. ASSUME NEW i \in 1..Len(t) PROVE t[i] \in Elems(s) \ {Head(s)}
  <2>1. i + 1 \in 1..Len(s) /\ 1 \in 1..Len(s) /\ i + 1 # 1
    BY <1>1
  <2> QED BY <1>1, <2>1 DEF Elems, Distinct
<1>4. ASSUME NEW i \in 1..Len(s), s[i] # Head(s) PROVE s[i] \in Elems(t)
  <2>1. i - 1 \in 1..Len(t) /\ (i - 1) + 1 = i
    BY <1>1, <1>4
  <2>2. t[i - 1] = s[i]
    BY <1>1, <2>1
  <2> QED BY <2>1, <2>2 DEF Elems
<1>5. Elems(t) = Elems(s) \ {Head(s)}
  BY <1>3, <1>4 DEF Elems
<1>6. ASSUME NEW i \in 1..Len(t), NEW k \in 1..Len(t), t[i] = t[k] PROVE i = k
  <2>1. i + 1 \in 1..Len(s) /\ k + 1 \in 1..Len(s)
    BY <1>1
  <2>2. s[i + 1] = s[k + 1]
    BY <1>1, <1>6
  <2>3. i + 1 = k + 1
    BY <2>1, <2>2 DEF Distinct
  <2> QED BY <2>3, <1>1
<1>7. Distinct(t)
  BY <1>6 DEF Distinct
<1> QED BY <1>2, <1>5, <1>7 DEF t

-----------------------------------------------------------------------------
(* The sets the abstract specification is about, after each kind of step.  *)
LEMMA QueueSets ==
    ASSUME ThreadInv, JobInv, NEW c \in Callers, NEW j \in Jobs, TpQueue(c, j)
    PROVE  /\ Accepted' = Accepted \cup {j} /\ j \notin Accepted
           /\ Queued' = Queued \cup {j} /\ Running' = Running
           /\ Distinct(jobq')
<1>1. jobq \in Seq(Jobs) /\ jobq' = Append(jobq, j) /\ Distinct(jobq) /\ Queued = Elems(jobq)
  BY DEF ThreadInv, TypeOK, TpQueue, JobInv, JobInOnePlace, Distinct, Queued, Elems
<1>2. j \notin Accepted /\ Accepted' = Accepted \cup {j}
  BY DEF TpQueue, Accepted, ThreadInv, TypeOK
<1>3. j \notin Queued
  BY <1>2 DEF JobInv
<1>4. Queued' = Elems(jobq')
  BY DEF Queued, Elems
<1>5. Elems(jobq') = Queued \cup {j} /\ Distinct(jobq')
  BY <1>1, <1>3, AppendDistinct
<1>6. Running' = Running
  BY DEF Running, TpQueue
<1> QED BY <1>2, <1>4, <1>5, <1>6

LEMMA TakeSets ==
    ASSUME ThreadInv, JobInv, NEW w \in Workers, TakeJob(w)
    PROVE  /\ Head(jobq) \in Queued
           /\ Queued' = Queued \ {Head(jobq)} /\ Distinct(jobq')
           /\ Running' = Running \cup {Head(jobq)}
           /\ \A u, v \in activeq' : job'[u] = job'[v] => u = v
<1>1. jobq \in Seq(Jobs) /\ jobq # <<>> /\ jobq' = Tail(jobq) /\ Distinct(jobq)
      /\ Queued = Elems(jobq)
  BY DEF ThreadInv, TypeOK, TakeJob, JobInv, JobInOnePlace, Distinct, Queued, Elems
<1>2. Queued' = Elems(jobq')
  BY DEF Queued, Elems
<1>3. Head(jobq) \in Queued /\ Elems(jobq') = Queued \ {Head(jobq)} /\ Distinct(jobq')
  BY <1>1, TailDistinct
<1>4. w \notin activeq /\ activeq' = activeq \cup {w} /\ job' = [job EXCEPT ![w] = Head(jobq)]
      /\ activeq \subseteq Workers /\ job \in [Workers -> Jobs \cup {NoJob}]
  BY DEF ThreadInv, TypeOK, QueueInv, TakeJob, Holds
<1>5. Running' = Running \cup {Head(jobq)}
  BY <1>4 DEF Running
<1>6. Head(jobq) \notin Running
  BY <1>3 DEF JobInv, JobInOnePlace
<1>7. \A u, v \in activeq : job[u] = job[v] => u = v
  BY DEF JobInv, JobInOnePlace
<1>8. \A u \in activeq : job'[u] = job[u] /\ job[u] # Head(jobq)
  BY <1>4, <1>6 DEF Running
<1>9. job'[w] = Head(jobq)
  BY <1>4
<1>10. \A u, v \in activeq' : job'[u] = job'[v] => u = v
  BY <1>4, <1>7, <1>8, <1>9
<1> QED BY <1>2, <1>3, <1>5, <1>10

LEMMA LeaveSets ==
    ASSUME ThreadInv, JobInv, NEW w \in Workers, pc[w] = "run", LeaveActive(w)
    PROVE  /\ job[w] \in Running
           /\ Running' = Running \ {job[w]} /\ Queued' = Queued
           /\ \A u, v \in activeq' : job'[u] = job'[v] => u = v
<1>1. w \in activeq /\ activeq' = activeq \ {w} /\ job' = [job EXCEPT ![w] = NoJob]
      /\ activeq \subseteq Workers /\ job \in [Workers -> Jobs \cup {NoJob}]
  BY DEF ThreadInv, TypeOK, QueueInv, LeaveActive
<1>2. \A u, v \in activeq : job[u] = job[v] => u = v
  BY DEF JobInv, JobInOnePlace
<1>3. \A u \in activeq' : job'[u] = job[u] /\ job[u] # job[w]
  BY <1>1, <1>2
<1>4. Running' = Running \ {job[w]}
  BY <1>1, <1>2, <1>3 DEF Running
<1>5. Queued' = Queued
  BY DEF LeaveActive, Queued
<1> QED BY <1>1, <1>2, <1>3, <1>4, <1>5 DEF Running

-----------------------------------------------------------------------------
(* Every step either leaves the jobs where they are or is one of five.     *)
JobsStay == UNCHANGED <<jobq, job, activeq, ret, finished>>

LEMMA OtherStep ==
    ASSUME [Next]_vars
    PROVE  \/ /\ JobsStay
              /\ "CANCEL" \in state' <=> "CANCEL" \in state
           \/ \E c \in Callers, j \in Jobs : TpQueue(c, j)
           \/ \E c \in Callers : TpCancel(c)
           \/ \E w \in Workers : TakeJob(w) \/ JobFinish(w) \/ JobCancelled(w)
<1>1. ASSUME NEW c \in Callers, CallerStep(c)
      PROVE  \/ JobsStay /\ ("CANCEL" \in state' <=> "CANCEL" \in state)
             \/ \E j \in Jobs : TpQueue(c, j)
             \/ TpCancel(c)
  BY <1>1 DEF CallerStep, TpWaitCall, TpWait, TpCancelExit, TpDestroy, SpuriousCaller, JobsStay,
              poolVars, workerVars
<1>2. ASSUME NEW w \in Workers, WorkerStep(w)
      PROVE  \/ JobsStay /\ ("CANCEL" \in state' <=> "CANCEL" \in state)
             \/ TakeJob(w) \/ JobFinish(w) \/ JobCancelled(w)
  <2>1. CASE ThreadIdle(w)
    BY <2>1, NotifyCancelFlag DEF ThreadIdle, JobsStay
  <2>2. CASE IdleWait(w) \/ IdleBreak(w) \/ CreateWorker(w) \/ WorkerCleanup(w)
    BY <2>2 DEF IdleWait, AfterIdle, IdleBreak, CreateWorker, WorkerCleanup, JobsStay, poolVars
  <2>3. CASE Wake(w) \/ Timeout(w) \/ TimeoutExit(w) \/ CancelIdle(w) \/ SpuriousWorker(w)
    BY <2>3 DEF Wake, Timeout, TimeoutExit, CancelIdle, SpuriousWorker, JobsStay, poolVars
  <2> QED BY <1>2, <2>1, <2>2, <2>3 DEF WorkerStep
<1>3. CASE UNCHANGED vars
  BY <1>3 DEF vars, poolVars, workerVars, JobsStay
<1> QED BY <1>1, <1>2, <1>3 DEF Next

LEMMA JobInvInit == Init => JobInv
BY DEF Init, JobInv, JobInOnePlace, Queued, Running, Accepted

LEMMA JobInvNext == ThreadInv /\ WakeInv /\ JobInv /\ [Next]_vars => JobInv'
<1> SUFFICES ASSUME ThreadInv, WakeInv, JobInv, [Next]_vars PROVE JobInv'
    OBVIOUS
<1>1. CASE JobsStay /\ ("CANCEL" \in state' <=> "CANCEL" \in state)
  BY <1>1, SMTT(30) DEF JobsStay, JobInv, JobInOnePlace, Queued, Running, Accepted
<1>2. ASSUME NEW c \in Callers, NEW j \in Jobs, TpQueue(c, j) PROVE JobInv'
  <2>1. UNCHANGED <<activeq, job, finished>> /\ ("CANCEL" \in state' <=> "CANCEL" \in state)
    BY <1>2 DEF TpQueue
  <2>2. j \notin Queued \cup Running \cup finished
    BY <1>2, QueueSets DEF JobInv
  <2> QED
    BY <1>2, <2>1, <2>2, QueueSets DEF JobInv, JobInOnePlace, Distinct, Accepted
<1>3. ASSUME NEW c \in Callers, TpCancel(c) PROVE JobInv'
  <2>1. Queued' = {} /\ Running' = Running /\ Accepted' = Accepted /\ "CANCEL" \in state'
    BY <1>3 DEF TpCancel, Queued, Running, Accepted
  <2>2. jobq' = <<>> /\ UNCHANGED <<activeq, job, finished, ret>>
    BY <1>3 DEF TpCancel
  <2> QED BY <2>1, <2>2 DEF JobInv, JobInOnePlace
<1>4. ASSUME NEW w \in Workers, TakeJob(w) PROVE JobInv'
  <2>1. UNCHANGED <<finished, ret>> /\ ("CANCEL" \in state' <=> "CANCEL" \in state)
    BY <1>4 DEF TakeJob
  <2>2. Accepted' = Accepted
    BY <2>1 DEF Accepted
  <2> QED BY <1>4, <2>1, <2>2, TakeSets DEF JobInv, JobInOnePlace, Distinct, Accepted
<1>5. ASSUME NEW w \in Workers, JobFinish(w) \/ JobCancelled(w) PROVE JobInv'
  <2>1. LeaveActive(w) /\ pc[w] = "run"
    BY <1>5 DEF JobFinish, JobCancelled
  <2>2. UNCHANGED <<jobq, ret>> /\ ("CANCEL" \in state' <=> "CANCEL" \in state)
    BY <2>1, NotifyCancelFlag DEF LeaveActive
  <2>3. Accepted' = Accepted
    BY <2>2 DEF Accepted
  <2>4. CASE JobFinish(w)
    <3>1. finished' = finished \cup {job[w]}
      BY <2>4 DEF JobFinish
    <3> QED BY <2>1, <2>2, <2>3, <3>1, LeaveSets DEF JobInv, JobInOnePlace, Accepted
  <2>5. CASE JobCancelled(w)
    <3>1. finished' = finished /\ w \in cancelreq
      BY <2>5 DEF JobCancelled
    <3>2. "CANCEL" \in state'
      BY <2>2, <3>1 DEF WakeInv, CancelInv
    <3> QED BY <2>1, <2>2, <2>3, <3>1, <3>2, LeaveSets DEF JobInv, JobInOnePlace, Accepted
  <2> QED BY <1>5, <2>4, <2>5
<1> QED BY <1>1, <1>2, <1>3, <1>4, <1>5, OtherStep

-----------------------------------------------------------------------------
LEMMA JobInvAlways == Spec => []JobInv
BY ThreadInvAlways, WakeInvAlways, JobInvInit, JobInvNext, PTL DEF Spec

(* A job is never in two places, and in a pool that is not cancelled every *)
(* accepted job is queued, running or finished.                            *)
THEOREM JobsNeitherLostNorRepeated == Spec => []JobInOnePlace
BY JobInvAlways, PTL DEF JobInv

-----------------------------------------------------------------------------
(* Steps that JobPool does not see.                                        *)
Stutter == UNCHANGED <<Accepted, jobq, Running, finished, Waiting, Closing, Gone>>
           /\ ("CANCEL" \in state' <=> "CANCEL" \in state)

LEMMA StutterVars == Stutter => UNCHANGED JP!vars
BY DEF Stutter, JP!vars

(* Callers at most wake up, and so stay inside the functions they are in.  *)
CallersOnlyWake ==
    \A c \in Callers :
        \/ cpc'[c] = cpc[c]
        \/ cpc[c] = "wait_sleep" /\ cpc'[c] = "wait_test"
        \/ cpc[c] = "exit_sleep" /\ cpc'[c] = "exit_test"

LEMMA SameCallers ==
    ASSUME TypeOK, UNCHANGED cancelling, CallersOnlyWake
    PROVE  UNCHANGED <<Waiting, Closing, Gone>>
BY DEF TypeOK, CallersOnlyWake, Waiting, Closing, Gone

LEMMA SameJobs ==
    ASSUME JobsStay
    PROVE  UNCHANGED <<Accepted, jobq, Running, finished>>
BY DEF JobsStay, Accepted, Running

LEMMA RefineInit == Init => JP!Init
BY DEF Init, JP!Init, Running, Accepted, Waiting, Closing, Gone

LEMMA RefineWorker ==
    ASSUME ThreadInv, WakeInv, JobInv, NEW w \in Workers, WorkerStep(w)
    PROVE  [JP!Next]_JP!vars
<1> USE DEF ThreadInv
<1>1. CASE TakeJob(w)
  <2>1. /\ "CANCEL" \notin state /\ state' = state \cup {"BUSY"}
        /\ jobq # <<>> /\ jobq' = Tail(jobq)
        /\ UNCHANGED <<ret, finished, cpc, cancelling>>
    BY <1>1 DEF TakeJob, callerVars
  <2>2. UNCHANGED <<Accepted, Waiting, Closing, Gone>>
    BY <2>1 DEF Accepted, Waiting, Closing, Gone
  <2>3. Head(jobq) \notin Running \cup finished
    BY <1>1, TakeSets DEF JobInv, JobInOnePlace
  <2>4. JP!Start
    BY <1>1, <2>1, <2>2, <2>3, TakeSets DEF JP!Start
  <2> QED BY <2>4 DEF JP!Next
<1>2. CASE JobFinish(w) \/ JobCancelled(w)
  <2>1. LeaveActive(w) /\ pc[w] = "run" /\ UNCHANGED <<jobq, ret, cancelling>>
    BY <1>2 DEF JobFinish, JobCancelled, LeaveActive
  <2>2. UNCHANGED <<Waiting, Closing, Gone>> /\ ("CANCEL" \in state' <=> "CANCEL" \in state)
    BY <2>1, NotifyCancelFlag, SameCallers DEF LeaveActive, CallersOnlyWake
  <2>3. Accepted' = Accepted
    BY <2>1 DEF Accepted
  <2>4. job[w] \in Jobs
    BY <2>1 DEF QueueInv
  <2>5. CASE JobFinish(w)
    <3>1. finished' = finished \cup {job[w]}
      BY <2>5 DEF JobFinish
    <3>2. JP!Finish(job[w])
      BY <2>1, <2>2, <2>3, <3>1, LeaveSets DEF JP!Finish
    <3> QED BY <2>4, <3>2 DEF JP!Next
  <2>6. CASE JobCancelled(w)
    <3>1. finished' = finished /\ w \in cancelreq
      BY <2>6 DEF JobCancelled
    <3>2. "CANCEL" \in state
      BY <3>1 DEF WakeInv, CancelInv
    <3>3. JP!Abort(job[w])
      BY <2>1, <2>2, <2>3, <3>1, <3>2, LeaveSets DEF JP!Abort
    <3> QED BY <2>4, <3>3 DEF JP!Next
  <2> QED BY <1>2, <2>5, <2>6
<1>3. CASE ThreadIdle(w)
  <2>1. JobsStay /\ NotifyWaiter(activeq) /\ UNCHANGED cancelling
    BY <1>3 DEF ThreadIdle, JobsStay
  <2>2. Stutter
    BY <2>1, NotifyCancelFlag, SameCallers, SameJobs DEF Stutter, CallersOnlyWake
  <2> QED BY <2>2, StutterVars
<1>4. CASE WorkerCleanup(w)
  <2>1. JobsStay /\ UNCHANGED <<state, cancelling>>
    BY <1>4 DEF WorkerCleanup, JobsStay
  <2>2. cpc' = cpc \/ Broadcast("exit_sleep", "exit_test")
    BY <1>4 DEF WorkerCleanup
  <2>3. CallersOnlyWake
    BY <2>2 DEF Broadcast, CallersOnlyWake
  <2>4. Stutter
    BY <2>1, <2>3, SameCallers, SameJobs DEF Stutter
  <2> QED BY <2>4, StutterVars
<1>5. CASE CreateWorker(w) \/ IdleWait(w) \/ IdleBreak(w) \/ Wake(w) \/ Timeout(w)
           \/ TimeoutExit(w) \/ CancelIdle(w) \/ SpuriousWorker(w)
  <2>1. JobsStay /\ UNCHANGED <<cpc, cancelling>> /\ ("CANCEL" \in state' <=> "CANCEL" \in state)
    BY <1>5 DEF CreateWorker, IdleWait, AfterIdle, IdleBreak, Wake, Timeout, TimeoutExit, CancelIdle,
                SpuriousWorker, JobsStay, poolVars, callerVars
  <2>2. Stutter
    BY <2>1, SameCallers, SameJobs DEF Stutter, CallersOnlyWake
  <2> QED BY <2>2, StutterVars
<1> QED BY <1>1, <1>2, <1>3, <1>4, <1>5 DEF WorkerStep

LEMMA RefineCaller ==
    ASSUME ThreadInv, WakeInv, JobInv, NEW c \in Callers, CallerStep(c)
    PROVE  [JP!Next]_JP!vars
<1> USE DEF ThreadInv
<1>1. ASSUME NEW j \in Jobs, TpQueue(c, j) PROVE [JP!Next]_JP!vars
  <2>1. jobq' = Append(jobq, j) /\ ("CANCEL" \in state' <=> "CANCEL" \in state)
        /\ UNCHANGED <<finished, cpc, cancelling>>
    BY <1>1 DEF TpQueue, callerVars
  <2>2. UNCHANGED <<Waiting, Closing, Gone>>
    BY <2>1 DEF Waiting, Closing, Gone
  <2>3. JP!Submit(j)
    BY <1>1, <2>1, <2>2, QueueSets DEF JP!Submit
  <2> QED BY <2>3 DEF JP!Next
<1>2. CASE TpWaitCall(c)
  <2>1. /\ JobsStay /\ UNCHANGED <<state, cancelling>>
        /\ cpc[c] = "out" /\ c \notin cancelling
        /\ cpc' = [cpc EXCEPT ![c] = "wait_test"]
    BY <1>2 DEF TpWaitCall, JobsStay, poolVars, workerVars
  <2>2. /\ c \notin Waiting \cup Closing \cup Gone
        /\ Waiting' = Waiting \cup {c} /\ Closing' = Closing /\ Gone' = Gone
    BY <2>1 DEF TypeOK, Waiting, Closing, Gone
  <2>3. JP!WaitCall(c)
    BY <2>1, <2>2, SameJobs DEF JP!WaitCall
  <2> QED BY <2>3 DEF JP!Next
<1>3. CASE TpWait(c)
  <2>1. JobsStay /\ UNCHANGED cancelling /\ cpc[c] = "wait_test"
        /\ ("CANCEL" \in state' <=> "CANCEL" \in state)
    BY <1>3 DEF TpWait, Section, JobsStay, workerVars
  <2>2. CASE c \notin cancelling /\ Idle /\ cpc' = [cpc EXCEPT ![c] = "out"]
    <3>1. /\ c \in Waiting /\ Waiting' = Waiting \ {c}
          /\ Closing' = Closing /\ Gone' = Gone
      BY <2>1, <2>2 DEF TypeOK, Waiting, Closing, Gone
    <3>2. jobq = <<>> /\ Running = {}
      BY <2>2 DEF Idle, Running
    <3>3. JP!WaitReturn(c)
      BY <2>1, <3>1, <3>2, SameJobs DEF JP!WaitReturn, JP!Idle
    <3> QED BY <3>3 DEF JP!Next
  <2>3. CASE \/ cpc' = [cpc EXCEPT ![c] = "wait_sleep"]
             \/ c \in cancelling /\ cpc' = [cpc EXCEPT ![c] = "exit_test"]
    <3>1. UNCHANGED <<Waiting, Closing, Gone>>
      BY <2>1, <2>3 DEF TypeOK, Waiting, Closing, Gone
    <3>2. Stutter
      BY <2>1, <3>1, SameJobs DEF Stutter
    <3> QED BY <3>2, StutterVars
  <2> QED BY <1>3, <2>2, <2>3 DEF TpWait
<1>4. CASE TpCancel(c)
  <2>1. /\ jobq' = <<>> /\ UNCHANGED <<activeq, job, finished, ret>>
        /\ "CANCEL" \in state'
        /\ cpc[c] = "out" /\ c \notin cancelling
        /\ cpc' = [cpc EXCEPT ![c] = "wait_test"] /\ cancelling' = cancelling \cup {c}
    BY <1>4 DEF TpCancel, Section
  <2>2. /\ c \notin Waiting \cup Closing \cup Gone
        /\ Waiting' = Waiting /\ Closing' = Closing \cup {c} /\ Gone' = Gone
    BY <2>1 DEF TypeOK, Waiting, Closing, Gone
  <2>3. UNCHANGED <<Accepted, Running>>
    BY <2>1 DEF Accepted, Running
  <2>4. JP!Cancel(c)
    BY <2>1, <2>2, <2>3 DEF JP!Cancel
  <2> QED BY <2>4 DEF JP!Next
<1>5. CASE TpCancelExit(c)
  <2>1. JobsStay /\ UNCHANGED <<state, cancelling>> /\ cpc[c] = "exit_test"
    BY <1>5 DEF TpCancelExit, Section, JobsStay, poolVars, workerVars
  <2>2. c \in cancelling
    BY <2>1 DEF WakeInv, CancelInv
  <2>3. CASE t_total # 0
    <3>1. cpc' = [cpc EXCEPT ![c] = "exit_sleep"]
      BY <1>5, <2>3 DEF TpCancelExit
    <3>2. UNCHANGED <<Waiting, Closing, Gone>>
      BY <2>1, <3>1 DEF TypeOK, Waiting, Closing, Gone
    <3>3. Stutter
      BY <2>1, <3>2, SameJobs DEF Stutter
    <3> QED BY <3>3, StutterVars
  <2>4. CASE t_total = 0
    <3>1. cpc' = [cpc EXCEPT ![c] = "returned"]
      BY <1>5, <2>4 DEF TpCancelExit
    <3>2. /\ c \in Closing /\ Waiting' = Waiting
          /\ Closing' = Closing \ {c} /\ Gone' = Gone \cup {c}
      BY <2>1, <2>2, <3>1 DEF TypeOK, Waiting, Closing, Gone
    <3>3. Running = {}
      BY <2>4, QueuesFinite, FS_EmptySet DEF TotalCountsQueues, Running
    <3>4. JP!CancelReturn(c)
      BY <2>1, <3>2, <3>3, SameJobs DEF JP!CancelReturn
    <3> QED BY <3>4 DEF JP!Next
  <2> QED BY <2>3, <2>4
<1>6. CASE TpDestroy(c) \/ SpuriousCaller(c)
  <2>1. JobsStay /\ UNCHANGED <<state, cancelling>> /\ CallersOnlyWake
    BY <1>6 DEF TypeOK, CallersOnlyWake, TpDestroy, SpuriousCaller, JobsStay, poolVars, workerVars
  <2>2. Stutter
    BY <2>1, SameCallers, SameJobs DEF Stutter
  <2> QED BY <2>2, StutterVars
<1> QED BY <1>1, <1>2, <1>3, <1>4, <1>5, <1>6 DEF CallerStep

LEMMA RefineNext == ThreadInv /\ WakeInv /\ JobInv /\ [Next]_vars => [JP!Next]_JP!vars
<1> SUFFICES ASSUME ThreadInv, WakeInv, JobInv, [Next]_vars
             PROVE  [JP!Next]_JP!vars
    OBVIOUS
<1>1. CASE UNCHANGED vars
  <2>1. JobsStay /\ UNCHANGED <<state, cpc, cancelling>>
    BY <1>1 DEF vars, poolVars, workerVars, callerVars, JobsStay
  <2>2. Stutter
    BY <2>1, SameCallers, SameJobs DEF Stutter, CallersOnlyWake, ThreadInv
  <2> QED BY <2>2, StutterVars
<1> QED BY <1>1, RefineCaller, RefineWorker DEF Next

(* The thread pool implements the job pool.                                *)
THEOREM PoolImplementsJobPool == Spec => ImplementsJobPool
BY ThreadInvAlways, WakeInvAlways, JobInvAlways, RefineInit, RefineNext, PTL
   DEF Spec, ImplementsJobPool, JP!Spec
=============================================================================
