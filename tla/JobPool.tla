------------------------------- MODULE JobPool -------------------------------
(***************************************************************************)
(* What the thread pool of src/system/nx/thread_pool.h promises its        *)
(* callers, with no threads, mutex or condition variables: jobs are        *)
(* started in the order in which they were queued, each at most once;      *)
(* tp_wait returns only when nothing is queued and nothing runs; after     *)
(* tp_cancel nothing new starts, and tp_cancel returns only when nothing   *)
(* runs.  ThreadPool.tla is shown to implement this specification.         *)
(***************************************************************************)
EXTENDS Sequences, FiniteSets

CONSTANTS Jobs,     \* the jobs that callers may queue
          Callers   \* the threads that call the pool's functions

VARIABLES accepted,   \* jobs ever put into the queue
          queue,      \* jobs waiting, in the order they were queued
          running,    \* jobs whose callback is running
          finished,   \* jobs whose callback has returned
          closed,     \* TRUE once some caller is inside or past tp_cancel
          waiting,    \* callers inside tp_wait
          closing,    \* callers inside tp_cancel
          gone        \* callers whose tp_cancel has returned

vars == <<accepted, queue, running, finished, closed, waiting, closing, gone>>

Idle == queue = <<>> /\ running = {}

Init ==
    /\ accepted = {} /\ queue = <<>> /\ running = {} /\ finished = {}
    /\ closed = FALSE
    /\ waiting = {} /\ closing = {} /\ gone = {}

Submit(j) ==
    /\ j \notin accepted
    /\ accepted' = accepted \cup {j}
    /\ queue' = Append(queue, j)
    /\ UNCHANGED <<running, finished, closed, waiting, closing, gone>>

Start ==
    /\ ~closed
    /\ queue # <<>>
    /\ Head(queue) \notin running \cup finished
    /\ running' = running \cup {Head(queue)}
    /\ queue' = Tail(queue)
    /\ UNCHANGED <<accepted, finished, closed, waiting, closing, gone>>

Finish(j) ==
    /\ j \in running
    /\ running' = running \ {j}
    /\ finished' = finished \cup {j}
    /\ UNCHANGED <<accepted, queue, closed, waiting, closing, gone>>

(* Only a cancelled pool interrupts a job.                                 *)
Abort(j) ==
    /\ closed
    /\ j \in running
    /\ running' = running \ {j}
    /\ UNCHANGED <<accepted, queue, finished, closed, waiting, closing, gone>>

WaitCall(c) ==
    /\ c \notin waiting \cup closing \cup gone
    /\ waiting' = waiting \cup {c}
    /\ UNCHANGED <<accepted, queue, running, finished, closed, closing, gone>>

WaitReturn(c) ==
    /\ c \in waiting
    /\ Idle
    /\ waiting' = waiting \ {c}
    /\ UNCHANGED <<accepted, queue, running, finished, closed, closing, gone>>

Cancel(c) ==
    /\ c \notin waiting \cup closing \cup gone
    /\ closed' = TRUE
    /\ queue' = <<>>
    /\ closing' = closing \cup {c}
    /\ UNCHANGED <<accepted, running, finished, waiting, gone>>

CancelReturn(c) ==
    /\ c \in closing
    /\ running = {}
    /\ closing' = closing \ {c}
    /\ gone' = gone \cup {c}
    /\ UNCHANGED <<accepted, queue, running, finished, closed, waiting>>

Next ==
    \/ Start
    \/ \E j \in Jobs : Submit(j) \/ Finish(j) \/ Abort(j)
    \/ \E c \in Callers : WaitCall(c) \/ WaitReturn(c) \/ Cancel(c) \/ CancelReturn(c)

Spec == Init /\ [][Next]_vars
=============================================================================
