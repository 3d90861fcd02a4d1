CONSTANTS
    Workers = {w1, w2}
    Callers = {c1}
    Cancellers = {c1}
    Jobs = {j1, j2, j3}
    t_num_min = 1
    t_num_max = 2
    timeout_sec = 2
    SpawnMayFail = FALSE
    Spurious = FALSE
    NoThread = NoThread
    NoJob = NoJob
SPECIFICATION FairSpec
\* A cancelled pool stops.
CHECK_DEADLOCK FALSE
PROPERTIES EveryJobRuns WaitReturns ShrinksToMin CancelReturns
