CONSTANTS
    Workers = {w1, w2, w3}
    Callers = {c1, c2}
    Cancellers = {c1, c2}
    Jobs = {j1, j2, j3}
    t_num_min = 1
    t_num_max = 2
    timeout_sec = 0
    SpawnMayFail = TRUE
    Spurious = TRUE
    NoThread = NoThread
    NoJob = NoJob
SPECIFICATION Spec
SYMMETRY Symmetry
\* A cancelled pool stops.
CHECK_DEADLOCK FALSE
INVARIANTS TotalCountsQueues CancellerHasWaker
PROPERTY ImplementsJobPool
