CONSTANTS
    Workers = {w1, w2, w3, w4}
    Callers = {c1, c2}
    Cancellers = {}
    Jobs = {j1, j2, j3, j4}
    t_num_min = 1
    t_num_max = 2
    timeout_sec = 2
    SpawnMayFail = FALSE
    Spurious = TRUE
    NoThread = NoThread
    NoJob = NoJob
SPECIFICATION Spec
SYMMETRY Symmetry
INVARIANTS WaiterHasWaker QueuedJobHasWorker
