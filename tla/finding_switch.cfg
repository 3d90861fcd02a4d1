CHECK_DEADLOCK FALSE
SYMMETRY Symmetric
CONSTANTS
    f1 = f1
    f2 = f2
    a1 = a1
    Fds = {f1}
    Asyncs = {}
    Handlers = {h1, h2}
    Lowest = 1
    Prio <- MCPrio
    AsyncFd <- MCAsyncFd
    IoEvents <- MCReadWrite
    AddEvents <- MCRead
    Returns <- ReturnSwitch
    AsyncReturns <- AsyncEnds
    AsyncTurns = 1
    EV_NOBLOCK = FALSE
    EV_EMPTY_NOEXIT = FALSE
    MayStop = FALSE
    MayReadd = FALSE
    NoItem = NoItem
SPECIFICATION Spec
INVARIANT WatchedMeansArmed
