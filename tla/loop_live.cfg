CHECK_DEADLOCK FALSE
CONSTANTS
    f1 = f1
    f2 = f2
    a1 = a1
    Fds = {f1}
    Asyncs = {a1}
    Handlers = {h1, h2}
    Lowest = 1
    Prio <- MCPrioLast
    AsyncFd <- MCAsyncFd
    IoEvents <- MCRead
    AddEvents <- MCRead
    Returns <- ReturnNone
    AsyncReturns <- AsyncEnds
    AsyncTurns = 1
    EV_NOBLOCK = FALSE
    EV_EMPTY_NOEXIT = TRUE
    MayStop = TRUE
    MayReadd = FALSE
    NoItem = NoItem
SPECIFICATION FairSpec
PROPERTIES StopEndsLoop EventsHandled
