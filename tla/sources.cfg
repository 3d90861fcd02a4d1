CONSTANTS
    Regs = {r1, r2, r3}
    Mute = {r3}
    Threads = {t1, t2}
    Adders = 1
    PipeSize = 2
    NULL = NULL
    Timers <- MCTimers
    Delay <- MCDelay
    IsInterval <- MCIsInterval
    HasCallback <- MCHasCallback
    Limit = 4
    Size = 3
    StreamLen = 7
    Byte = {0, 1, 2, 3, 4, 5, 6, 7}
    IO_BUF_SIZE = 3
    FileLen = 6
    Newlines = {2, 3, 6}
    MaxCount = 4
SPECIFICATION MCSpec
INVARIANTS WatchedMeansCaught SignalsNotLost TimerNotEarly FileKept BytesKept ReadFull
PROPERTIES SignalCalled TimerCalled FileReadEnds
CHECK_DEADLOCK FALSE
