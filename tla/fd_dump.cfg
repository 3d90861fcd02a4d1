CONSTANTS
    Size = 3
    StreamLen = 7
    Byte = {0, 1, 2, 3, 4, 5, 6, 7}
SPECIFICATION FairSpec
INVARIANTS RangesMapped StreamKept SuccessMeansStreamed FlagsRestored
PROPERTY DumpEnds
CHECK_DEADLOCK FALSE
