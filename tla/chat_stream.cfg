SPECIFICATION StreamSpec
CONSTANTS
    Msgs = {m1, m2}
    Limit = 1
    HighWater = 1
    HardCap = 1
    Threshold = 2
    MaxSeq = 3
    MaxOpen = 2
    MaxPolls = 2
    MaxConns = 3
    MaxStreamFaults = 1
INVARIANT PageIsTrue
PROPERTY CatchesUp
CHECK_DEADLOCK FALSE
