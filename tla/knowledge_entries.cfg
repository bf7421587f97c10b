SPECIFICATION EntriesSpec
CONSTANTS
    Writers = {w1, w2}
    MaxAttempts = 1
    MaxWrites = 3
    MaxFailures = 2
INVARIANT MirrorIsTrue
PROPERTY PendingIsResolved
CHECK_DEADLOCK FALSE
