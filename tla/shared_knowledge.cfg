SPECIFICATION Spec
CONSTANTS
    N = 2
    Limit = 1
    MaxRedirects = 1
    MaxReads = 1
    MaxFaults = 1
INVARIANTS ActiveIsWhole EmbeddedIsTrue ReadsAreTrue
PROPERTY IngestIsSettled
CHECK_DEADLOCK FALSE
