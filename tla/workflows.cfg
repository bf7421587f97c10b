SPECIFICATION Spec
CONSTANTS
    Flows = {w1}
    Insts = {i1, i2}
    Web = {i2}
    Conns = {c1, c2}
    Crons = {1, 2}
    MaxTime = 1
    MaxCalls = 2
    MaxFaults = 1
    MaxHolds = 2
INVARIANTS FiredOnce UnfinishedIsAttended
PROPERTY DueIsServed
CHECK_DEADLOCK FALSE
