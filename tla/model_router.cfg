SPECIFICATION Spec
CONSTANTS
    Slots = {r1, r2}
    Rpm = 1
    MaxCalls = 3
    MaxFaults = 2
INVARIANTS UsageIsAccounted RateIsBounded RevokedIsRefused
PROPERTY DenylistCatchesUp
CHECK_DEADLOCK FALSE
