SPECIFICATION Spec
CONSTANTS
    Agents = {a1, a2}
    High = 1
    Cap = 2
    MaxRetries = 2
    Tries = 2
    MaxConns = 3
    MaxFaults = 4
    MaxInstalls = 2
INVARIANTS StreamIsOwned InstalledIsThere
PROPERTIES HeldIsReleased SessionEnds StreamGoesOn InstallEnds
CHECK_DEADLOCK FALSE
