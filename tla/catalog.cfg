SPECIFICATION Spec
CONSTANTS
    Conns = {c1, c2}
    Slots = {r1, r2}
    Ttl = 2
    MaxCalls = 3
    MaxFaults = 1
SYMMETRY Symmetry
INVARIANTS
    KeysStayApart
    AssignedExists
CHECK_DEADLOCK FALSE
