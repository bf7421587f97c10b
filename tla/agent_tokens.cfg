SPECIFICATION TokenSpec
CONSTANTS
    Slots = {s1, s2}
    MaxTokens = 3
    MaxFailures = 2
INVARIANT RowKeepsTrack
PROPERTY RouterTokenIsRenewed
CHECK_DEADLOCK FALSE
