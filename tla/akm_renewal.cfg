SPECIFICATION TokenSpec
CONSTANTS
    Slots = {s1}
    MaxTokens = 2
    MaxFailures = 0
PROPERTY AkmTokenIsRenewed
CHECK_DEADLOCK FALSE
