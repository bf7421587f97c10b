SPECIFICATION Spec
CONSTANTS
    a1 = a1
    a2 = a2
    h1 = h1
    h2 = h2
    Agents = {a1, a2}
    Elevated = {a2}
    Resting = {}
    NoLead = NoLead
    Lead = NoLead
    Slots = {h1, h2}
    MaxGroup = 2
    MaxHops = 1
    MaxMsgs = 4
    MaxAsks = 1
    MaxThinks = 1
    MaxEdits = 1
    MaxDowns = 1
    MaxFaults = 2
    MaxRestarts = 1
    MaxUpsets = 1
INVARIANTS
    BatchFlagIsTrue
    AskedOnce
    ChainIsTree
PROPERTIES
    TerminalIsFinal
    ImplementsThread
