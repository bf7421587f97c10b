SPECIFICATION Spec
CONSTANTS
  Agents = {a1}
  Reqs = {r1, r2}
  Passes = {p1, p2}
  MaxCalls = 2
  MaxRuns = 2
  MaxUpsets = 2
  MaxOverlaps = 1
  MaxEvents = 3
INVARIANT TypeOK
INVARIANT KnownMeansSeen
PROPERTY SessionCloseIsFinal
PROPERTY StatusConverges
PROPERTY SessionsConverge
