SPECIFICATION Spec
CONSTANTS
  Works = {w1, w2}
  MaxIter = 1
  Grace = 1
  MaxTyped = 2
  MaxViews = 1
  MaxFaults = 2
INVARIANTS EndIsTold CommandIsSettled
PROPERTY WorkEnds
CHECK_DEADLOCK FALSE
