CONSTANTS
  Workers = {w1}
  MaxRequests = 1
  MaxBody = 1
  MaxUnits = 2
SPECIFICATION Spec
INVARIANTS OnlyCurrentTimeoutCloses
CHECK_DEADLOCK FALSE
