CONSTANTS
  Workers = {w1, w2}
  MaxRequests = 2
  MaxBody = 2
  MaxUnits = 4
SPECIFICATION FairSpec
INVARIANTS OneOperation RequestsAreCut AnsweredInOrder NoUntimedWait NotForgotten
PROPERTIES EventuallyFreed
CHECK_DEADLOCK FALSE
