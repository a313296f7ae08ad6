SPECIFICATION FairSpec
CONSTANTS
  Conns = {c1, c2, c3}
  Fds = {d1, d2}
  MaxThreads = 2
CHECK_DEADLOCK FALSE
INVARIANTS AssertsHold PollersKnowTheLiving RoundRobin
PROPERTY ClosedIsFreed
