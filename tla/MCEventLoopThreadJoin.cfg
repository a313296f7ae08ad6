CONSTANTS
  Threads = {owner}
  Functors = {f1, f2}
  Channels = {c1}
  WakeupCh = wakeupCh
  MaxQuits = 2
  MaxArrivals = 1
SPECIFICATION ThreadFairSpec
PROPERTIES DestructorReturns
CHECK_DEADLOCK FALSE
