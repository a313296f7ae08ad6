CONSTANTS
  Threads = {owner}
  Functors = {f1, f2}
  Channels = {c1}
  WakeupCh = wakeupCh
  MaxQuits = 2
  MaxArrivals = 1
SPECIFICATION ThreadFairSpec
INVARIANTS StartedIsReady
PROPERTIES StopsALoop
CHECK_DEADLOCK FALSE
