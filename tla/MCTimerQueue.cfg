CONSTANTS
  Timers = {t1, t2, r1}
  Repeating = {r1}
  Addresses = {a1, a2}
  Interval = 2
  MaxDelay = 1
  MaxCancels = 1
SPECIFICATION FairSpec
INVARIANTS TimersAreOwned FirstIsArmed
PROPERTIES TimersRun ImplementsTimerService
CHECK_DEADLOCK FALSE
