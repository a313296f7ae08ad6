CONSTANTS
  Threads = {t1, t2}
  Functors = {f1, f2, f3}
  Channels = {c1}
  WakeupCh = wakeupCh
  MaxQuits = 1
  MaxArrivals = 1
SPECIFICATION FairSpec
INVARIANTS NoLostWakeup NoSleepAfterQuit
PROPERTIES PostedIsCalled QuitEndsLoop ImplementsFunctorQueue
CHECK_DEADLOCK FALSE
