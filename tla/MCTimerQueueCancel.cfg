CONSTANTS
  Timers = {t1, r1}
  Repeating = {r1}
  Addresses = {a1, a2}
  Interval = 1
  MaxDelay = 1
  MaxCancels = 1
SPECIFICATION Spec
PROPERTIES CancelStops
CHECK_DEADLOCK FALSE
