CONSTANTS
  Threads = {t1}
  Messages = {m1, m2}
  MsgLen = 2
  SendSpace = 1
  MaxInput = 1
  MaxShutdowns = 1
SPECIFICATION Spec
INVARIANTS NoWriteAfterFin
CHECK_DEADLOCK FALSE
