CONSTANTS
  Messages <- MCMessages
  MaxMessages = 2
  NoRequest = none
  Bodies <- MCBodies
  NoLength = NoLength
  Bytes <- MCBytes
  Zero = z
  CheapPrepend = 1
  InitialSize = 3
  ExtraSize = 12
SPECIFICATION HttpSpec
INVARIANTS ServedAsSent AnsweredUntilClose
CHECK_DEADLOCK FALSE
