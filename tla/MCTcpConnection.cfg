CONSTANTS
  Threads = {t1, t2}
  Messages = {m1, m2}
  MsgLen = 2
  SendSpace = 1
  MaxInput = 1
  MaxShutdowns = 1
SPECIFICATION FairSpec
INVARIANTS NothingLostOrReordered WritingMeansBacklog FinAfterBacklog CallbacksPaired ChannelConsistent OtherAssertsHold
PROPERTIES ShutdownCompletes ClosedIsRemoved
CHECK_DEADLOCK FALSE
