\* message.timeout.ms shorter than the flush, as in the constructor.
SPECIFICATION FairSpec
CONSTANTS
  Messages = {m1, m2, m3}
  NoMessage = none
  QueueLimit = 2
  MessageTimeout = 2
  FlushWait = 3
  OpensLog = TRUE
  WritesSucceed = TRUE
INVARIANT EveryMessageAccounted
PROPERTIES
  KeepsContract
  ProduceReturns
CHECK_DEADLOCK FALSE
