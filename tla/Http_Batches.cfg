\* Two targets, batches of two, two threads; the fourth message does not parse.
SPECIFICATION FairSpec
CONSTANTS
  NumTargets = 2
  MaxMessages = 6
  BatchSize = 2
  Unparsable = {4}
  Threads = {t1, t2}
INVARIANTS
  BelowBatchSize
  SentOnce
  ClosedIsDrained
PROPERTY EveryMessageIsPosted
CHECK_DEADLOCK FALSE
