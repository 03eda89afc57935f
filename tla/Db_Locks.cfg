\* Two processes and three statements in all: one process may be killed or
\* stopped for good, and a step may fail.
SPECIFICATION FairSpec
CONSTANTS
  Processes = {p1, p2}
  NoProcess = none
  FirstRows = 1
  MaxAttempts = 2
  MaxStatements = 3
  MaxFaults = 1
  MaxFrozen = 1
INVARIANTS
  CallerKnows
  NoLockIsKept
PROPERTY StatementsEnd
CHECK_DEADLOCK FALSE
