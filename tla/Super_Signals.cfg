\* Two signals of any kind at any moment, a watch that is added, a child that
\* ends on its own and one that exceeds a limit.
SPECIFICATION FairSpec
CONSTANTS
  NumWatches = 2
  FirstWatches = 1
  Signals = {"TERM", "HUP", "USR1", "USR2"}
  MaxSignals = 2
  MaxDeaths = 1
  MaxRestarts = 1
  MaxForkFailures = 0
  MaxLost = 0
  MaxForks = 6
INVARIANT KnownOrTold
PROPERTIES
  EndedIsReplaced
  StopReturns
  
CHECK_DEADLOCK FALSE
