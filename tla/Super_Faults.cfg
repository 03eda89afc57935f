\* What goes wrong beside a signal: a fork that fails, an UPDATE of a pid that
\* is lost, and two limits that one child exceeds at once.
SPECIFICATION Spec
CONSTANTS
  NumWatches = 2
  FirstWatches = 1
  Signals = {"TERM", "HUP", "USR1", "USR2"}
  MaxSignals = 1
  MaxDeaths = 1
  MaxRestarts = 2
  MaxForkFailures = 1
  MaxLost = 1
  MaxForks = 6
INVARIANTS
  ReturnTellsAll
  StoppedHasEnded
CHECK_DEADLOCK FALSE
