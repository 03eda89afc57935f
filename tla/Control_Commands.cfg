\* Three commands of any kind, at any time; a process that is killed or cannot
\* fork, and a reboot.
SPECIFICATION FairSpec
CONSTANTS
  MaxCommands = 3
  MaxFailures = 1
  MaxReboots = 1
INVARIANTS
  OneService
  CommandsReachTheService
PROPERTY RestartRecovers
CHECK_DEADLOCK FALSE
