\* Four bytes on two streams, in pipes of two, reads of two, and a program
\* that is stopped once.
SPECIFICATION FairSpec
CONSTANTS
  Bytes = {"ordinary", "newline", "invalid"}
  IoBuffer = 2
  PipeSize = 2
  MaxOutput = 4
  MaxStops = 1
INVARIANTS
  NothingSkipped
  MessagesAreLines
  LeavesAfterTheEnd
PROPERTIES
  AdoptEnds
  OutputIsRead
CHECK_DEADLOCK FALSE
