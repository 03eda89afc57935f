\* A stop, a crash, a rotation and an undelivered message, each at any
\* moment; what the file can hold fits into one read.
SPECIFICATION FairSpec
CONSTANTS
  Bytes = {"ordinary", "newline"}
  Chunk = 2
  MaxLength = 2
  MaxRotations = 1
  MaxStops = 1
  MaxCrashes = 1
  MaxFailures = 1
  DbMayFail = FALSE
PROPERTIES
  StopCompletes
  BacklogIsRead
  RotationIsFollowed
  CompleteLinesAreSent
