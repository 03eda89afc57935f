\* One file that is never rotated: every stop, crash, failed delivery and
\* lost UPDATE between two steps of the watch.
SPECIFICATION Spec
CONSTANTS
  Bytes = {"ordinary", "newline"}
  Chunk = 3
  MaxLength = 4
  MaxRotations = 0
  MaxStops = 2
  MaxCrashes = 1
  MaxFailures = 2
  DbMayFail = TRUE
INVARIANTS
  TypeOK
  SavedOffsetIsSent
  NothingSkipped
  OwedIsOnDisk
  MessagesEndLines
PROPERTY SavedIsNeverResent
