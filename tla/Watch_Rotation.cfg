\* A rotation at any moment, while the application may still write to the
\* renamed file, with a stop, a crash and an undelivered message; a read takes
\* one byte, so that every line is cut.
SPECIFICATION Spec
CONSTANTS
  Bytes = {"ordinary", "newline", "invalid"}
  Chunk = 1
  MaxLength = 2
  MaxRotations = 1
  MaxStops = 1
  MaxCrashes = 1
  MaxFailures = 1
  DbMayFail = FALSE
PROPERTIES
  RotationDrains
  KeepsPromise
