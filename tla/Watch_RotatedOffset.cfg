\* A rotation, and a new file that grows past the offset of the old one.
SPECIFICATION Spec
CONSTANTS
  Bytes = {"ordinary", "newline"}
  Chunk = 3
  MaxLength = 2
  MaxRotations = 1
  MaxStops = 0
  MaxCrashes = 0
  MaxFailures = 0
  DbMayFail = FALSE
INVARIANT NewFileReadFromStart
