\* One target with every combination of parts, and lists of up to three.
SPECIFICATION Spec
CONSTANTS
  Words = {"p", "q"}
  MaxWords = 2
  MaxTargets = 3
  MaxFull = 1
INVARIANT ConnectsToTheTargets
CHECK_DEADLOCK FALSE
