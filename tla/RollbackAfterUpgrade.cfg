SPECIFICATION Spec
CONSTANTS
  None = None
  Garbage = Garbage
  Runs = {r1}
  Threshold = 1
  Keep = 2
  Tooling = FALSE
  MaxVersion = 1
INVARIANT RollbackMeansPacmanFailed
SYMMETRY RunSymmetry
CHECK_DEADLOCK FALSE
