SPECIFICATION Spec
CONSTANTS
  None = None
  Garbage = Garbage
  Runs = {r1, r2}
  Threshold = 1
  Keep = 2
  Tooling = FALSE
  MaxVersion = 2
INVARIANT ScriptFitsRecord
SYMMETRY RunSymmetry
CHECK_DEADLOCK FALSE
