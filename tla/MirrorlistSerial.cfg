SPECIFICATION Spec
CONSTANTS
  None = None
  Runs = {r1, r2, r3}
  Retention = 2
  MaxClock = 2
INVARIANTS TypeOK FailureLeavesListAsFound RetentionHolds
SYMMETRY RunSymmetry
CHECK_DEADLOCK FALSE
