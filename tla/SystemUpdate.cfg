SPECIFICATION Spec
CONSTANTS
  None = None
  Garbage = Garbage
  Runs = {r1, r2}
  Threshold = 1
  Keep = 1
  Tooling = TRUE
  MaxVersion = 2
INVARIANTS TypeOK AbortedTransactionUndone DowngradePathKept RecordHangsTogether
SYMMETRY RunSymmetry
CHECK_DEADLOCK FALSE
