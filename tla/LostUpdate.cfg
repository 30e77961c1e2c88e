SPECIFICATION Spec
CONSTANTS
  None = None
  t1 = t1
  t2 = t2
  t3 = t3
  p1 = p1
  p2 = p2
  Procs = {p1, p2}
  Tasks = {t1, t2}
  Registered = {t1, t2}
  Freq <- MCFreq
  Modes = {"timer"}
  BodyOutcomes <- TwoOutcomes
  MaxTime = 1
  MaxRuns = 2
  MaxCrashes = 0
  MaxEdits = 0
INVARIANT LastAttemptOnRecord
CHECK_DEADLOCK FALSE
