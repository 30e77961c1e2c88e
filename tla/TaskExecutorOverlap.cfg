SPECIFICATION Spec
CONSTANTS
  None = None
  t1 = t1
  t2 = t2
  t3 = t3
  p1 = p1
  p2 = p2
  Procs = {p1, p2}
  Tasks = {t1, t2}
  Registered = {t1, t2}
  Freq <- MCFreq
  Modes = {"timer", "user"}
  BodyOutcomes <- TwoOutcomes
  MaxTime = 2
  MaxRuns = 3
  MaxCrashes = 1
  MaxEdits = 0
INVARIANTS NextDueWithinFrequency ScheduleBackedByWork OwnershipReturned
SYMMETRY ProcSymmetry
CHECK_DEADLOCK FALSE
