SPECIFICATION FairSpec
CONSTANTS
  None = None
  t1 = t1
  t2 = t2
  t3 = t3
  p1 = p1
  p2 = p2
  Procs = {p1}
  Tasks = {t1}
  Registered = {t1}
  Freq <- MCFreq
  Modes = {"timer"}
  BodyOutcomes <- TwoOutcomes
  MaxTime = 3
  MaxRuns = 2
  MaxCrashes = 0
  MaxEdits = 0
PROPERTY OverdueStaysOverdue
CHECK_DEADLOCK FALSE
