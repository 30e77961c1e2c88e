SPECIFICATION DailySpec
CONSTANTS
  None = None
  t1 = t1
  t2 = t2
  p1 = p1
  p2 = p2
  Procs = {p1, p2}
  Tasks = {t1}
  Registered = {t1}
  Timed = {t1}
  DayLength = 2
  Freq <- MCFreqDaily
  Modes = {"timer", "user"}
  BodyOutcomes <- TwoOutcomes
  MaxTime = 6
  MaxRuns = 5
  MaxCrashes = 0
  MaxEdits = 0
INVARIANTS DailyTypeOK OverdueIsRetriedDaily
SYMMETRY ProcSymmetry
CHECK_DEADLOCK FALSE
