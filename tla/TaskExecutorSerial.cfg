SPECIFICATION FairSpec
CONSTANTS
  None = None
  t1 = t1
  t2 = t2
  t3 = t3
  p1 = p1
  p2 = p2
  Procs = {p1}
  Tasks = {t1, t2, t3}
  Registered = {t1, t2}
  Freq <- MCFreq
  Modes = {"timer", "user"}
  BodyOutcomes <- SkipOutcomes
  MaxTime = 2
  MaxRuns = 3
  MaxCrashes = 1
  MaxEdits = 1
INVARIANTS TypeOK TimersWaitTheFrequency SaveHeals
PROPERTIES HistoryKept UnattendedRunsFinish
CHECK_DEADLOCK FALSE
