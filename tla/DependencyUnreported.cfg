SPECIFICATION CheckSpec
CONSTANTS
  None = None
  check = check
  auto = auto
  manual = manual
  p1 = p1
  Procs = {p1}
  Tasks = {check, auto}
  Registered = {check, auto}
  Timed = {auto}
  Checker = check
  Manual = {}
  Warning = 0
  Critical = 1
  Notify = TRUE
  Level = "warning"
  ToFile = TRUE
  Retention = 1
  DayLength = 1
  Freq <- MCFreq
  Modes = {"timer", "user"}
  BodyOutcomes <- WithDependency
  MaxTime = 3
  MaxRuns = 3
  MaxCrashes = 0
  MaxEdits = 0
INVARIANTS DependencyFailureSurfaced
CHECK_DEADLOCK FALSE
