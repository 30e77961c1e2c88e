SPECIFICATION CheckSpec
CONSTANTS
  None = None
  check = check
  auto = auto
  manual = manual
  p1 = p1
  Procs = {p1}
  Tasks = {check, auto, manual}
  Registered = {check, auto, manual}
  Timed = {auto}
  Checker = check
  Manual = {manual}
  Warning = 0
  Critical = 1
  Notify = TRUE
  Level = "warning"
  ToFile = TRUE
  Retention = 1
  DayLength = 1
  Freq <- MCFreq
  Modes = {"timer", "user"}
  BodyOutcomes <- TwoOutcomes
  MaxTime = 3
  MaxRuns = 5
  MaxCrashes = 0
  MaxEdits = 0
INVARIANTS CheckTypeOK NeglectReported NeglectAnnounced AlarmsAreTrue StatusAgreesWithCheck
CHECK_DEADLOCK FALSE
