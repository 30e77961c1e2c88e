SPECIFICATION Spec
CONSTANTS
  None = None
  Runs = {r1}
  Percents <- AroundThresholds
  Loads = {4, 5}
  Cores = 2
  DiskWarning = 80
  DiskCritical = 90
  MemoryWarning = 80
  MemoryCritical = 90
  SwapWarning = 80
  CpuWarning = 90
  Unknown = Unknown
  Units = {u1, u2}
  Unreadable = Unreadable
  MaxChanges = 2
INVARIANT SkipMeansNoFailures
CHECK_DEADLOCK FALSE
