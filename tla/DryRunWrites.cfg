SPECIFICATION SetupSpec
CONSTANTS
  a = a
  b = b
  Tasks <- AllTasks
  Defaults <- DefaultTasks
  MaxSetups = 3
  MaxEdits = 1
PROPERTY DryRunTouchesNothing
CHECK_DEADLOCK FALSE
