SPECIFICATION SetupSpec
CONSTANTS
  a = a
  b = b
  Tasks <- AllTasks
  Defaults <- DefaultTasks
  MaxSetups = 3
  MaxEdits = 1
INVARIANTS SetupTypeOK ConfigComplete EnabledUnitsCanStart
PROPERTIES EditsSurviveWithoutYes EnabledUnderLoadedUnits LogsReturned
CHECK_DEADLOCK FALSE
