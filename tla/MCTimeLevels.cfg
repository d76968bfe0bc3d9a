\* Run leaves its loop when the timetable is finished.
SPECIFICATION Spec
CONSTANTS
  Models <- MCModels
  Projections <- MCProjections
  FirstIters = {0, 5}
  MaxSteps = 7
INVARIANTS TypeOK NoAlias StateIsCurrent TimeStepPressure SlotSchedule
CHECK_DEADLOCK FALSE
