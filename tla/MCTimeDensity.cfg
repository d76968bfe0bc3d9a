\* Run leaves its loop when the timetable is finished.
SPECIFICATION Spec
CONSTANTS
  Models <- MCMonomaterial
  Projections <- MCKnownProjections
  FirstIters = {0, 5}
  MaxSteps = 3
INVARIANT OutputDensityCurrent
CHECK_DEADLOCK FALSE
