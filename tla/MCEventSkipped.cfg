CONSTANTS
  INFTY <- Inf
  MAXINT <- Inf
  NbEvents = 3
  Timetables <- ListTimetables
  SimTimetables <- ShortSims
  StartClocks <- FromZero
  TimeSteps = {1}
  MoveAssign = FALSE
SPECIFICATION Spec
CHECK_DEADLOCK FALSE
INVARIANT EveryHappeningPostExecuted
