CONSTANTS
  INFTY <- Inf
  MAXINT <- Inf
  NbEvents = 3
  Timetables <- ListTimetables
  SimTimetables <- ShortSims
  StartClocks <- Restarted
  TimeSteps = {1, 2}
  MoveAssign = FALSE
SPECIFICATION Spec
CHECK_DEADLOCK FALSE
INVARIANTS TypeOK ListIsSuffix VisitedIsLive PostLocalClock
PROPERTY ContractSpec
