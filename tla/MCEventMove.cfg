CONSTANTS
  INFTY <- Inf
  MAXINT <- Inf
  NbEvents = 3
  Timetables <- LongTimetables
  SimTimetables <- LongSims
  StartClocks <- Restarted
  TimeSteps = {1}
  MoveAssign = TRUE
SPECIFICATION FairSpec
CHECK_DEADLOCK FALSE
INVARIANTS NothingRemovedEarly CrashNeedsErasure ScheduleIsPeriodic
PROPERTY Terminates
