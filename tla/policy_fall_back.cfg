\* One command at a time, on the day the clocks fall back.
SPECIFICATION Spec
CONSTANTS
  MaxTime = 7
  DayLength = 6
  Offset <- FallBack
  Procs = {p1}
  MaxModeChangesPerDay = 1
  Requests <- ModeFlips
  AppModes = {}
  MaxCalls = 2
INVARIANT
  DailyLimit
CHECK_DEADLOCK FALSE
