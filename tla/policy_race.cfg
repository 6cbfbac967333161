\* Two set-mode commands at the same moment of the same day.
SPECIFICATION Spec
CONSTANTS
  MaxTime = 0
  DayLength = 2
  Offset <- FixedOffset
  Procs = {p1, p2}
  MaxModeChangesPerDay = 1
  Requests <- ModeFlips
  AppModes = {}
  MaxCalls = 2
INVARIANT
  DailyLimit
CHECK_DEADLOCK FALSE
