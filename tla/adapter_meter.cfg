\* A gateway without a consumption meter or batteries.
SPECIFICATION Spec
CONSTANTS
  FailMax = 2
  ResetTimeout = 3
  StaleAfter = 4
  MinInterval = 1
  Healths = {"partial"}
  AppModes = {}
INVARIANT
  AbsentMeterDegrades
