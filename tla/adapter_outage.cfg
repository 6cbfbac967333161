\* The gateway is down from the start.
SPECIFICATION Spec
CONSTANTS
  FailMax = 2
  ResetTimeout = 3
  StaleAfter = 4
  MinInterval = 1
  Healths = {"offline"}
  AppModes = {}
INVARIANT
  BreakerOpensOnOutage
