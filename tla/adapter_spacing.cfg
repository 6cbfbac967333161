\* A login and the first read.
SPECIFICATION Spec
CONSTANTS
  FailMax = 2
  ResetTimeout = 3
  StaleAfter = 4
  MinInterval = 1
  Healths = {"ok"}
  AppModes = {}
PROPERTY
  CallsSpaced
