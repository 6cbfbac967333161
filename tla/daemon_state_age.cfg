\* One process, no writes: a read that succeeds, then reads that raise.
SPECIFICATION Spec
CONSTANTS
  Window = 1
  Attempts = {}
  CommitLag = 0
  MaxTime = 2
  MaxRows = 0
  MaxCrashes = 0
PROPERTY
  StateAgeHonest
CHECK_DEADLOCK FALSE
