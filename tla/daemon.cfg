\* A window of one tick, both its ends included, in a clock of four, so that rows
\* enter and leave it.
SPECIFICATION FairSpec
CONSTANTS
  Window = 1
  Attempts <- CheckedAttempts
  CommitLag = 1
  MaxTime = 3
  MaxRows = 2
  MaxCrashes = 1
INVARIANTS
  TypeOK
  ViewNeverAhead
  AgeNeverOverstated
PROPERTIES
  ViewCatchesUp
  StopsCleanly
\* The process may exit.
CHECK_DEADLOCK FALSE
