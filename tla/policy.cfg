\* Two CLI processes, a budget of one, midnight in between, every guardrail from
\* both sides, and the homeowner changing the mode as well.
SPECIFICATION Spec
CONSTANTS
  MaxTime = 2
  DayLength = 2
  Offset <- FixedOffset
  Procs = {p1, p2}
  MaxModeChangesPerDay = 1
  Requests <- GuardedRequests
  AppModes = {"self_consumption"}
  MaxCalls = 3
SYMMETRY Symmetry
INVARIANTS
  TypeOK
  BulkheadBound
  EveryChangeAccounted
  ReserveWithinBounds
  CounterLeadsLedger
  BulkheadInvariant
  AccountInvariant
PROPERTY
  HumanInTheLoop
\* The clock and the number of invocations are bounded.
CHECK_DEADLOCK FALSE
