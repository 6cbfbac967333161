\* Two callers, three commands among them, and a clock that moves once.
SPECIFICATION FairSpec
CONSTANTS
  Procs = {p1, p2}
  Commands = {"set_reserve", "status", "ledger", "plan"}
  Results = {"success", "error"}
  Limits <- EdgeLimits
  Contexts <- EdgeContexts
  MaxTime = 1
  MaxCommands = 3
INVARIANTS
  TypeOK
  NotedRowsStand
  CliInvariant
  OneWritePerIntent
  NewestFirst
  PlanFollowsRules
PROPERTIES
  TrailOnlyGrows
  CommandsEnd
\* The number of commands is bounded.
CHECK_DEADLOCK FALSE
