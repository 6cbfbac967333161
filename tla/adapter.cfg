\* Two failures open the breaker; its rest is shorter than the cache's life, as
\* in adapter.py.  The gateway fails in every way, the homeowner changes the mode.
SPECIFICATION FairSpec
CONSTANTS
  FailMax = 2
  ResetTimeout = 2
  StaleAfter = 3
  MinInterval = 1
  Healths = {"ok", "offline", "rejects_login", "partial"}
  AppModes = {"savings"}
INVARIANTS
  TypeOK
  RestWhileOpen
  OpensOnlyOnOutage
  ActsOnRecentState
  AdapterInvariant
PROPERTIES
  KeepsContract
  DegradesGracefully
  NoopOnRecentMode
  Recovers
