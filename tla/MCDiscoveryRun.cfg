SPECIFICATION DiscoveryFairSpec
CONSTANTS
  NItems = 2
  Pipelines = {p1, p2}
  PerPage = 1
  Cap = 2
  PoisonAt = 2
  Unserved = {1}
  Late = {1}
  Changed = {1}
  Retried = {1}
  MaxFaults = 2
  MaxMoves = 1
INVARIANTS OneTranslator
PROPERTIES  OutboxDrains
