SPECIFICATION FairSpec
CONSTANTS
  Keys = {k1, k2}
  Dests = {d1}
  Tickets = {t1, t2}
  MaxInFlight = 1
  Retention = TRUE
  Drains = {c1, c2}
  None = None
CHECK_DEADLOCK FALSE
INVARIANT EngineConsistent
PROPERTIES
  KeepsContract
  EngineProgress
