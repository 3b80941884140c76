SPECIFICATION FairLifeSpec
CONSTANTS
  p1 = p1
  p2 = p2
  c1 = c1
  c2 = c2
  d1 = d1
  d2 = d2
  Prepares = {p1, p2}
  Calls = {c1, c2}
  Deactivates = {d1, d2}
  NoPool = NoPool
  Connections = 1
  Configs <- MCConfigs
INVARIANTS
  ServedIsCurrent
  Quiesced
PROPERTIES
  StaleCallsFail
  CallsSettle
  DeactivateEnds
CHECK_DEADLOCK FALSE
