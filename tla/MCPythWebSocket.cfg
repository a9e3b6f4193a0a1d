SPECIFICATION FairSpec
CONSTANTS
  Goroutines = {1, 2}
  Conns = {1, 2, 3, 4}
  MaxReconnects = 2
  None = None
INVARIANTS
  TypeOK
  ConnectionConsistent
  ConnectionHasReader
PROPERTIES
  RecoversOrGivesUp
  GoroutinesStop
CHECK_DEADLOCK FALSE
