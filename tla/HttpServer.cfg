CONSTANTS
  Conn = {c1, c2, c3}
  PoolSize = 2
  MaxStarts = 3
SPECIFICATION FairSpec
INVARIANTS
  TypeOK
  QuietWhenDown
PROPERTIES
  StartedStopReturns
  ConnectionEnds
CHECK_DEADLOCK FALSE
