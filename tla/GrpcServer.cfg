CONSTANTS
  Rpc = {r1, r2}
  MaxRuns = 3
SPECIFICATION FairSpec
INVARIANTS
  TypeOK
  QuietWhenDown
  ShutdownHasServer
PROPERTIES
  BuiltStopReturns
CHECK_DEADLOCK FALSE
