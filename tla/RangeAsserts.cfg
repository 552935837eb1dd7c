CONSTANTS
  Transfer = {t1, t2}
  Job <- EdgeJobs
  DefaultChunk = 4
  U32 = 8
  SizeT = 64
  MaxSecond = 1
SPECIFICATION Spec
INVARIANTS
  AssertsHold
CHECK_DEADLOCK FALSE
