CONSTANTS
  Transfer = {t1, t2}
  Job <- EdgeJobs
  DefaultChunk = 4
  U32 = 8
  SizeT = 64
  MaxSecond = 2
SPECIFICATION FairSpec
INVARIANTS
  TypeOK
  UploadLockstep
  FinishedSessionReleased
  OnlySharedIdsAbort
PROPERTIES
  ImplementsCopy
  TransferEnds
CHECK_DEADLOCK FALSE
