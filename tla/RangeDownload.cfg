CONSTANTS
  Transfer = {t1}
  Job <- TestDownload
  DefaultChunk = 4
  U32 = 8
  SizeT = 64
  MaxSecond = 1
SPECIFICATION Spec
INVARIANTS
  DownloadNotRefused
CHECK_DEADLOCK FALSE
