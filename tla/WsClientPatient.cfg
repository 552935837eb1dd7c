CONSTANTS
  NbMaxOperationPending = 1
  NbMaxClient = 0
  Wsi = {w1}
  NoWsi = NoWsi
  Key = {k1}
  NoKey = NoKey
  MaxTicket = 4
  MaxRx = 1
  UserOps <- SyncOps
  Controls = {}
  Patient = TRUE
SPECIFICATION FairSpec
INVARIANTS
  SessionNeedsContext
  NoSilentLoss
PROPERTIES
  PatientIsAnswered
CHECK_DEADLOCK FALSE
