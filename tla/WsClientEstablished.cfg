CONSTANTS
  NbMaxOperationPending = 1
  NbMaxClient = 0
  Wsi = {w1}
  NoWsi = NoWsi
  Key = {k1}
  NoKey = NoKey
  MaxTicket = 2
  MaxRx = 1
  UserOps <- SyncOps
  Controls = {"cancel"}
  Patient = FALSE
SPECIFICATION Spec
INVARIANTS
  ClientEstablishedAssert
CHECK_DEADLOCK FALSE
