CONSTANTS
  NbMaxOperationPending = 1
  NbMaxClient = 2
  Wsi = {w1, w2}
  NoWsi = NoWsi
  Key = {k1, k2}
  NoKey = NoKey
  MaxTicket = 1
  MaxRx = 1
  UserOps <- TransferOps
  Controls = {}
  Patient = FALSE
SPECIFICATION Spec
INVARIANTS
  ClientHasItsName
CHECK_DEADLOCK FALSE
