CONSTANTS
  NbMaxOperationPending = 1
  NbMaxClient = 1
  Wsi = {w1, w2}
  NoWsi = NoWsi
  Key = {k1, k2}
  NoKey = NoKey
  MaxTicket = 2
  MaxRx = 1
  UserOps <- TransferOps
  Controls = {}
  Patient = FALSE
SPECIFICATION Spec
INVARIANTS
  TypeOK
  RegistryIsLive
  AnswerNamesItsOperation
PROPERTIES
  ImplementsService
SYMMETRY Symmetry
CHECK_DEADLOCK FALSE
