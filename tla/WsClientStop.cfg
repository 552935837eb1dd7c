CONSTANTS
  NbMaxOperationPending = 1
  NbMaxClient = 0
  Wsi = {w1}
  NoWsi = NoWsi
  Key = {k1}
  NoKey = NoKey
  MaxTicket = 2
  MaxRx = 1
  UserOps <- TransferOps
  Controls = {"cancel", "clear", "reset"}
  Patient = FALSE
SPECIFICATION FairSpec
INVARIANTS
  SessionNeedsContext
  CancelledStaysDead
  AtMostOneAnswer
  AnswerNamesItsOperation
PROPERTIES
  StopReturns
  FlightEnds
  CancelIsTaken
  ImplementsService
CHECK_DEADLOCK FALSE
