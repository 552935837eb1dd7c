CONSTANTS
  Peer = {p1, p2}
  App <- AllOrNone
  BufferSize = 3
  NbMaxBufferEntry = 2
  MaxFragment = 2
  MaxMessage = 2
SPECIFICATION Spec
INVARIANTS
  TypeOK
  WholeUnlessDisturbed
  TakenNeedsRoomForOne
PROPERTIES
  ImplementsQueue
CHECK_DEADLOCK FALSE
