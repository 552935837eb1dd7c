CONSTANTS
  Peer = {p1}
  App <- MixedClient
  BufferSize = 3
  NbMaxBufferEntry = 2
  MaxFragment = 1
  MaxMessage = 2
SPECIFICATION Spec
INVARIANTS
  HandledIsReleased
CHECK_DEADLOCK FALSE
