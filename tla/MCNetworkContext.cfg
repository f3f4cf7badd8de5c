SPECIFICATION Spec
CONSTANTS
  Sockets <- MCSockets
  Handlers = {h1, h2, h3}
  Ids = {i1, i2}
  None = None
INVARIANTS
  MemorySafe
  MapsAgree
  KnownSocketsOpen
PROPERTIES
  OnlyOwnConnectionLost
  HandlersReclaimed
CHECK_DEADLOCK FALSE
