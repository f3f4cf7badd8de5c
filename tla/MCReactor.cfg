SPECIFICATION Spec
CONSTANTS
  Sockets <- MCSockets
  Handlers = {h1, h2, h3}
  None = None
  GarbageRunning <- MCFalse
  DeferredAdds = FALSE
INVARIANTS
  TypeOK
  MemorySafe
  NoLeak
  HandlerOutlivesCall
  IdleInSync
PROPERTIES
  Settles
  ImplementsRegistry
