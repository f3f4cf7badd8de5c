SPECIFICATION Spec
CONSTANTS
  Events = {e1, e2}
  Handlers = {h1, h2}
  None = None
  MaxDepth = 2
INVARIANTS
  RunningIsOwned
PROPERTY EveryoneHears
CHECK_DEADLOCK FALSE
SYMMETRY Symmetry
