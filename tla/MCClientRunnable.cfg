SPECIFICATION Spec
CONSTANTS
  Posters = {p1, p2}
  MaxPosts = 2
  BatchSize = 2
  None = None
INVARIANTS
  NoDoubleDelete
  NothingLost
PROPERTIES
  PostedIsConsumed
  ImplementsMailbox
CHECK_DEADLOCK FALSE
