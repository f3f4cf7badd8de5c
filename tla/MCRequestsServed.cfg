SPECIFICATION Spec
CONSTANTS
  Posters = {p1, p2}
  MaxPosts = 2
  BatchSize = 2
  None = None
PROPERTY RequestsServed
CHECK_DEADLOCK FALSE
