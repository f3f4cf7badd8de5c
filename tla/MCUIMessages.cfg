SPECIFICATION Spec
CONSTANTS
  Posters = {p1, p2}
  PerPoster = 2
  None = None
INVARIANTS
  TypeOK
  HandlesAreLive
  RunsInOrder
PROPERTY PostedIsRun
CHECK_DEADLOCK FALSE
