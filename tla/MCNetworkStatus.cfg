SPECIFICATION StatusSpec
CONSTANTS
  id1 = id1
  id2 = id2
  w1 = w1
  w2 = w2
  w3 = w3
  w4 = w4
  Ids <- MCIds
  Waiters <- MCWaiters
  Null = Null
  EventTypes = 65536
SYMMETRY MCSymmetry
INVARIANTS WaitersSafe
PROPERTIES ToldTheTruth ClosedTogether
