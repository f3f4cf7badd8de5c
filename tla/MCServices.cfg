SPECIFICATION Spec
CONSTANTS
  ui = ui
  worker = worker
  context = context
  s1 = s1
  s2 = s2
  r1 = r1
  r2 = r2
  r3 = r3
  Threads <- MCThreads
  UI = ui
  JContexts <- MCJContexts
  Services <- MCServicesMade
  Requests <- MCRequests
  None = None
  MaxRefs = 2
INVARIANTS
  HandlesSafe
  RequestsKeepServices
PROPERTIES ServicesReclaimed
CHECK_DEADLOCK FALSE
