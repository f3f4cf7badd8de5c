SPECIFICATION RequestsSpec
CONSTANTS
  Urls <- MCUrls
  V4 = {"v4"}
  V6 = {"v6"}
  Ids = {i1, i2}
  MaxRequests = 2
  MaxCalls = 2
INVARIANT ConnectsAsAsked
CHECK_DEADLOCK FALSE
