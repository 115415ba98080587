CONSTANTS
  Requests = {r1, r2}
  None = None
  MaxRows = 2
  HasRequestTimeout = TRUE
  HasCancelTimeout = TRUE
  UserPauses = TRUE
  Disconnects = TRUE
  CloseInHandler = FALSE
  LateCalls = FALSE
SPECIFICATION LiveSpec
INVARIANTS
  CallbackOnce
  TimersOwned
  ResponsesMatch
PROPERTIES
  RowsOnlyWhenWanted
  KeepsContract
  RequestsComplete
  WaitsEnd
CHECK_DEADLOCK FALSE
