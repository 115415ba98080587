CONSTANTS
  Retries = 3
  MaxAddresses = 3
SPECIFICATION LiveSpec
INVARIANTS
  AbortIsHeard
  NothingLeftBehind
  ReachableIsReached
PROPERTIES
  HandedOver
  Settles
CHECK_DEADLOCK FALSE
