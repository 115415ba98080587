CONSTANTS
  Versions <- MCVersions
  MaxTransactions = 3
SPECIFICATION Spec
INVARIANTS
  SessionAgrees
  AllOrNothing
PROPERTIES
  ResetResets
CHECK_DEADLOCK FALSE
