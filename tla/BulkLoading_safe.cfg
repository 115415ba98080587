CONSTANTS
  MaxRows = 3
  MaxColumns = 2
  HighWater = 4
SPECIFICATION Spec
INVARIANTS
  LoadsExactly
PROPERTIES
  AnsweredOnce
CHECK_DEADLOCK FALSE
