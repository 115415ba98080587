CONSTANTS
  Messages <- MCMessages
  Readings <- MCReadings
  ChunkSizes = {1, 2, 3, 5, 8, 13, 100}
SPECIFICATION Spec
INVARIANTS
  TokensAsSent
  CutRowsAreNoticed
PROPERTIES
  AlwaysDecides
CHECK_DEADLOCK FALSE
