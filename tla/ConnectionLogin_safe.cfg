CONSTANTS
  Configs <- MCConfigs
  MaxRetries = 3
  MaxReroutes = 2
  EarlyClose = FALSE
SPECIFICATION LiveSpec
INVARIANTS
  NoStrayTimers
  NoOrphanSocket
  ConnectOnce
  EndIsTheEnd
PROPERTIES
  ConnectReports
CHECK_DEADLOCK FALSE
