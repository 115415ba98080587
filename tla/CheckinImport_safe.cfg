CONSTANTS
  p1 = p1
  p2 = p2
  p3 = p3
  Punches <- MCPunches
  DayOf <- MCDayOf
  LastDay = 3
  MaxJobs = 3
  KeyChoices = {TRUE, FALSE}
  MayFail = TRUE
  MaySkip = TRUE
  Prompt = FALSE
SPECIFICATION Spec
INVARIANTS
  ReportedRowsStored
  DuplicatesNeedARace
  LostRaceLosesNothing
CHECK_DEADLOCK FALSE
