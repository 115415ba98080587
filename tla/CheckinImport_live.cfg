CONSTANTS
  p1 = p1
  p2 = p2
  p3 = p3
  Punches <- MCPunches
  DayOf <- MCDayOf
  LastDay = 3
  MaxJobs = 4
  KeyChoices = {FALSE}
  MayFail = FALSE
  MaySkip = FALSE
  Prompt = TRUE
SPECIFICATION LiveSpec
INVARIANTS
  ImportsItsDay
PROPERTIES
  EveryDayStored
CHECK_DEADLOCK FALSE
