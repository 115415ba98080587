CONSTANTS
  r1 = r1
  r2 = r2
  Requests <- MCRequests
  OutputParameters = TRUE
  MaxCalls = 4
SYMMETRY MCSymmetry
SPECIFICATION Spec
INVARIANTS
  ResultsAddUp
  OutcomeIsServers
  PreparedIsLive
  ReturnStatusOwn
CHECK_DEADLOCK FALSE
