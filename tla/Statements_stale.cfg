CONSTANTS
  r1 = r1
  r2 = r2
  Requests <- MCRequests
  OutputParameters = FALSE
  MaxCalls = 4
SYMMETRY MCSymmetry
SPECIFICATION Spec
INVARIANTS
  SuccessIsTold
CHECK_DEADLOCK FALSE
