SPECIFICATION AccountsSpec
CONSTANTS
  Calls = {c1, c2}
  MaxRequests = 4
  MaxAttempts = 1
  MaxPending = 1
  MaxCodes = 2
  ReportLimit = 1
  MaxReports = 2
  Points = {1, 2}
  Threshold = 2
  MaxGranted = 3
SYMMETRY CallSymmetry
INVARIANTS GuessesBounded FraudCounted
PROPERTIES StaysOut
CHECK_DEADLOCK FALSE
