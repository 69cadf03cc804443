SPECIFICATION Spec
CONSTANTS
  r1 = r1
  r2 = r2
  Requests <- MCRequests
  Codes = {"1", "1 ", "4"}
  PeriodOf <- MCPeriodOf
  Threshold = 3
  FailCap = 3
  MaxPeriod = 3
  DbMayFail = TRUE
SYMMETRY Symmetry
INVARIANTS
  UsedCodeStaysRefused
PROPERTIES
  LockNeedsFailures
  SerialAttemptsImplementLockout
