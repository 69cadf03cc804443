SPECIFICATION Spec
CONSTANTS
  c1 = c1
  c2 = c2
  Calls <- MCCalls
  MaxLogins = 2
  MaxChanges = 1
  DbMayFail = TRUE
INVARIANTS
  TabSpeaksForCookie
  SignOutIsJustified
PROPERTIES
  RevokedStaysOut
  RevokedSessionEnds
  ChangeShutsOut
  CallsSettle
