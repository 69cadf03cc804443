SPECIFICATION ASpec
CONSTANTS
  w1 = w1
  w2 = w2
  w3 = w3
  Writers <- Three
  MaxId = 5
  ReadMayFail = TRUE
  MayBeCut = TRUE
INVARIANTS
  BackLinks
  CleanTrailVerifies
PROPERTIES
  DamageIsPermanent
  AppendsWhileClean
\* The ids run out: a bound of the model.
CHECK_DEADLOCK FALSE
