SPECIFICATION ASpec
CONSTANTS
  w1 = w1
  w2 = w2
  w3 = w3
  Writers <- Three
  MaxId = 4
  ReadMayFail = FALSE
  MayBeCut = FALSE
INVARIANT UntamperedTrailVerifies
\* The ids run out: a bound of the model.
CHECK_DEADLOCK FALSE
