SPECIFICATION ReportSpec
CONSTANTS
  Windows <- ShortAndLong
  MaxTime = 5
  MaxEntries = 3
INVARIANTS
  ExactWhenRecorded
  AgreesWithTimeline
  
\* The clock stops at MaxTime: a bound of the model.
CHECK_DEADLOCK FALSE
