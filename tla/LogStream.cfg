SPECIFICATION FairSpec
CONSTANTS
  Kinds <- BothHandlers
  MaxPrinted = 3
  MaxErrors = 1
  MaxMessages = 2
  bufferMax = 1
INVARIANTS
  LogInOrder
  ButtonTellsTruth
PROPERTIES
  PauseTakesHold
  WritersMeet
  StreamEnds
\* A stream that is over stops: the model follows one stream.
CHECK_DEADLOCK FALSE
