SPECIFICATION FairSpec
CONSTANTS
  MaxStates = 4
  Period = 1
  LastStamp = 6
  Forget = 2
  QueueSize = 3
  Segment = 2
  Overlap = 2
  MaxMissed = 1
INVARIANTS
  PathCurrent
  PredictionExact
PROPERTIES
  CallbackReturns
CHECK_DEADLOCK FALSE
