\* the realtime optimisation of a frame outlasts the launch of the full-graph thread
SPECIFICATION FairSpec
CONSTANTS
  Landmarks = {l1}
  MaxFrames = 6
  MaxWrites = 2
  NumImuFrames = 2
  PromptLaunch = TRUE
INVARIANTS
  StatesAccounted
  NothingForgotten
  PendingAnnounced
  FullGraphExclusive
  NoAssertionFails
  FinalMapComplete
PROPERTIES
  LoopClosureImported
