SPECIFICATION Spec
CONSTANTS
  MaxFrames = 8
  NumKeyframes = 2
  NumLoopClosureFrames = 1
  NumImuFrames = 1
  NumRealtimePoseGraphFrames = 0
  NumPoseGraphFrames = 0
  MinDeltaT = 4
  MaxConversions = 2
  Covisibilities <- MCCovisibilities
  MaxClosures = 2
  MaxBacklog = 2
  EarlyClosures = FALSE
  FramePeriod = 4
  Overlap = 2
  LastStamp = 40
  Imu <- MCImu
INVARIANTS
  PosesAgree
  LoopsStayVariable
  ChangesAnnounced
  WindowPartition
  NoAssertionFails
  ImuLinksExact
  FixedAreOldest
  TrajectoryComplete
