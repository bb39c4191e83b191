\* DatasetReader with a starting delay: images flow before the IMU does
SPECIFICATION FairSpec
CONSTANTS
  Modes <- Replay
  FrameTimes <- Images5
  LastImu = 9
  Overlap = 1
  Lead = 1
  Skip <- LongSkip
  CameraCap = 2
  ImuCap = 9
  PublicationCap = 1
PROPERTIES
  Completes
