\* both modes of addMeasurement; no IMU sample is ever dropped
SPECIFICATION FairSpec
CONSTANTS
  Modes <- BothModes
  FrameTimes <- Images5
  LastImu = 9
  Overlap = 1
  Lead = 1
  Skip <- NoSkip
  CameraCap = 2
  ImuCap = 9
  PublicationCap = 1
INVARIANTS
  PopReady
  LossReported
  PropagationCovered
  EstimatorExclusive
  PublishedInOrder
  FinalNewest
  AllProcessed
PROPERTIES
  Completes
