SPECIFICATION Spec
CONSTANTS
  Frames = {1, 2, 3, 4, 5}
  Keypoints <- Stereo
  CameraOf <- ThreeCameras
  StereoPairs <- AllPairs
  StartFrames = 4
  MaxId = 2
  MaxPoints = 1
INVARIANTS
  NoAssertionFails
  SlotsFollowGraph
  RememberedFramesKept
CHECK_DEADLOCK FALSE
