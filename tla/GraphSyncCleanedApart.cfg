\* an isolated keyframe leaves the window while the full graph is away
SPECIFICATION Spec
CONSTANTS
  Frames = {1, 2, 3}
  Keypoints <- ThreeFrames
  MaxId = 2
  MaxPoints = 2
  MaxDeferred = 2
  Covisible = FALSE
INVARIANT CleanedConsistently
CHECK_DEADLOCK FALSE
