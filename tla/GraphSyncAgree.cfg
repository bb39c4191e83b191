\* keyframes that leave the window share a landmark with another keyframe
SPECIFICATION Spec
CONSTANTS
  Frames = {1, 2, 3}
  Keypoints <- ThreeFrames
  MaxId = 2
  MaxPoints = 2
  MaxDeferred = 2
  Covisible = TRUE
INVARIANTS
  GraphsAgree
  DifferencesRemembered
  ObservationsBacked
CHECK_DEADLOCK FALSE
