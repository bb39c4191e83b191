SPECIFICATION ReaderSpec
CONSTANTS
  NumCameras = 3
  SyncCameras <- MCSyncCameras
  Depths <- MCDepths
  Tolerance = 1
  Ahead = 1
  LastImage = 5
  LastImu = 7
INVARIANTS
  Synchronised
