SPECIFICATION FairSpec
CONSTANTS
  MaxFrames = 4
  MaxBreaks = 2
  MaxRaw = 1
  MaxStarts = 1
  MaxCrashes = 1
INVARIANTS FramesInOrder LossesEndConnections
PROPERTIES SendingReconnects
CHECK_DEADLOCK FALSE
