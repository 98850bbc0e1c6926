SPECIFICATION FairSpec
CONSTANTS
  MaxFrames = 1
  MaxBreaks = 1
  MaxRaw = 0
  MaxStarts = 0
  MaxCrashes = 0
PROPERTIES Reconnects
CHECK_DEADLOCK FALSE
