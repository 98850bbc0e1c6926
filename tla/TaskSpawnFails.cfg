SPECIFICATION FairSpec
CONSTANTS
  s1 = s1
  b1 = b1
  Main = Main
  Subagents = {s1}
  Bashes = {b1}
  Parent <- Flat
  Faults = {"spawn"}
  MaxEvents = 1
  MaxCancels = 0
  MaxDowns = 0
PROPERTIES TaskEnds
CHECK_DEADLOCK FALSE
