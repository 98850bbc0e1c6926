SPECIFICATION FairSpec
CONSTANTS
  s1 = s1
  b1 = b1
  Main = Main
  Subagents = {s1}
  Bashes = {b1}
  Parent <- Nested
  Faults = {}
  MaxEvents = 1
  MaxCancels = 2
  MaxDowns = 0
PROPERTIES TaskEnds ChildReleased
CHECK_DEADLOCK FALSE
