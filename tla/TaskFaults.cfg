SPECIFICATION Spec
CONSTANTS
  s1 = s1
  b1 = b1
  Main = Main
  Subagents = {s1}
  Bashes = {b1}
  Parent <- Nested
  Faults = {"spawn", "abort"}
  MaxEvents = 1
  MaxCancels = 2
  MaxDowns = 1
INVARIANTS TypeOK ToldTheOutcome
PROPERTIES TerminalStable NoTurnCutShort ImplementsTaskLife
CHECK_DEADLOCK FALSE
