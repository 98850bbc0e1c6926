SPECIFICATION Spec
CONSTANTS
  m1 = m1
  m2 = m2
  old = old
  Msgs = {m1, m2}
  Past = {old}
  None = None
  Intr = Intr
  MaxInterrupts = 1
  MaxSteps = 1
  MaxCalls = 1
  MaxReminders = 1
  KeepTurns = 1
  Pipelined = FALSE
  Histories <- Fresh
INVARIANT
  LoserKeepsItsData
CHECK_DEADLOCK FALSE
