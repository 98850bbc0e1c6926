SPECIFICATION AnsweringSpec
CONSTANTS
  m1 = m1
  m2 = m2
  old = old
  Msgs = {m1, m2}
  Past = {old}
  None = None
  Intr = Intr
  MaxInterrupts = 0
  MaxSteps = 2
  MaxCalls = 2
  MaxReminders = 1
  KeepTurns = 1
  Pipelined = FALSE
  Histories <- Restored
INVARIANTS
  LLMSeesWellFormed
  ReplayAgrees
  SingleReact
PROPERTIES
  MessageAnswered ImplementsSession
CHECK_DEADLOCK FALSE
