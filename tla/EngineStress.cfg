SPECIFICATION Spec
CONSTANTS
  m1 = m1
  m2 = m2
  old = old
  Msgs = {m1, m2}
  Past = {old}
  None = None
  Intr = Intr
  MaxInterrupts = 1
  MaxSteps = 1
  MaxCalls = 2
  MaxReminders = 1
  KeepTurns = 1
  Pipelined = TRUE
  Histories <- Fresh
INVARIANTS
  TypeOK
  ToolBracket
  DeliveredOnce
PROPERTIES
  IdleMeansStopped
SYMMETRY Sym
CHECK_DEADLOCK FALSE
