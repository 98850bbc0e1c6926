SPECIFICATION FairSpec
CONSTANTS
  c1 = c1
  c2 = c2
  c3 = c3
  s1 = s1
  s2 = s2
  k1 = k1
  k2 = k2
  Conns = {c1, c2, c3}
  Sources = {s1, s2}
  Sessions = {k1, k2}
  Source <- SourceOf
  Home <- HomeOf
  Subscribers = {c1}
  Msgs = {m1}
  Notices = {n1}
  Topic <- TopicOf
  MaxClients = 1
  MaxSweeps = 1
  Stops = TRUE
  None = None
INVARIANTS ServedIsRegistered NoLeak
PROPERTIES AnswerReaches DeadIsForgotten
CHECK_DEADLOCK FALSE
