SPECIFICATION Spec
CONSTANTS
  c1 = c1
  e1 = e1
  e2 = e2
  e3 = e3
  e4 = e4
  NoTs = NoTs
  Nobody = Nobody
  Events = {e1, e2, e3, e4}
  Payload <- MCDistinctThreads
  Channels = {c1}
  CommandThreads = {NoTs}
  MaxTurns = 4
  MaxIterations = 1
  MaxParallel = 1
  MaxRetries = 1
INVARIANTS
  TypeOK
  ThreadsIsolated
  PromptsAccepted
PROPERTY
  RepliesOnce
CHECK_DEADLOCK FALSE
