SPECIFICATION Spec
CONSTANTS
  c1 = c1
  e1 = e1
  e2 = e2
  e3 = e3
  e4 = e4
  NoTs = NoTs
  Nobody = Nobody
  Events = {e1, e2}
  Payload <- MCOneThread
  Channels = {c1}
  CommandThreads = {NoTs}
  MaxTurns = 50
  MaxIterations = 1
  MaxParallel = 1
  MaxRetries = 0
INVARIANT
  FreshAfterReset
CHECK_DEADLOCK FALSE
