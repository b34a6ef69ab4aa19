SPECIFICATION Spec
CONSTANTS
  r1 = r1
  r2 = r2
  r3 = r3
  Missing = Missing
  Nobody = Nobody
  Requests = {r1, r2, r3}
  Payload <- MCPayload
  Upper <- MCUpper
  Arrivals <- MCArrivals
  Settings <- MCSettings
  MaxBodyBytes = 2
  MaxTurns = 4
  MaxIterations = 1
  MaxParallel = 1
  MaxRetries = 0
INVARIANTS
  TypeOK
  PromptsAccepted
  AlertsIsolated
  OneNotice
PROPERTY
  AlertsPublished
CHECK_DEADLOCK FALSE
