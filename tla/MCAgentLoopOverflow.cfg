SPECIFICATION Spec
CONSTANTS
  t1 = t1
  t2 = t2
  t3 = t3
  k1 = k1
  Nobody = Nobody
  Turns = {t1}
  Keys = {k1}
  KeyOf <- MCKeyOf
  MaxTurns = 4
  MaxIterations = 2
  MaxParallel = 2
  MaxRetries = 0
INVARIANT
  NeverOrphans
CHECK_DEADLOCK FALSE
