SPECIFICATION Spec
CONSTANTS
  t1 = t1
  t2 = t2
  t3 = t3
  k1 = k1
  Nobody = Nobody
  Turns = {t1, t2, t3}
  Keys = {k1}
  KeyOf <- MCKeyOf
  MaxTurns = 8
  MaxIterations = 2
  MaxParallel = 2
  MaxRetries = 1
INVARIANTS
  TypeOK
  NeverOrphans
  PromptsAccepted
  AsksOwnQuestion
  UsableBetweenTurns
PROPERTIES
  AnswerRemembered
  TurnEnds
CHECK_DEADLOCK FALSE
