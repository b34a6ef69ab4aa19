SPECIFICATION Spec
CONSTANTS
  Threads = {t1, t2}
  Kinds <- MCKinds
  MaxLapses = 1
  NoClient = NoClient
INVARIANTS
  TypeOK
  AlwaysAuthenticated
  ReadsHeal
  RegisteredMeansAll
PROPERTIES
  SelfHeals
