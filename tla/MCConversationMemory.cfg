SPECIFICATION Spec
CONSTANTS
  t1 = t1
  t2 = t2
  k1 = k1
  k2 = k2
  o1 = o1
  o2 = o2
  o3 = o3
  o4 = o4
  MaxTurns = 3
  Threads = {t1, t2}
  Keys = {k1, k2}
  Objects = {o1, o2, o3, o4}
  NoObject = NoObject
  Message <- MCMessage
  KeysOf <- MCKeysOf
  Replaceable <- MCReplaceable
  Presets <- MCPresets
SYMMETRY Symmetry
INVARIANTS
  TypeOK
  StillStored
  StillCurrent
  NoAliasing
  TrimNeverOrphans
PROPERTY
  AtomicSpec
