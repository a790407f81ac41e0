SPECIFICATION FairSpec
CONSTANTS
  k1 = k1
  k2 = k2
  t1 = t1
  t2 = t2
  t3 = t3
  l1 = l1
  l2 = l2
  l3 = l3
  Keys = {k1, k2}
  Threads = {t1, t2, t3}
  Locks = {l1, l2, l3}
  NoLock = NoLock
  NoKey = NoKey
  Parties = 2
INVARIANTS
  TypeOK
  MutualExclusion
PROPERTIES
  IsMutex
  HandedOn
