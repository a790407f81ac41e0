SPECIFICATION Spec
CONSTANTS
  s1 = s1
  s2 = s2
  t1 = t1
  t2 = t2
  t3 = t3
  m1 = m1
  m2 = m2
  Spaces = {s1}
  Threads = {t1, t2}
  Memories = {m1}
  NoSpace = NoSpace
  NoMemory = NoMemory
INVARIANTS
  NoOrphanMemory
