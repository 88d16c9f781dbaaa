SPECIFICATION Spec
CONSTANTS
  t1 = t1
  t2 = t2
  o1 = o1
  o2 = o2
  s1 = s1
  Null = Null
  Nobody = Nobody
  Threads <- MCThreads
  Objects <- MCObjects
  Shared <- MCShared
  Locked = TRUE
SYMMETRY MCSymmetry
INVARIANTS NeverDangling CountExact
CHECK_DEADLOCK FALSE
