SPECIFICATION Spec
CONSTANTS
  Main = Main
  t2 = t2
  t3 = t3
  Free = Free
  None = None
  Threads <- MCThreads
  MaxCreated = 3
INVARIANTS OneInstance ExitDestroysOnce
PROPERTIES ReturnsLiving
CHECK_DEADLOCK FALSE
