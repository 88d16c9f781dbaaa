SPECIFICATION GuardFairSpec
CONSTANTS
  t1 = t1
  t2 = t2
  t3 = t3
  NoThread = NoThread
  Threads <- MCThree
  Classes = {TRUE, FALSE}
  MaxDepth = 2
  MaxNotify = 1
  MaxGuards = 4
  RetryHeld = FALSE
INVARIANTS NestingCounted ScopeEndsUnlocked
PROPERTIES NotifiedExactly NotifyAllWakes
