SPECIFICATION FairSpec
CONSTANTS
  t1 = t1
  t2 = t2
  t3 = t3
  a = a
  b = b
  Threads <- MCThreads
  Items <- MCTwoItems
  MaxBatch = 2
  Ops <- AllOps
  SpuriousWakeups = TRUE
INVARIANTS SizeMatches NoStrandedItem NothingLost BackOrder
PROPERTIES KeepsContract
CHECK_DEADLOCK FALSE
