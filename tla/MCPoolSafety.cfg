SPECIFICATION Spec
CONSTANTS
  j1 = j1
  j2 = j2
  c1 = c1
  MaxThreads = 2
  Sizes = {0, 1, 2}
  MaxStartTasks = 2
  Jobs <- MCTwoJobs
  AskingJobs <- MCOneJob
  Waiters <- MCOneWaiter
  Controls <- AllControls
  CreateFails = TRUE
  NoJob = NoJob
INVARIANTS OnePlace StopJoins
PROPERTIES ImplementsExecutor TrueMeansAlmostDone
CHECK_DEADLOCK FALSE
