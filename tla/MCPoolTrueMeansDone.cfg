SPECIFICATION Spec
CONSTANTS
  j1 = j1
  j2 = j2
  c1 = c1
  MaxThreads = 2
  Sizes = {1, 2}
  MaxStartTasks = 0
  Jobs <- MCTwoJobs
  AskingJobs <- MCNone
  Waiters <- MCOneWaiter
  Controls <- MCStartStop
  CreateFails = TRUE
  NoJob = NoJob
PROPERTIES TrueMeansDone
CHECK_DEADLOCK FALSE
