SPECIFICATION FairSpec
CONSTANTS
  j1 = j1
  j2 = j2
  c1 = c1
  MaxThreads = 2
  Sizes = {2}
  MaxStartTasks = 0
  Jobs <- MCTwoJobs
  AskingJobs <- MCOneJob
  Waiters <- MCOneWaiter
  Controls <- MCStartInit
  CreateFails = FALSE
  NoJob = NoJob
PROPERTIES StopReturns QueuedJobIsServed WaitReturns
CHECK_DEADLOCK FALSE
