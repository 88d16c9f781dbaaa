SPECIFICATION LogFairSpec
CONSTANTS
  j1 = j1
  p1 = p1
  f1 = f1
  Main = Main
  NoJob = NoJob
  MaxThreads = 1
  MaxStartTasks = 0
  Sizes <- MCOneSize
  Jobs <- MCOneJob
  AskingJobs <- MCNone
  Waiters <- MCMain
  Controls <- AllControls
  CreateFails = FALSE
  Writers <- MCMain
  Flushers <- MCNone
  MaxLines = 2
  MaxAlone = 2
  MaySwitch = FALSE
  RollMayFail = FALSE
PROPERTIES BackgroundFlush
CHECK_DEADLOCK FALSE
