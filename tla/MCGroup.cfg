SPECIFICATION LogFairSpec
CONSTANTS
  j1 = j1
  p1 = p1
  f1 = f1
  Main = Main
  NoJob = NoJob
  MaxThreads = 1
  MaxStartTasks = 0
  Sizes <- MCOneSize
  Jobs <- MCOneJob
  AskingJobs <- MCNone
  Waiters <- MCMain
  Controls <- AllControls
  CreateFails = FALSE
  Writers <- MCMainAndWriter
  Flushers <- MCOneFlusher
  MaxLines = 2
  MaxAlone = 3
  MaySwitch = TRUE
  RollMayFail = TRUE
INVARIANTS LineInOnePlace InOrder NothingLeftBehind
PROPERTIES LoggingReturns LateDestructorEnds
CHECK_DEADLOCK FALSE
