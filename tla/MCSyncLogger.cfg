SPECIFICATION LogSpec
CONSTANTS
  MaxSize = 2
  MaxNums <- MCTwoOrThree
  MaxBatches = 6
  MaxCrashes = 2
  NoFile = NoFile
  FirstLen = 1
  MaxLen = 3
  Lengths <- MCLengths
  MaxLines = 4
INVARIANTS AgesSorted LosesOldestFirst LinesWhole
PROPERTIES KeepsText
CHECK_DEADLOCK FALSE
