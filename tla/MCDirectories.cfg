SPECIFICATION Spec
CONSTANTS
  p1 = p1
  p2 = p2
  Creators <- MCTwoCreators
  PathsOf <- MCPaths
  Cwd <- MCCwd
  Names <- MCNames
  LogFile = "log"
  MaxDisturb = 1
INVARIANTS TrueMeansThere FalseMeansFailure MakesNoMore
CHECK_DEADLOCK FALSE
