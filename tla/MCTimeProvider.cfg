SPECIFICATION ProviderFairSpec
CONSTANTS
  c1 = c1
  c2 = c2
  Nobody = Nobody
  Callers <- MCTwoCallers
  Readers <- MCOneCaller
  Users <- MCBothUsers
  MaxCreated = 3
  MaxRefresh = 4
  TimeOf <- MCTimeOf
  MaxHeld = 1
  CreateFails = TRUE
  OneAtATime = TRUE
INVARIANTS NotAliveMeansEnded OneThread CopyWhole NeverBackwards
PROPERTIES StartComesBack DestructorReturns TimeGoesOn
CHECK_DEADLOCK FALSE
