SPECIFICATION PolicySpec
CONSTANTS
  main = main
  worker = worker
  Main = main
  Workers <- MCWorkers
  Policies <- MCPolicies
  Calls <- MCCalls
  Malformed = Malformed
  NotBuilt = NotBuilt
  Free = Free
  NoVerdict = NoVerdict
  MaxWrites = 1
  MaxSignals = 2
  MaxCalls = 2
INVARIANTS
  VerdictsHold
  ReloadTakesEffect
PROPERTIES
  EndsUnlessMainStuck
CHECK_DEADLOCK FALSE
