SPECIFICATION PolicySpec
CONSTANTS
  main = main
  worker = worker
  Main = main
  Workers <- MCWorkers
  Policies <- MCPolicies
  Calls <- MCCalls
  Malformed = Malformed
  NotBuilt = NotBuilt
  Free = Free
  NoVerdict = NoVerdict
  MaxWrites = 0
  MaxSignals = 1
  MaxCalls = 1
PROPERTY SignalIsHandled
CHECK_DEADLOCK FALSE
