SPECIFICATION Spec
CONSTANTS
  gateway = gateway
  tool = tool
  alice = alice
  bob = bob
  code1 = code1
  code2 = code2
  Processes <- MCProcesses
  Senders <- MCSenders
  Codes <- MCCodes
  NoIssue = NoIssue
  NoPairing = NoPairing
  Ttl = 1
  MaxTime = 3
  MaxIssues = 2
  MaxCuts = 1
  MaxOutOfBand = 1
SYMMETRY Alike
INVARIANTS
  PairedByIntent
  CodesAreSpent
PROPERTIES
  OnlySpentCodesGo
CHECK_DEADLOCK FALSE
