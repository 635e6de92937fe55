SPECIFICATION Spec
CONSTANTS
  r1 = r1
  r2 = r2
  Providers <- MCProviders
  Order <- MCOrder
  Limits <- MCLimits
  Capabilities <- MCCapabilities
  Requests <- MCRequests
  Asks <- MCAsks
  Backoff <- MCBackoff
  Minute = 2
  Day = 4
  MaxWait = 2
  MaxSleep = 1
  Start = 3
  LastArrival = 4
  MaxTime = 6
  MaxLogErrors = 1
  Tokens = {1}
PROPERTY PinIsPreference
CHECK_DEADLOCK FALSE
