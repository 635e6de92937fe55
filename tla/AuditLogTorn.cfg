SPECIFICATION Spec
CONSTANTS
  t1 = t1
  t2 = t2
  a = a
  b = b
  Threads <- MCThreads
  Payloads <- MCPayloads
  NoThread = NoThread
  NoAppend = NoAppend
  MaxRows = 3
  MaxTorn = 1
  MaxChanges = 2
INVARIANT
  QuiescentAlarmMeansChange
