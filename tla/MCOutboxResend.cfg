CONSTANTS
  i1 = i1  i2 = i2  k1 = k1  k2 = k2  w1 = w1  w2 = w2  c1 = c1
  NoItem = NoItem  NoWorker = NoWorker
  Ids <- MCOneId
  Keys <- MCKeys
  KeyOf <- MCOneKey
  Compensable <- MCOneId
  Workers <- MCWorkers
  Callers <- MCCallers
  EntryStatus <- MCPending
  LeaseDuration = 1
  MaxRetries = 1
  Delay <- MCDelay
  BaseDelay = 1
  MaxDelay = 4
  MayPanic = FALSE
  Timely = FALSE
  MaxTime = 2
SPECIFICATION Spec
PROPERTIES NoBlindResend
CHECK_DEADLOCK FALSE
