SPECIFICATION WaitFairSpec
CONSTANTS
  Sends = {1, 2, 3}
  Ticks = {t1}
  Batch = 2
  MaxAttempts = 2
  Sqlite = FALSE
  DbFaults = FALSE
  MaxStops = 0
  Signups = {1, 2}
  Allocs = {a1}
  AllocBatch = 2
  MaxActs = 1
PROPERTIES
  WaitlistedIsInvited
\* every signup has been invited and every invite settled
CHECK_DEADLOCK FALSE
