SPECIFICATION WaitSpec
CONSTANTS
  Sends = {1, 2}
  Ticks = {t1, t2}
  Batch = 2
  MaxAttempts = 2
  Sqlite = TRUE
  DbFaults = TRUE
  MaxStops = 1
  Signups = {1, 2}
  Allocs = {a1, a2}
  AllocBatch = 2
  MaxActs = 1
INVARIANTS
  OneClaimer CopiesBounded AllocatedOnce InvitedIsQueued
PROPERTIES
  ImplementsLifecycle
\* every signup has been invited and every invite settled
CHECK_DEADLOCK FALSE
