SPECIFICATION FairSpec
CONSTANTS
  Cadence = 2
  Window = 2
  Lead = 1
  Coalesce = 1
  MaxLatency = 1
  MaxStale = 2
  PendingCap = 1
  MaxInFlight = 2
  Keep = 10
  SignalGate = TRUE
  Families = {"stageA"}
  Faults = TRUE
  MaxTs = 3
  MaxGap = 2
  Skew = 1
  MaxTriggers = 2
INVARIANTS
  DecideRateBounded OneWindowPerTrigger ContentOrder HeadIsDrained
PROPERTIES
  ImplementsFeed FinishReturns
\* a share that has ended stops
CHECK_DEADLOCK FALSE
