SPECIFICATION FairSpec
CONSTANTS
  Jobs = {1, 2}
  Concurrency = 1
  MaxRetries = 1
  Windows = 2
  Every = 2
  MaxEvents = 1
INVARIANTS
  TrailMatchesClaims RetryBudget DecidesBounded BackoffRespected NoneStranded
PROPERTIES
  JobSettles
\* every job is terminal
CHECK_DEADLOCK FALSE
