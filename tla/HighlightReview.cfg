SPECIFICATION Spec
CONSTANTS
  Clips = {"c1", "c2", "c3"}
  Window <- Chained
  AutoPublish = FALSE
  Keyings <- AnyBackend
  Reviews = {r1, r2}
  Sweeps = {s1}
  MaxCrashes = 1
  Ttl = 1
  MonthLength = 1
  MaxTime = 1
SYMMETRY RequestSymmetry
INVARIANTS
  UniqueKey NoOrphanObject QuotaCoversMoments
PROPERTIES
  NoResurrection
\* every request has been answered and nothing is left to sweep
CHECK_DEADLOCK FALSE
