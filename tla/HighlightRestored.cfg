SPECIFICATION Spec
CONSTANTS
  Clips = {"c1"}
  Window <- Apart
  AutoPublish = TRUE
  Keyings <- SqliteOnly
  Reviews = {r1, r2}
  Sweeps = {s1}
  MaxCrashes = 0
  Ttl = 1
  MonthLength = 9
  MaxTime = 1
PROPERTIES
  RestoredClipSurvives
\* every request has been answered and nothing is left to sweep
CHECK_DEADLOCK FALSE
