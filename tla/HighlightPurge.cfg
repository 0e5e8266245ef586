SPECIFICATION FairSpec
CONSTANTS
  Clips = {"c1", "c2"}
  Window <- Apart
  AutoPublish = TRUE
  Keyings <- SqliteOnly
  Reviews = {r1, r2}
  Sweeps = {s1, s2}
  MaxCrashes = 0
  Ttl = 1
  MonthLength = 9
  MaxTime = 1
PROPERTIES
  DuePurged
\* every request has been answered and nothing is left to sweep
CHECK_DEADLOCK FALSE
