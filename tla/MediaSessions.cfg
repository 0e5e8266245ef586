SPECIFICATION FairSpec
CONSTANTS
  Shares = {j1}
  Sids = {s1, s2}
  Posts = {p1, p2}
  MaxSockets = 2
  MaxCrashes = 1
  MaxRestarts = 1
  NoShare = NoShare
  NoSid = NoSid
INVARIANTS
  FailedOnlyIfLost
PROPERTIES
  ImplementsShareEnd SocketSurvives PaidEnds
\* shares that have ended stop
CHECK_DEADLOCK FALSE
