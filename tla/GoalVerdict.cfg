SPECIFICATION Spec
CONSTANTS
  Content = 5
  Closes = {1, 2, 3, 5}
  Goals = {1, 3}
  Hinted = {1}
  Width = 2
  Lookahead = 1
  Burst = 2
  Kick = 2
  Horizon = 3
  Reach = 3
  Clip = 1
  MaxDeferred = 1
  MaxPending = 2
  MaxDives = 1
  BudgetWindow = 3
  MaxFrames = 2
  MaxOcr = 1
  Faults = TRUE
INVARIANTS
  MeasuredOnce CallsBounded
PROPERTIES
  VerdictMovesOnce ArmedSettles
\* a run whose last window is settled stops
CHECK_DEADLOCK FALSE
