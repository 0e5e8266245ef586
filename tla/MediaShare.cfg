SPECIFICATION Spec
CONSTANTS
  Shares = {j1, j2}
  Calls = {c1, c2}
  Rows = {h1, h2}
  Starts = {1}
  Admission = 2
  MaxPerRail = 2
  SlotOn = TRUE
  NoShare = NoShare
  NoCall = NoCall
SYMMETRY Symmetry
INVARIANTS
  SettledByStop GivenBack
PROPERTIES
  ImplementsShareEnd
\* shares that have ended stop
CHECK_DEADLOCK FALSE
