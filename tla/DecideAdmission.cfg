SPECIFICATION Spec
CONSTANTS
  Calls = {c1, c2, c3}
  Jobs = {}
  Funded = 2
  MaxAttempts = 2
  MaxWait = 2
  BackoffBase = 1
  BackoffMax = 2
  MaxWindow = 2
  RefreshEvery = 1
  Advertised = {1, 3}
SYMMETRY CallSymmetry
INVARIANTS
  SlotAccounting FundedCeiling ProbeIsAlone NoLostWakeup
PROPERTIES
  NoOvertaking
