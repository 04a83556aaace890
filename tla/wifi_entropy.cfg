SPECIFICATION Spec
CONSTANTS
  MAX_ATTEMPTS = 8
  MaxLosses = 2
  MaxPanics = 1
CHECK_DEADLOCK FALSE
INVARIANTS
  RefusesUntilConnected
