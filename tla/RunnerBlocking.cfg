SPECIFICATION Spec
CONSTANTS
  Jobs = {j1, j2}
  Runners = {r1, r2}
  MaxCrashes = 0
  MaxTerms = 0
  MaxBrokerStops = 0
  MaxLoadErrors = 0
  Poisoned = {}
SYMMETRY Symmetry
INVARIANTS
  NoHeadOfLineBlocking
CHECK_DEADLOCK FALSE
