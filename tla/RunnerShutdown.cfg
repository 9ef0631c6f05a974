SPECIFICATION Spec
CONSTANTS
  Jobs = {j1}
  Runners = {r1, r2}
  MaxCrashes = 0
  MaxTerms = 1
  MaxBrokerStops = 0
  MaxLoadErrors = 0
  Poisoned = {}
SYMMETRY Symmetry
PROPERTIES
  StateSavedOnShutdown
CHECK_DEADLOCK FALSE
