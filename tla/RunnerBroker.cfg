SPECIFICATION FairSpec
CONSTANTS
  Jobs = {j1}
  Runners = {r1, r2}
  MaxCrashes = 0
  MaxTerms = 0
  MaxBrokerStops = 1
  MaxLoadErrors = 0
  Poisoned = {}
PROPERTIES
  JobsSurviveBrokerRestart
CHECK_DEADLOCK FALSE
