SPECIFICATION FairSpec
CONSTANTS
  Jobs = {j1, j2}
  None = None
  MaxFlight = 2
INVARIANTS
  TypeOK
  QuietPageShowsTheEnd
PROPERTIES
  PollingEnds
CHECK_DEADLOCK FALSE
