SPECIFICATION FairSpec
CONSTANTS
  Jobs = {j1, j2}
  Runners = {r1, r2}
  Poisoned = {j2}
  MaxCrashes = 1
  MaxTerms = 1
  MaxBrokerStops = 1
  MaxLoadErrors = 1
INVARIANTS
  TypeOK
  NoDoubleExecution
  SnapshotHoldsNoActiveJob
  PendingHasMessage
PROPERTIES
  ExecutedOncePerProcess
  SavedEndsAreKept
  MessagesAreServed
CHECK_DEADLOCK FALSE
