SPECIFICATION FairSpec
CONSTANTS
  Workers = {w1, w2}
  MaxRetry = 3
  NoWorker = NoWorker
  Loaded = {"done", "failed", "cancelled"}
INVARIANTS
  TypeOK
  DoneIsComplete
  EndsTerminal
  RetriesReachEveryWorker
  FirstAttemptsSpread
PROPERTIES
  CancelSticksWhileWaiting
  ImplementsLifecycle
  BegunJobReturns
  NoGoroutineLeaks
  LostCancelStillStops
  StepsOfTheCenter
  StatusFollowsGraph
