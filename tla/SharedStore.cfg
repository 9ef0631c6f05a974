SPECIFICATION FairSpec
CONSTANTS
  Clients = {c1, c2}
  Tasks = {t1}
  Execution = Execution
  NoOne = NoOne
INVARIANTS
  TypeOK
  DoneViewIsWhole
  StatsOfDoneJobs
  SnapshotIsWhole
PROPERTIES
  EveryCallReturns
CHECK_DEADLOCK FALSE
