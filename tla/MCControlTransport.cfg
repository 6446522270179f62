CONSTANTS
  Limit = 2
  InitialLen = 3
  MaxLive = 3
SPECIFICATION FairSpec
INVARIANTS
  NoneLost
  SyncedWhenActive
  CommitNeverOverflows
  NoOrphanWorker
  JoinRemovePaired
PROPERTIES
  NoLateActivation
  DeliversStream
  CommitTerminates
  StopTerminates
  FailureEndsSession
CHECK_DEADLOCK FALSE
