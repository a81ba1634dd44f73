SPECIFICATION Spec
CONSTANTS
  Recoveries <- MCRecoveries
  MaxFiles = 3
  PerOwnerMaxFiles = 2
  Models = {"a", "b", "c"}
  Size <- MCSize
  MaxWarmBytes = 2
  MaxSessions = 3
  RegisterFrames <- MCRegisterFrames
  RefreshFrames <- MCRefreshFrames
 
INVARIANT ResumableSnapshotKept
INVARIANT WarmIsPinned
INVARIANT ProofsInOrder
 
PROPERTY SilentNodeLost
CHECK_DEADLOCK FALSE
