SPECIFICATION Spec
CONSTANTS
  Id = {1, 2}
  BatchSize = 1
  SyncThreshold = 9
  Kinds <- AnyRequest
  Rewrites = FALSE
  CrashAt <- AnyPoint
  FailAt <- NoFaults
  BeyondLoss = TRUE
  MaxSeq = 4
  MaxCkpt = 2
  MaxCrash = 1
INVARIANTS NoAckedRecordLost
CHECK_DEADLOCK FALSE
