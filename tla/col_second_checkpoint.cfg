SPECIFICATION Spec
CONSTANTS
  Id = {1, 2}
  BatchSize = 1
  SyncThreshold = 9
  Kinds <- AnyRequest
  Rewrites = FALSE
  CrashAt <- Nowhere
  FailAt <- NoFaults
  BeyondLoss = TRUE
  MaxSeq = 4
  MaxCkpt = 2
  MaxCrash = 0
INVARIANTS GetReturnsLastVector
CHECK_DEADLOCK FALSE
