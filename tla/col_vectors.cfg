SPECIFICATION FairSpec
CONSTANTS
  Id = {1, 2}
  BatchSize = 2
  SyncThreshold = 3
  Kinds <- AnyRequest
  Rewrites = FALSE
  CrashAt <- NotSegidx
  FailAt <- NoFaults
  BeyondLoss = TRUE
  MaxSeq = 5
  MaxCkpt = 1
  MaxCrash = 2
INVARIANTS GetReturnsLastVector SearchSeesLastVector
PROPERTIES ReturnsToService
CHECK_DEADLOCK FALSE
