SPECIFICATION Spec
CONSTANTS
  Id = {1, 2}
  BatchSize = 2
  SyncThreshold = 3
  Kinds <- NoAdds
  Rewrites = TRUE
  CrashAt <- AnyPoint
  FailAt <- SomeFaults
  BeyondLoss = FALSE
  MaxSeq = 3
  MaxCkpt = 3
  MaxCrash = 2
INVARIANTS TypeOK AckedVersionsSurvive LogCompleteAboveWatermark SeqsNeverReused BufferedVectorsAreLogged IndexOnlyLiveRecords
PROPERTIES ImplementsDurableMap
CHECK_DEADLOCK FALSE
