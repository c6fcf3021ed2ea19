SPECIFICATION FairSpec
CONSTANTS
  Id = {1}
  MaxSeq = 3
  NodeId = 2
  Peers <- WithScheme
  ApiKey = FALSE
  Catalog <- OwnFirst
  Undecodable <- NewUpdates
  MaxFail = 1
  MaxRestart = 1
  MaxPowerLoss = 1
INVARIANTS TypeOK AgreesAtPosition MissedOnlyPruned
PROPERTIES Converges
CHECK_DEADLOCK FALSE
