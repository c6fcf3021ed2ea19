SPECIFICATION Spec
CONSTANTS
  Payload <- MCPayload
  Term = {1, 2}
  LeaderOf <- MCLeaderOf
  MaxIndex = 3
  MaxBatch = 2
  Transport = "channel"
  ApiKey = FALSE
  CrashAt = {"idle"}
  MaxCrash = 1
INVARIANTS TypeOK StateMachineAgrees NoHole HaltsOnlyAfterPurge
PROPERTIES ImplementsLogStore
CHECK_DEADLOCK FALSE
