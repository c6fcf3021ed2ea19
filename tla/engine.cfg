SPECIFICATION Spec
CONSTANTS
    c1 = c1  c2 = c2  u1 = u1  u2 = u2  n1 = n1
    Client <- MCClient  Uuid <- MCUuid  Name <- MCName  Dim <- MCDim
    BatchSize = 2
    Faults = {"open"}
    EarlyDelete = FALSE
    BadBatches = FALSE
    MaxRec = 3
    MaxCrash = 1
SYMMETRY Symmetric
CHECK_DEADLOCK FALSE
INVARIANTS TypeOK OneDimension EngineReopens AckedSurvive DeletedStaysGone ServedWhenIdle
