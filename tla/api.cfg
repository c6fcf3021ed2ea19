SPECIFICATION Spec
CONSTANTS
  r1 = r1  r2 = r2  n1 = n1  u1 = u1  u2 = u2  a = a  b = b  bad = bad
  Req <- MCReq
  Name <- MCName
  Cid <- MCCid
  Rid <- MCRid
  BadId = bad
  Bodies <- MCBodies
  Mixes <- MCMixes
  Node <- MCNode
  MaxBatch = 2
  MaxQueries = 2
  MaxResults = 2
  MaxFail = 1
SYMMETRY Symmetric
INVARIANTS TypeOK NeverPanics NotFoundOnlyOnRace GetOrCreateRefusedOnlyOnRace RegistrationExplained RowsPadded
CHECK_DEADLOCK FALSE
