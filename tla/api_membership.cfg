SPECIFICATION Spec
CONSTANTS
  r1 = r1  r2 = r2  n1 = n1  u1 = u1  u2 = u2  a = a  b = b  bad = bad
  Req <- OneReq
  Name <- MCName
  Cid <- MCCid
  Rid <- MCRid
  BadId = bad
  Bodies <- MCBodies
  Mixes <- OnlyMembers
  Node <- ThreeNodes
  MaxBatch = 2
  MaxQueries = 2
  MaxResults = 2
  MaxFail = 1
INVARIANTS RemovedStaysOut
CHECK_DEADLOCK FALSE
