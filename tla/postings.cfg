SPECIFICATION Spec
CONSTANTS
  Id = {1, 2}
  Key = {k1}
  Value <- MCValue
  ExactInt = 4
  Filters <- MCFilters
  Docs <- MCDocs
  Depth = 3
  MaxOffset = 3
INVARIANTS TypeOK EvaluateAgrees SelectsWhatItMeans RoundTrips
CHECK_DEADLOCK FALSE
