SPECIFICATION Spec
CONSTANTS
  Op = {o1, o2}
  MaxSeq = 4
  StartSeqs = {0, 3}
  Fsync = TRUE
  Faults = {"append", "power"}
  MaxCrash = 2
SYMMETRY OpSymmetry
INVARIANTS TypeOK AckedDurable
PROPERTIES ImplementsDurableLog
CHECK_DEADLOCK FALSE
