SPECIFICATION Spec
CONSTANTS
  Op = {o1, o2}
  MaxSeq = 4
  StartSeqs = {0, 3}
  Fsync = FALSE
  Faults = {"append", "late", "power"}
  MaxCrash = 2
SYMMETRY OpSymmetry
INVARIANTS SeqsStrictlyIncrease NoTornRecord
CHECK_DEADLOCK FALSE
