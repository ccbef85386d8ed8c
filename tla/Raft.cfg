SPECIFICATION Spec
CONSTANTS
  MaxIndex = 3
  MaxTerm = 2
  Members = 1
  ApplyCap = 1
  ProposeCap = 1
  Callers = {"c1"}
INVARIANTS TypeOK HandedIsStored AppliedInOrder AppliedIsComplete
CHECK_DEADLOCK FALSE
