SPECIFICATION FairSpec
CONSTANTS
  MaxIndex = 2
  MaxTerm = 2
  Members = 1
  ApplyCap = 1
  ProposeCap = 1
  Callers = {"c1"}
PROPERTIES StopFreesMutex CommittedIsApplied
CHECK_DEADLOCK FALSE
