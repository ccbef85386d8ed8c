SPECIFICATION FairSpec
CONSTANTS
  Nodes = {"1", "2"}
  Self = "self"
  Numeric = {"1", "2"}
  SuspectTimeout = 0
  DeadTimeout = 1
  ChanCap = 1
  MaxClock = 2
  MayLead = TRUE
  Admin = {}
PROPERTIES RemovedIsUnregistered
