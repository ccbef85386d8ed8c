SPECIFICATION FairSpec
CONSTANTS
  Nodes = {"1", "2"}
  Self = "self"
  Numeric = {"1"}
  SuspectTimeout = 0
  DeadTimeout = 0
  ChanCap = 1
  MaxClock = 2
  MayLead = TRUE
  Admin = {"1"}
INVARIANTS TypeOK AnnouncedIsState
PROPERTIES DeadMeansSilent SilentNodeReported
