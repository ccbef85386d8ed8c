SPECIFICATION FairSpec
CONSTANTS
  Clients = {"c1", "c2"}
  Owners = {"c1", "c2"}
  Paths = {"/a"}
  LockTypes = {"Read", "Write"}
  LockTimeout = 1
  WaitTimeout = 1
  MaxClock = 4
  OwnerOf <- ClientIsOwner
INVARIANTS TypeOK WriterExcludesOthers
PROPERTIES OnlyHolderReleases RefinesLockService AbandonedLockReclaimed LockCallReturns
