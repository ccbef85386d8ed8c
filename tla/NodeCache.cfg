SPECIFICATION FairSpec
CONSTANTS
  Nodes = {"n1"}
  Callers = {"c1", "c2", "c3"}
  TTL = 2
  MaxPending = 2
PROPERTY EventuallyFresh
