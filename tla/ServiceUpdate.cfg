SPECIFICATION Spec
CONSTANTS
  Calls = {"c1", "c2"}
  ClientIP <- MCClientIP
  Requests <- MCRequests
  MaxRetries <- MCMaxRetries
  Limit = 2
  Window = 1
  MaxCrashes = 0
PROPERTIES UpdateApplied
