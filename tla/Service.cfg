SPECIFICATION FairSpec
CONSTANTS
  Calls = {"c1", "c2"}
  ClientIP <- MCClientIP
  Requests <- MCRequests
  MaxRetries <- MCMaxRetries
  Limit = 1
  Window = 1
  MaxCrashes = 1
INVARIANTS CreatedOnce RateWindow
PROPERTIES RefinesFileService CallReturns
