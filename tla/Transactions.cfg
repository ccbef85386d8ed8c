SPECIFICATION FairSpec
CONSTANTS
  FnRequests = {"f1"}
  MwRequests = {"m1"}
  Timeout = 0
  MaxClock = 1
INVARIANTS TypeOK AnswerIsTruth ForgottenOnlyDecided StopDecidesActive
PROPERTIES ExpiredIsDecided ReturnDecides
CHECK_DEADLOCK FALSE
