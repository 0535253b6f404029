SPECIFICATION FairSpec
CONSTANTS
  Operations = {"game", "music", "remove"}
  RECORDS = 2
  SECTORS = 2
  ATTEMPTS = 2
  TRANSMISSIONS = 3
  QUEUE_LIMIT = 2
  LineLimit = 1
  MaxRuns = 2
INVARIANT InstallHolds
PROPERTY InstallEnds
CHECK_DEADLOCK FALSE
