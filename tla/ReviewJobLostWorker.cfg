CONSTANTS
  Heads = {h1}
  Workers = {w1}
  MaxRetries = 1
  MaxEvents = 1
  MaxCrashes = 1
SPECIFICATION FairSpec
PROPERTY LostWorkerIsRetried
CHECK_DEADLOCK FALSE
