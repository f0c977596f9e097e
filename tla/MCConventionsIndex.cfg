CONSTANTS
  Workers = {w1, w2}
  Chunks <- MCShrinking
  MaxRequests = 2
  MaxRetries = 1
  MaxCrashes = 1
SPECIFICATION FairSpec
INVARIANTS
  IndexIsOneSnapshot
  LockHasWriter
PROPERTY IndexingEnds
CHECK_DEADLOCK FALSE
