CONSTANTS
  Heads = {h1}
  Workers = {w1, w2}
  MaxRetries = 1
  MaxEvents = 2
  MaxCrashes = 1
SPECIFICATION FairSpec
INVARIANTS
  CompletedMeansSaved
  ProcessingHasOwner
  SingleFlightUntilFailure
PROPERTIES
  PromiseKept
  EveryRequestSettles
CHECK_DEADLOCK FALSE
