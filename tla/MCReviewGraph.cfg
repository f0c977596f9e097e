CONSTANTS
  Finding <- MCFinding
  Reviewers <- MCReviewers
  PullRequests <- MCPullRequests
  Answer <- MCAnswer
  Refined <- MCRefined
  NoLine = NoLine
  Threshold = 2
  PoolSize = 2
  Hunks = 3
SPECIFICATION ReviewSpec
INVARIANTS
  ReviewTypeOK
  AgentsIndependent
  ConfidentFindingsSurvive
  DoubtfulFindingsChecked
PROPERTY GraphEnds
CHECK_DEADLOCK FALSE
