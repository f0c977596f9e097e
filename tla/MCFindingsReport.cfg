CONSTANTS
  Finding <- MCFinding
  Inputs <- MCInputs
  NoLine = NoLine
  Categories = {"security", "architecture"}
  MaxFindings = 3
  InlineMax = 1
SPECIFICATION Spec
INVARIANTS
  StrongestKept
  PostedAsSaved
  EveryFindingShown
  GreenMeansNoSavedBlocker
  BlockerLostOnlyToKeyMate
CHECK_DEADLOCK FALSE
