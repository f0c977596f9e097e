CONSTANTS
  Finding <- MCFinding
  Inputs <- MCInputs
  NoLine = NoLine
  Categories = {"security"}
  MaxFindings = 2
  InlineMax = 1
SPECIFICATION Spec
INVARIANT BlockerFailsCheck
CHECK_DEADLOCK FALSE
