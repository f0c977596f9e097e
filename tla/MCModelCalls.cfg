CONSTANTS
  Callers = {c1, c2, c3}
  NoCaller = NoCaller
  Interval = 2
  MaxRetries = 2
SPECIFICATION Spec
INVARIANTS
  EndsExplained
PROPERTIES
  GrantsSpaced
  EveryCallEnds
CHECK_DEADLOCK FALSE
