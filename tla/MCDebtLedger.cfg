CONSTANTS
  s1 = s1
  s2 = s2
  a = a
  b = b
  Saves = {s1, s2}
  Files = {a, b}
  Changed <- MCChanged
  Delta <- MCDelta
  MaxTime = 6
SPECIFICATION LedgerSpec
INVARIANTS
  LedgerTypeOK
  SerialSavesAddUp
  ScoresAreSums
  QuietListingIsExact
CHECK_DEADLOCK FALSE
