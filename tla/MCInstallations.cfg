CONSTANTS
  Ids = {r1, r2}
  Names = {n1, n2}
  Handlers = {h1, h2}
  MaxEvents = 3
  MaxMoves = 3
SPECIFICATION Spec
SYMMETRY Symmetry
INVARIANTS
  AnsweredReposKnown
  ReviewsFindTheirRepo
  LastEventObeyed
  AnsweredReposIndexed
CHECK_DEADLOCK FALSE
