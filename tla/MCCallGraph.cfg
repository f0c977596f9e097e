CONSTANTS
  Repos = {r1, r2}
  Files = {"lib", "app"}
  Names = {"load", "save", "main"}
  Unknown = "unknown"
  Versions <- MCVersions
  Workers = {w1, w2}
  MaxIngests = 4
SPECIFICATION Spec
INVARIANTS
  CallsAreFresh
  LostOnlyToLaterIngest
  RadiusIsOwnFile
CHECK_DEADLOCK FALSE
