SPECIFICATION Spec
CONSTANTS
    MaxFindings = 2
    LocalCount = 1
    HubCount = 1
    Clean <- MCClean
    Templates = {"sql"}
    MinimumOwn = 1
    TrainParts = 1
    Parts = 2
    MaxRuns = 2
    MaxExports = 2
    MaxStops = 1
    MaxHits = 2
INVARIANTS
    LoggedVersionTrained
    HeldOutUnseen
    PassMeansNoFewer
    UnforcedExportKeepsOwn
CHECK_DEADLOCK FALSE
