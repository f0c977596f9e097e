SPECIFICATION LookupSpec
CONSTANTS
    NodeCount = 4
    LineCount = 3
    MaxBody = 3
    MaxCuts = 1
INVARIANTS
    EveryAddedLineIsChanged
    FoundIsTouched
    MissedOnlyOnSharedFirstLine
CHECK_DEADLOCK FALSE
