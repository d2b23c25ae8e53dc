\* Requests fail, the process restarts, the two runners overlap.
SPECIFICATION Spec
CONSTANTS
    MaxTrade = 3
    MaxFaults = 2
    MaxRestarts = 1
    FinalErrors = TRUE
    Overlap = TRUE
INVARIANTS
    TypeOK
    NeverDoubled
    QuietMeansSynced
PROPERTIES
    CleanCloseFlattens
    CleanEntryProtects
CHECK_DEADLOCK FALSE
