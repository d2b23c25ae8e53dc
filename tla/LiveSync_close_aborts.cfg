\* One request may fail, and not for good; the runners take turns.
SPECIFICATION Spec
CONSTANTS
    MaxTrade = 2
    MaxFaults = 1
    MaxRestarts = 0
    FinalErrors = FALSE
    Overlap = FALSE
INVARIANTS
    CloseNeverFails
CHECK_DEADLOCK FALSE
