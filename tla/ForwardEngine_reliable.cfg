\* The database answers and nobody interferes; the process still restarts.
SPECIFICATION Spec
CONSTANTS
    MaxTrade = 5
    MaxLevel = 3
    MaxFaults = 0
    SameTickReentry = TRUE
    DbFaults = FALSE
    OperatorActs = FALSE
INVARIANTS
    MemoryMatchesRow
PROPERTIES
    ImplementsTrades
