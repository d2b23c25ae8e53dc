\* Any commit may be lost or unacknowledged, the process may restart at any time,
\* and an operator may reset the table or force a sync.
SPECIFICATION Spec
CONSTANTS
    MaxTrade = 4
    MaxLevel = 2
    MaxFaults = 4
    SameTickReentry = TRUE
    DbFaults = TRUE
    OperatorActs = TRUE
INVARIANTS
    TypeOK
    RestartRecoversHeldTrade
    StraysBounded
    RowStopNeverTighter
CHECK_DEADLOCK FALSE
