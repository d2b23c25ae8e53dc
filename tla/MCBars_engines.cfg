SPECIFICATION MCSpec
CONSTANTS
    MaxSlip = 1
    MaxFillSlip = 1
    MaxPrice = 4
    Cvd <- CvdValues
    SpotThr = 1
    SpreadThr = 1
    CvdExit = 0
    MinHold = 2
    SlDist = 1
    TpRatio = 2
    TrailDist = 1
    Restarts = TRUE
    SurgeMaxPrice = 4
    ExMaxPrice = 6
    ExMaxSlip = 0
    MaxBar = 2
    MaxRestarts = 1
    Dists = {1}
    RrRatio = 2
    Maps = {{1, 3, 5}, {2, 3, 4, 6}, {2, 6}}
    Contexts <- MCContexts
    Modes = {"magnet_tp_rr", "magnet_rr", "fixed_rr"}
    Rr = 2
    Risk = 1
    Step = 1
INVARIANTS
    TypesOK
    EntriesJustified
    TradesAsRecorded
PROPERTIES
    LevelsOnlyAdvance
CHECK_DEADLOCK FALSE
