SPECIFICATION MCSpec
CONSTANTS
    Stocks = {"a", "b"}
    MarketOf <- MCMarketOf
    Procs = {p, q}
    Postgres = TRUE
    FirstSlot = 24
    LastSlot = 26
    Bounds <- MCBounds
    Prices = {10, 14, 20}
    MaxDay = 6
    RefWindow = 3
    MinPeriods = 2
    Lookback = 5
    Unfinished = TRUE
    MaxExtras = 1
    Holidays = {2}
    WallDays = 3
    MaxSnap = 2
    MaxCrash = 1
INVARIANTS TypesOK ScansBooked LedgersHaveCause NobodyWaitsForever
PROPERTIES RecordedStands DueIsScannedWhenFair
CHECK_DEADLOCK FALSE
