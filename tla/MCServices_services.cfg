SPECIFICATION MCSpec
CONSTANTS
    Guest = {g1, g2}
    MaxPass = 1
    Ttl = {1, 3}
    Days = {2, 4}
    Slack = 2
    Long = 5
    Horizon = 5
    Calls = {c1, c2}
    Pauses = {0, 20, 70}
    MaxRefusals = 3
    MaxRelaunches = 1
    Market = {1, 2, 3, 4}
    Months = 2
    PageSize = 2
    OffsetCap = 2
    MaxMoves = 2
    Px = {10, 20}
    MaxTrades = 2
    MaxReboots = 1
    Limit = 2
    Recent = 1
INVARIANTS TypesOK PassesHold EarningsAreReal
PROPERTIES FeedKeeps
CHECK_DEADLOCK FALSE
SYMMETRY Symmetry
