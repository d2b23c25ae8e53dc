SPECIFICATION Spec
CONSTANTS
    Market = {m1, m2}
    Limit = 1
    Funds = 2
    MaxAddOns = 1
    Replace = TRUE
    RaiseCash = TRUE
    Bounds <- MCBounds
INVARIANTS TypeOK MoneyAccounted
SYMMETRY MCSymmetry
PROPERTY UserExclusionStands
