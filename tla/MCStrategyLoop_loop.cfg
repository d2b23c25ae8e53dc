SPECIFICATION MCSpec
CONSTANTS
    Viewers = {v1}
    loop = loop
    MaxBar = 3
    MaxRestarts = 1
    Failures = TRUE
    Outages = TRUE
    LateAnswers = FALSE
INVARIANTS
    TypesOK
    OnceInWindowUnlessLate
    BarsAccountedFor
PROPERTIES
    StopActedOnWhenFair
CHECK_DEADLOCK FALSE
