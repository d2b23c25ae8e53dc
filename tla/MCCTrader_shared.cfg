SPECIFICATION MCSpec
CONSTANTS
  Traded = {a1}
  Jobs = {j1, j2}
  Sides = {long, short}
  MaxFailures = 2
  Announces = TRUE
  Ids = {1, 2}
  MaxVolume = 2
  OrderVolumes = {2}
  Bounds <- MCBounds
  Accounts <- MCAccounts
  Executors = {e1, e2}
  MaxGen = 3
  MaxMishaps = 1
  NULL = NULL
  a1 = a1
  a2 = a2
INVARIANTS TypesOK ClosedAsAsked NoJobIsStuck
PROPERTIES AnswersAreOwn TokenChain
CHECK_DEADLOCK FALSE
SYMMETRY Symmetry
