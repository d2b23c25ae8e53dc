SPECIFICATION Spec
CONSTANTS
    Market = {"m"}
    Proc = {"api", "worker"}
    Live = {"worker"}
    MaxRow = 2
    MaxJob = 1
    Budgets <- MCBudgets
INVARIANTS
    TypeOK
    NoDoubleSignal
PROPERTIES
    EndedGetResolved
CHECK_DEADLOCK FALSE
