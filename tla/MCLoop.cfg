CONSTANTS
    Names <- MCNames
    Params <- MCParams
    Menu <- LoopMenu
    MaxStmts = 5
    MaxDepth = 3
    Fuel = 12
SPECIFICATION DSpec
CHECK_DEADLOCK FALSE
INVARIANTS
    Dominance
    InitialsRetired
    Meaning
