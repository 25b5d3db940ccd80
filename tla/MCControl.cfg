CONSTANTS
    Names <- MCNames
    Params <- MCParams
    Menu <- ControlMenu
    MaxStmts = 4
    MaxDepth = 2
    Fuel = 12
SPECIFICATION DSpec
CHECK_DEADLOCK FALSE
INVARIANTS
    Dominance
    Meaning
