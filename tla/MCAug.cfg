CONSTANTS
    Names <- MCNames
    Params <- MCParams
    Menu <- AugMenu
    MaxStmts = 4
    MaxDepth = 2
    Fuel = 12
SPECIFICATION Spec
INVARIANT AugAccumulates
