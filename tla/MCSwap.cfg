CONSTANTS
    Names <- MCNames
    Params <- MCParams
    Menu <- SwapMenu
    MaxStmts = 3
    MaxDepth = 2
    Fuel = 12
SPECIFICATION Spec
INVARIANT TuplesSwap
