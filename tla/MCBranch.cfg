CONSTANTS
    Names <- MCNames
    Params <- MCParams
    Menu <- BranchMenu
    MaxStmts = 3
    MaxDepth = 2
    Fuel = 12
SPECIFICATION Spec
INVARIANT ValuesAreSSA
