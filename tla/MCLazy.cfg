CONSTANTS
    Names <- MCNames
    Params <- MCParams
    Menu <- LazyMenu
    MaxStmts = 3
    MaxDepth = 2
    Fuel = 12
SPECIFICATION Spec
INVARIANT AndShortCircuits
