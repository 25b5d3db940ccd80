CONSTANTS
    Names <- MCNames
    Params <- MCParams
    Menu <- ControlMenu
    MaxStmts = 4
    MaxDepth = 2
    Fuel = 12
SPECIFICATION Spec
INVARIANT LeavesEarly
