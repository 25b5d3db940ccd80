CONSTANTS
    Names <- MCNames
    Params <- MCParams
    Menu <- MCMenu
    MaxStmts = 3
    MaxDepth = 3
SPECIFICATION Spec
INVARIANTS
    TypeOK
    DefinedOnce
    DefinedBeforeUse
    RegionTree
    EmitterAccepts
    LoopsYield
    StaleLocals
PROPERTY
    OnlyRewires
