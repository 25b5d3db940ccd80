CONSTANTS
    Names <- MCNames
    ArgNames <- MCArgNames
    Scalars <- MCScalars
    Calls <- MCCalls
    MaxDecls = 3
    MaxBlocks = 3
SPECIFICATION Spec
INVARIANTS
    TypeOK
    OnePlace
    RefusesNested
PROPERTY BindsAsPython
CHECK_DEADLOCK FALSE
