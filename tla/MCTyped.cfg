CONSTANTS
    x = x
    y = y
    Names <- MCNames
    Tensors <- MCTensors
    Elements <- AllElements
    Statements <- AllKinds
    MaxSteps = 3
    MaxNumber = 8
SPECIFICATION Spec
INVARIANTS
    TypeOK
    Accepted
    Exact
SYMMETRY Symmetry
CHECK_DEADLOCK FALSE
