CONSTANTS
    t1 = t1
    t2 = t2
    Threads <- MCThreads
    Kernels <- MCKernels
    Body <- MCBody
    MaxStarts = 1
    MaxStrays = 1
SPECIFICATION Spec
INVARIANTS
    TypeOK
    StacksNest
    SelfContained
PROPERTIES
    Isolation
    CallsEnd
