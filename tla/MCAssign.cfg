CONSTANTS
    Names <- MCNames
    Targets <- MCTargets
    Values <- MCValues
    MaxSteps = 3
SPECIFICATION Spec
INVARIANTS
    AssignsAsPython
    OutputPerCall
CHECK_DEADLOCK FALSE
