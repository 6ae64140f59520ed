SPECIFICATION Spec
CONSTANTS
    Jobs = {j1, j2}
    AnyChild = anychild
    CanStop = FALSE
    MaxArgs = 1
SYMMETRY JobSymmetry
PROPERTY CatchesAll
CHECK_DEADLOCK FALSE
