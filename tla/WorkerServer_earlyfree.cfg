SPECIFICATION Spec
CONSTANTS
    Clients = {c1, c2}
    ResourceFaults = FALSE
SYMMETRY ClientSymmetry
INVARIANT WorkersFinishBeforeFree
CHECK_DEADLOCK FALSE
