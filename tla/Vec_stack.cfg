SPECIFICATION Spec
CONSTANTS
    Values = {x, y}
    Pointers = {p, q}
    Addresses = {a, b}
    Null = null
    StartCap = 1
    MaxRoom <- GrownTwice
INVARIANT TypeOK
PROPERTY StaysUsable
PROPERTY IsStack
CHECK_DEADLOCK FALSE
