SPECIFICATION FairExamples
CONSTANTS
    Room = 2
    CatLines = 3
    PingLen = 4
    Rounds = 5
    MaxChildren = 5
INVARIANT ExamplesTypeOK
INVARIANT EndsComplete
PROPERTY AllEnd
CHECK_DEADLOCK FALSE
