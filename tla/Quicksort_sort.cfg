SPECIFICATION FairSpec
CONSTANTS
    Values <- MCValues
    MaxLen = 5
INVARIANT TypeOK
INVARIANT Rearranged
INVARIANT Sorted
PROPERTY Split
PROPERTY Terminates
CHECK_DEADLOCK FALSE
