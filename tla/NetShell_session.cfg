SPECIFICATION FairSpec
CONSTANTS
    Commands = {"cd", "put", "get", "exit", "wrong"}
    MaxCommands = 4
    MaxLines = 2
    MissingFiles = TRUE
    LongNames = TRUE
INVARIANT TypeOK
INVARIANT NoMutualWaitBefore
 
 
 
PROPERTY PromptReturns
CHECK_DEADLOCK FALSE
