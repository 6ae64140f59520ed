SPECIFICATION Spec
CONSTANTS
    Dirs <- SomeDirs
    StartDirs <- Starts
    MaxBytes = 1030
    TokenCounts <- Counts
    Faults = TRUE
INVARIANT TypeOK
INVARIANT StoresInside
INVARIANT PromptTells
CHECK_DEADLOCK FALSE
