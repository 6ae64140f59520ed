SPECIFICATION FairSpec
CONSTANTS
    Capacity = 2
    MaxLines <- OneMore
    CanStop = TRUE
INVARIANT TypeOK
INVARIANT OneTerminalShell
INVARIANT ReaderStays
PROPERTY AllOutputArrives
PROPERTY PipelineReturns
