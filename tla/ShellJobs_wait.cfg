SPECIFICATION FairSpec
CONSTANTS
    Jobs = {j1, j2}
    AnyChild = anychild
    CanStop = TRUE
    MaxArgs = 2
INVARIANT TypeOK
PROPERTY ReportsOnlyDuringWait
PROPERTY ForegroundWaits
PROPERTY WaitsForEach
PROPERTY WaitReturns
CHECK_DEADLOCK FALSE
