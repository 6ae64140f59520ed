SPECIFICATION FairSpec
CONSTANTS
    Clients <- TwoClients
    Words <- TheWords
    Scripts <- TheScripts
    FileOf <- Files
    Size <- Digits
    Programs = {"ls"}
    MaxClock = 2
INVARIANT TypeOK
INVARIANT FilesArriveWhole
INVARIANT OwnOutput
 
PROPERTY ExitEndsWorker
CHECK_DEADLOCK FALSE
