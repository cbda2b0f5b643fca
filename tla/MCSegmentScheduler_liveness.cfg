CONSTANTS
    NumAccounts = 2
    UploadFiles = 1
    NumTasks = 2
    Others = {}
    NumParts = 1
    SegmentConcurrency = 2
    MaxFaults = 1
    PoolMayStop = FALSE
SPECIFICATION FairSpec
PROPERTIES
    Termination
