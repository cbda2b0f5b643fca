CONSTANTS
    NumAccounts = 2
    UploadFiles = 1
    NumTasks = 1
    Others = {other}
    NumParts = 2
    SegmentConcurrency = 2
    MaxFaults = 1
    PoolMayStop = TRUE
SPECIFICATION Spec
INVARIANTS
    ReservationExclusive
PROPERTIES
    ImplementsSegmentOnce
CHECK_DEADLOCK FALSE
