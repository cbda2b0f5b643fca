CONSTANTS
    NumAccounts = 2
    UploadFiles = 1
    NumTasks = 2
    Others = {}
    NumParts = 1
    SegmentConcurrency = 2
    MaxFaults = 2
    PoolMayStop = FALSE
SPECIFICATION Spec
INVARIANTS
    TypeOK
    SlotAccounting
    InFlightHoldsLease
    AtMostOneMessage
    MessageIsWhole
    OneLiveAttempt
    NoSilentReturn
    CleanExit
PROPERTIES
    OutcomeIsFinal
