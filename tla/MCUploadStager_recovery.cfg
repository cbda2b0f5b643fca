CONSTANTS
    Files = {f1}
    Clients = {c1, c2}
    Contents = {v1, v2}
    MaxAttempts = 2
    MaxFaults = 1
    MaxCrashes = 1
    WritesDuringBatch = FALSE
    ConcurrentPuts = TRUE
    LongWrites = FALSE
    Readers = FALSE
    ShutdownDuringBatch = FALSE
SPECIFICATION FairSpec
INVARIANTS
    NoLostWrite
    HashMatchesContent
PROPERTIES
    AckedIsUploaded
