CONSTANTS
    Files = {f1, f2}
    Clients = {c1}
    Contents = {v1}
    MaxAttempts = 2
    MaxFaults = 3
    MaxCrashes = 0
    WritesDuringBatch = FALSE
    ConcurrentPuts = FALSE
    LongWrites = FALSE
    Readers = TRUE
    ShutdownDuringBatch = TRUE
SPECIFICATION Spec
INVARIANTS
    TypeOK
    
    
SYMMETRY Symmetry
