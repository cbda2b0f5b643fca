CONSTANTS
    Folders = {g1, g2}
    Files = {p1}
    Rars = {r1}
    NumMembers = 2
    Clients = {c1}
    Contents = {v1}
    MaxAttempts = 2
    MaxRequests = 3
    MaxFaults = 2
    MaxCrashes = 1
    BusyWrites = FALSE
    LongWrites = FALSE
    CrashDuringPut = FALSE
    PackMayFail = FALSE
SPECIFICATION FairSpec
INVARIANTS
    NoLostGame
    
PROPERTIES
    AckedIsUploaded
CHECK_DEADLOCK FALSE
