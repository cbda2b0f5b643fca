CONSTANTS
    NumRequests = 3
    BatchSize = 2
    Names = {"x", "y"}
    Payloads = {"v"}
    Accounts = {a1, a2}
    AlbumBatch = 2
    Lookahead = 1
    BigParts = 2
    MaxFaults = 2
    MaxRenames = 1
    ReuseMovedNames = FALSE
SPECIFICATION FairSpec
INVARIANTS
    NoFileVanishes
    OneUpload
    BatchIsComplete
PROPERTIES
    BatchEnds
CHECK_DEADLOCK FALSE
