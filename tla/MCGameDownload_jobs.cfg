CONSTANTS
    program = program
    data = data
    v1 = v1
    v2 = v2
    Files = {program, data}
    Versions = {v1, v2}
    Length <- MCLength
    NoVersion = NoVersion
    Hole = Hole
    Absent = Absent
    MaxUploads = 1
    MaxFetches = 2
    MaxCopies = 1
    MaxFaults = 2
SPECIFICATION FairSpec

    
    
PROPERTIES
    DownloadEnds
CHECK_DEADLOCK FALSE
