SPECIFICATION FairSpec
CONSTANTS
  Sessions = {1, 2}
  Procs = {1, 2}
  Inside = {1, 2}
  Rejected = {1}
  MaxCrashes = 1
  MaxIOErrors = 1
INVARIANTS NoSessionLost IndexIsDurable
PROPERTIES PlaytimeReachesServer
