SPECIFICATION IdSpec
CONSTANTS
    Worker = {w1}
    NoWorker = NoWorker
    User = {u1}
    SeedRole <- SeededRoles
    MaxFailed = 5
    CodesPerSet = 1
    MaxSets = 1
    MaxSecrets = 1
    MaxSessions = 1
    MaxRequests = 6
INVARIANT LockoutHolds
CHECK_DEADLOCK FALSE
