SPECIFICATION DeskSpec
CONSTANTS
    Worker = {w1, w2}
    NoWorker = NoWorker
    User = {u1}
    SeedRole <- MCSeedRole
    MaxFailed = 5
    CodesPerSet = 2
    MaxSets = 2
    MaxSecrets = 2
    MaxSessions = 2
    MaxRequests = 3
    Key = {k1}
    NoKey = NoKey
    Tenant = {t1, t2}
    NoTenant = NoTenant
    Alert = {a1}
    Actor = {ana, bot}
    Wanted = {"triaged", "dismissed"}
    Nobody = Nobody
    BrandName = {n1}
    KeyScopes <- MCKeyScopes
    RequireAuth = FALSE
    MaxTurns = 1
SYMMETRY MCSymmetry
INVARIANTS SpentStaysSpent TriageIsWhole NoTwins
PROPERTIES RevokedForGood
CHECK_DEADLOCK FALSE
