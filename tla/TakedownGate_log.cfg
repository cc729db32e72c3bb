SPECIFICATION GateSpec
CONSTANTS
    Process = {w1, w2}
    Acme = acme
    Nobody = nobody
    Account = {acme, nobody}
    Content = {fake, other}
    Alert = {fake}
    Routes <- MixedRoutes
    Verdict = {"phish"}
    NoVerdict = NoVerdict
    MaxRows = 3
    MaxFilings = 1
    NoHash = NoHash
    NoProcess = NoProcess
SYMMETRY Symmetry
INVARIANTS
    AnsweredIsRecorded
    SeqIsDense
    ChainIntact
    MutationsNeverCollide
    TamperingPinpointed
PROPERTY
    AppendOnly
