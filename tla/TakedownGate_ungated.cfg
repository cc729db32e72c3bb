SPECIFICATION GateSpec
CONSTANTS
    Process = {w1, w2}
    Acme = acme
    Account = {nobody}
    Content = {fake, other}
    Alert = {fake}
    Nobody = nobody
    Routes <- TakedownRoutes
    Verdict = {"phish", "benign"}
    NoVerdict = NoVerdict
    MaxRows = 3
    MaxFilings = 2
    NoHash = NoHash
    NoProcess = NoProcess
SYMMETRY Symmetry
INVARIANTS
    NoUngatedTakedown
