SPECIFICATION Spec
CONSTANTS
    Process = {w1, w2}
    Acme = acme
    Account = {acme}
    Content = {edit, note}
    Routes <- ChainedRoutes
    MaxRows = 4
    NoHash = NoHash
    NoProcess = NoProcess
SYMMETRY Symmetry
INVARIANTS
    TamperingIsSeen
