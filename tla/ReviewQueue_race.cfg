SPECIFICATION Spec
CONSTANTS
    Worker = {w1, w2}
    Item = {r1}
    User = {ana}
    Verdict = {"phish", "benign"}
    NoVerdict = NoVerdict
    NoUser = NoUser
    NoWorker = NoWorker
SYMMETRY Symmetry
INVARIANTS
    DecidedOnce
