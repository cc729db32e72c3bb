SPECIFICATION Spec
CONSTANTS
  c1 = c1
  c2 = c2
  Caller = {c1, c2}
  Price = {1, 2}
  MaxPrice = 2
  Threshold = 2
  Agent = {"scan_agent", "cred_poison_agent"}
  Grants <- Passed
  MaxRuns = 3
SYMMETRY Symmetry
CHECK_DEADLOCK FALSE
INVARIANTS ThrottleIsExact OvershootIsBounded FetchesAreBilled HaltHolds AnswersAreLedgered
  ExecutionIsAuthorised LedgerLinksBack
