SPECIFICATION Spec
CONSTANTS
  p1 = p1
  p2 = p2
  Proc = {p1, p2}
  MaxInspect = 2
  GeoHinted <- GeoSites
  Armed <- ArmedSites
  LiveAnswers <- Answers
  MaxSuspects = 2
  MaxInspections = 2
  MaxRuns = 2
  MaxFlips = 1
  MaxFailures = 1
SYMMETRY Symmetry
CHECK_DEADLOCK FALSE
INVARIANT ActivationsAreKept
