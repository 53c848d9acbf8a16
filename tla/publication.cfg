CONSTANTS
  l1 = l1
  l2 = l2
  Lines <- TwoLines
  None = None
  Faults = {"edge", "drop", "timeout", "cancel", "save", "crash", "agent", "away"}
  MaxFaults = 3
  Kinds = {"publish", "refresh", "update", "cleanup", "unpublish", "normalize", "canary"}
  Direct = FALSE
  Overlap = {}
SPECIFICATION FairSpec
INVARIANTS Accounted OneFailureSurvived
PROPERTIES PublicOnlyWhenServed Settles
