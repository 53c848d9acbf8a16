CONSTANTS
  l1 = l1
  l2 = l2
  Lines <- TwoLines
  None = None
  Faults = {"edge"}
  MaxFaults = 1
  Kinds = {"publish", "refresh"}
  Direct = FALSE
  Overlap = {}
SPECIFICATION Spec
INVARIANT ReportedIsServed
