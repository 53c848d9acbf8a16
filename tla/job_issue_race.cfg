CONSTANTS
  t1 = t1
  t2 = t2
  MaxJobs = 1
  Token <- TwoTokens
  None = None
  Overlap = {"poll"}
  Faults = {}
SPECIFICATION Spec
CHECK_DEADLOCK FALSE
INVARIANT IssuedIsValid
