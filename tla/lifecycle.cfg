CONSTANTS
  r1 = r1
  r2 = r2
  Request <- TwoRequests
  MaxEvents = 3
  MaxCycle = 2
  MaxTrouble = 2
  Rounds = 1
  e1 = e1
  t1 = t1
  t2 = t2
  Enrollment <- OneEnrollment
  None = None
  MaxStreams = 2
  Overlap = {}
  DrainedFrom <- Present
  Crashes = FALSE
  MaxJobs = 2
  Token <- TwoTokens
  Faults = {"silence"}
SPECIFICATION LifeFairSpec
INVARIANTS BilledOnce MeterOfCycle AcknowledgedIsCounted
PROPERTIES OnlyEndedDropped Delivered DrainFinishes RemovalEnds
CHECK_DEADLOCK FALSE
