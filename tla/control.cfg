CONSTANTS
  t1 = t1
  t2 = t2
  r1 = r1
  r2 = r2
  MaxJobs = 2
  Token <- TwoTokens
  None = None
  Overlap = {"report"}
  Faults <- AllFaults
  FailureThreshold = 1
  RecoverySuccesses = 1
  SwitchPercent = 85
  ReturnPercent = 15
  ResetGrace = 1
  CycleLength = 2
  ResetDayKnown = FALSE
  Cooldown = 1
  SwitchWindow = 2
  MaxSwitches = 1
  DryRunTTL = 1
  Addresses = {"a1"}
  Samples <- MCSamples
  MaxNow = 3
  MaxSwitchEvents = 2
  MaxPlans = 1
  Scopes <- MCScopes
  AuthRequests = {r1, r2}
  SessionTTL = 2
  SetupTTL = 1
  FailureLimit = 1
  FailureWindow = 1
  MaxAuthNow = 4
  MaxSessions = 2
  MaxSetups = 1
  AuthScopes <- MCAuthScopes
  c1 = c1
  c2 = c2
  CertNodes = {c1, c2}
  OrdersPerNode = 2
  TxtPuts = {"add", "replace"}
  FailuresToSwitch = 2
  SuccessesToReturn = 2
  SampleInterval = 1
  RunnerCooldown = 2
  LeaveAt = 2
  ReturnBelow = 2
  ResetReturnBelow = 1
  RunnerCycle = 2
  GraceTime = 1
  Opening = 1
  SeedMaxAge = 0
  RunnerScopes <- MCRunnerScopes
  MaxRunnerNow = 3
  MaxTraffic = 2
SYMMETRY ControlSymmetry
SPECIFICATION ControlSpec
CHECK_DEADLOCK FALSE
INVARIANTS CompleteMeansClean RunsOnce
  CalmSwitching RecordAccounted
  GuessLimit CodeUsedOnce GrantsAreCurrent LogoutEndsFamily
  ChallengeStands RunnerIsCareful
PROPERTIES ImplementsRemoval NoReturnInCycle
