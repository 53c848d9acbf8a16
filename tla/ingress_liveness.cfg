CONSTANTS
  n1 = n1
  n2 = n2
  n3 = n3
  a1 = a1
  a2 = a2
  a3 = a3
  NoNode = NoNode
  NoAddr = NoAddr
  Node <- ThreeNodes
  Address <- ThreeAddresses
  AddrOf <- AddressesOfThree
  Rank <- RankOfThree
  HealthStates <- ProbedHealth
  PutKinds = {"replace"}
  Faults = {"crash", "store"}
  MaxFaults = 1
SPECIFICATION FairSpec
PROPERTIES
  NoReturnToDeadNode
  SwitcherReturns
  InterruptedResumes
CHECK_DEADLOCK FALSE
