CONSTANTS
  n1 = n1
  n2 = n2
  n3 = n3
  a1 = a1
  a2 = a2
  a3 = a3
  NoNode = NoNode
  NoAddr = NoAddr
  Node <- TwoNodes
  Address <- ThreeAddresses
  AddrOf <- AddressesOfTwo
  Rank <- RankOfTwo
  HealthStates <- PlainHealth
  PutKinds = {"add", "replace"}
  Faults = {"crash", "store", "foreign"}
  MaxFaults = 2
SPECIFICATION Spec
PROPERTIES
  UndoKept
CHECK_DEADLOCK FALSE
