CONSTANTS
  n1 = n1
  n2 = n2
  n3 = n3
  a1 = a1
  a2 = a2
  a3 = a3
  NoNode = NoNode
  NoAddr = NoAddr
  Node <- TwoNodes
  Address <- TwoAddresses
  AddrOf <- AddressesOfTwo
  Rank <- RankOfTwo
  HealthStates <- QuotaHealth
  PutKinds = {"add", "replace"}
  Faults = {"crash", "store", "provider", "network", "health"}
  MaxFaults = 2
SPECIFICATION Spec
INVARIANTS
  SettledOwner
  IntentLogged
PROPERTIES
  ImplementsTransaction
  PinnedStaysPinned
