SPECIFICATION FleetSpec
CONSTANTS
  Workloads = {w1}
  Nodes = {n1, n2}
  Capacity <- OneUnit
  Revisions = {r1, r2}
  Demand <- OneUnitEach
  PortRange = {q1, q2}
  FixedPort <- OnePort
  Volumes = {v1, v2}
  NoNode = NoNode
  Dynamic = Dynamic
  ScarcePasses = 2
  Stateful = {}
  Always = {}
  HostPorts = {1}
  Requesters = {u1}
  CommandDeadline = 0
  DeliveryLease = 1
  TimeoutLag = 0
  UnhealthyAfter = 0
  OfflineAfter = 0
  MaxInFlight = 2
INVARIANTS
  TypeOK
  AtMostOneDelivery
  NoResurrection
  PortHeld
  BesideVolumes
  RoomWithoutOverlap
  RetainedKept
PROPERTY LedgerRefinement
CONSTRAINT Explored
SYMMETRY Interchangeable
