SPECIFICATION RevisionsSpec
CONSTANTS
  Users = {u1, u2}
  Ticks = {t1}
  Builds = {b1}
  MaxAttempts = 2
  MaxRevisions = 2
  Workloads = {w1, w2}
  Stateful = {w2}
  Always = {w2}
  HostPorts = {1}
  Requesters = {r1}
  CommandDeadline = 0
  DeliveryLease = 1
  TimeoutLag = 0
  UnhealthyAfter = 0
  OfflineAfter = 0
  MaxInFlight = 2
  Rival = w2
INVARIANTS
  TypeOK
  VersionsInOrder
  BuildDeployedOnce
  SerialRollout
  PortNotShared
SYMMETRY Interchangeable
CONSTRAINT FewCalls
