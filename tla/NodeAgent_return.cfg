SPECIFICATION Spec
CONSTANTS
  Workloads = {w1}
  Rival = w2
  Stateful = {}
  Always = {}
  HostPorts = {1}
  Requesters = {}
  CommandDeadline = 0
  DeliveryLease = 1
  TimeoutLag = 0
  UnhealthyAfter = 0
  OfflineAfter = 0
  MaxInFlight = 1
INVARIANT NoDuplicateOnReturn
