SPECIFICATION PlcSpec
CONSTANTS
  Nodes = {n1}
  Capacity <- OneUnit
  Revisions = {r1, r2}
  Demand <- OneUnitEach
  PortRange = {q1, q2}
  FixedPort <- OnePort
  Volumes = {}
  NoNode = NoNode
  Dynamic = Dynamic
  ScarcePasses = 2
INVARIANT NoOvercommit
