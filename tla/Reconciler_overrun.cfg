SPECIFICATION Spec
CONSTANTS
  Slots = {1, 2}
  Replicas = 1
  Controllers = {t1}
  Requests = {q1}
  Reporters = {a1}
  HealthThreshold = 1
  MaxRecovery = 1
  MaxBackoff = 1
  LeaseTime = 1
  PassFits = FALSE
INVARIANT ReplicaBound
