SPECIFICATION FairSpec
CONSTANTS
  Slots = {1}
  Replicas = 1
  Controllers = {t1}
  Requests = {}
  Reporters = {a1}
  HealthThreshold = 1
  MaxRecovery = 1
  MaxBackoff = 1
  LeaseTime = 1
  PassFits = TRUE
PROPERTIES
  PinnedStays
  ReplicasArrive
  NoStaleRunning
