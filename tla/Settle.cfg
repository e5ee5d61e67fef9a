SPECIFICATION SettleSpec
CONSTANTS
  Builds = {b1, b2}
  NoBuildId = NoBuildId
  BuildHandlers = {c1}
  BuildTicks = {t1, t2}
  FailedBefore = {b1}
  DomainIds = {d1, d2}
  Hostnames = {h1}
  LegacyDomains = {d1}
  Requests = {q1}
  RouteTicks = {t1}
INVARIANTS
  SettleTypeOK
  DeployedFromImage
PROPERTIES
  CancelDecides
  RoutesSettle
  OrphansStop
CHECK_DEADLOCK FALSE
