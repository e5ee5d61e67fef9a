SPECIFICATION Spec
CONSTANTS
  Users = {u1}
  Ticks = {}
  Builds = {b1}
  MaxAttempts = 4
  MaxRevisions = 3
INVARIANT SoleRunningRevision
