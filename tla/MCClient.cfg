\* Two points, two sessions, a failure, a restart, a logout; no symmetry, for
\* the liveness check.
SPECIFICATION FairSpec
CONSTANTS
  y1 = y1
  t1 = t1
  Syncs = {y1}
  Stops = {t1}
  MaxPoints = 2
  MaxSessions = 2
  MaxStarts = 1
  Chunk = 1
  MaxFailures = 1
  MaxRestarts = 1
  MaxLogouts = 1
INVARIANTS
  StoredOnce
PROPERTIES
  SyncForgetsOnlySent
  ActivePointsAreDelivered
CHECK_DEADLOCK FALSE
