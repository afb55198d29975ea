\* Two overlapping runs over two days with --limit 1, killed at most once; one
\* occurrence cannot be materialised.
SPECIFICATION FairSpec
CONSTANTS
  r1 = r1
  r2 = r2
  Routes = {r1, r2}
  Days = {1, 2}
  OperatesOn <- MCOperatesOn
  Broken <- MCBroken
  Runners = {p1, p2}
  Limit = 1
  MaxCrashes = 1
INVARIANTS
  OneOperationEach
PROPERTIES
  SettledOccurrencesStay
  PlannedAreProcessed
CHECK_DEADLOCK FALSE
