\* Two sensors with breaches on both sides, two hours, one hour to go stale.
SPECIFICATION Spec
CONSTANTS
  d1 = d1
  d2 = d2
  Devices = {d1, d2}
  Ids = {"a"}
  Temps <- BothSides
  MinC = {2}
  MaxC = {5}
  MaxTime = 2
  StaleAfter = 1
  MaxReadings = 3
INVARIANTS
  OneActiveExcursion
  AlarmFollowsSensor
  BreachesAreRecorded
CHECK_DEADLOCK FALSE
