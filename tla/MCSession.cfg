SPECIFICATION Spec
CONSTANTS
  Drivers = {d1, d2}
  NoToken = NoToken
  Calls = {c1, c2}
  AccessLife = 2
  RefreshLife = 3
  LastTick = 6
  MaxRestarts = 2
  MaxFailures = 1
SYMMETRY DriversAndCalls
INVARIANTS
  OneDriverPerSession
  HalfSessionsAreBeingCleared
