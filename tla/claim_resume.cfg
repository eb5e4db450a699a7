SPECIFICATION ServerSpec
CONSTANTS
  Items = {1, 2, 3}
  Manifests <- TwoManifests
  Sourced = {1, 2}
  Whole = {1, 3}
  MaxImports = 2
  MaxMishaps = 2
  Tokens = {a, b}
  Lifetime = 3
  PersistEvery = 2
  MaxTime = 6
  MaxLosses = 1
  RateWindow = 2
  RateMax = 3
  MaxInstant = 7
  MaxAdmitted = 9
INVARIANTS
  ResumesCleanly
CHECK_DEADLOCK FALSE
