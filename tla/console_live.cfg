SPECIFICATION FairSpec
CONSTANTS
  Hashes = {h1}
  Statuses = {run, stop}
  Paths = {home}
  NoRow = NoRow
  NoStatus = NoStatus
  Window = 4
  FullEvery = 2
  Slots = {s1}
  Recycles = TRUE
  Restarts = TRUE
  Verbs = {run}
  Changing = {}
PROPERTIES
  CatchesUp
