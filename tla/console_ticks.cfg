SPECIFICATION Spec
CONSTANTS
  Hashes = {h1}
  Statuses = {run}
  Paths = {home}
  NoRow = NoRow
  NoStatus = NoStatus
  Window = 5
  FullEvery = 3
  Slots = {s1, s2}
  Recycles = FALSE
  Restarts = FALSE
  Verbs = {}
  Changing = {h1}
INVARIANTS
  TypeOK
  SameRevisionSameTable
SYMMETRY SlotSymmetry
