SPECIFICATION Spec
CONSTANTS
  Torrents <- OneTorrent
  MaxMoves = 2
  Paths <- OnePaths
  Dirs <- TwoDirs
  NoDir = NoDir
  Names <- OneName
  NameOf <- OneNameOf
  MaxSuffix = 0
  StartDir <- OneStart
  Recorded <- OneRecorded
  RuleDir <- NoRule
  Configured = TRUE
  AutoRename = FALSE
  SameVolume = TRUE
  Unselected = {}
  Squatted = {}
  Foreign = Foreign
  Nobody = Nobody
  Commands = {"start", "stop", "cancel", "retry", "remove"}
  Faults = {"rpc", "fs", "rename", "cleanup", "save", "torn"}
  MaxCrashes = 1
  t1 = t1
  t2 = t2
  incoming = incoming
  library = library
  show = show
  film = film
INVARIANTS
  TypeOK
  DataSurvives
  OneTaskPerTorrent
  OneUnfinishedEntry
  RecoveryPrecedesMoves
PROPERTIES
  KeepsCustody
