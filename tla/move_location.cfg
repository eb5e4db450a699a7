SPECIFICATION Spec
CONSTANTS
  Torrents <- OneTorrent
  MaxMoves = 1
  Paths <- OnePaths
  Dirs <- TwoDirs
  NoDir = NoDir
  Names <- OneName
  NameOf <- OneNameOf
  MaxSuffix = 0
  StartDir <- OneStart
  Recorded <- OneRecorded
  RuleDir <- NoRule
  Configured = TRUE
  AutoRename = FALSE
  SameVolume = TRUE
  Unselected = {}
  Squatted = {}
  Foreign = Foreign
  Nobody = Nobody
  Commands = {"set_location", "repoint", "trash"}
  Faults = {"rpc", "fs", "cleanup"}
  MaxCrashes = 0
  t1 = t1
  t2 = t2
  incoming = incoming
  library = library
  show = show
  film = film
PROPERTIES
  KeepsCustody
