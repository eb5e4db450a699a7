SPECIFICATION Spec
CONSTANTS
  Torrents <- OneTorrent
  MaxMoves = 2
  Paths <- OnePaths
  Dirs <- TwoDirs
  NoDir = NoDir
  Names <- OneName
  NameOf <- OneNameOf
  MaxSuffix = 0
  StartDir <- OneStart
  Recorded <- OneRecorded
  RuleDir <- NoRule
  Configured = TRUE
  AutoRename = FALSE
  SameVolume = FALSE
  Unselected = {}
  Squatted = {}
  Foreign = Foreign
  Nobody = Nobody
  Commands = {}
  Faults = {}
  MaxCrashes = 1
  t1 = t1
  t2 = t2
  incoming = incoming
  library = library
  show = show
  film = film
PROPERTIES
  RecoveredIsWhole
