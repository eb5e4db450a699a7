SPECIFICATION FairSpec
CONSTANTS
  Torrents <- TwoTorrents
  MaxMoves = 1
  Paths <- SuffixPaths
  Dirs <- TwoDirs
  NoDir = NoDir
  Names <- TwoNames
  NameOf <- TwoNameOf
  MaxSuffix = 1
  StartDir <- TwoStart
  Recorded <- TwoRecorded
  RuleDir <- TwoRule
  Configured = TRUE
  AutoRename = TRUE
  SameVolume = FALSE
  Unselected = {t2}
  Squatted = {}
  Foreign = Foreign
  Nobody = Nobody
  Commands = {"cancel", "queue"}
  Faults = {"fs"}
  MaxCrashes = 0
  t1 = t1
  t2 = t2
  incoming = incoming
  library = library
  show = show
  film = film
INVARIANTS
  StoppedWhileMoving
  CancelLeavesSource
  RunsAgainAfterMove
PROPERTIES
  CompletedGoHome
