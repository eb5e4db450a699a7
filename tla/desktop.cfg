SPECIFICATION DesktopSpec
CONSTANTS
  Torrents = {1, 2, 3}
  Setups <- AllSetups
  Shapeable = {t, u}
  Profiles = {1, 2}
  TagRules = {2}
  Capping = {1}
  Matches <- SomeMatches
  Refusals = {"assign", "caps"}
  Racing = FALSE
  MaxActs = 2
  Guids = {1, 2}
  Feeds = {"f", "g"}
  Rules = {"x", "y"}
  Carries <- SomeCarries
  Scope <- SomeScope
  Matching <- SomeMatching
  Smart = {"y"}
  Episode <- OneEpisode
  SeenCap = 1
  MaxTrouble = 2
INVARIANTS
  TypeOK
  WindowHalts
  AnnouncedOnce
  ShapeTypeOK
  RssTypeOK
PROPERTIES
  UserPauseStands
  CapsHold
  SlotsFill
  LimitsFollow
  ManualStands
  RulesSettle
  NoRepeat
  InTheEndAdded
