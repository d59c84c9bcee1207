SPECIFICATION FairHealthSpec
CONSTANTS
  pdf = pdf
  audio = audio
  ConfigLists <- MCConfigLists
  Scanner = Scanner
  ChannelSize = 1
  Channels = 1
  GhostAfter = 1
  Deaths = {"zombie", "gone"}
  MayFail = TRUE
  MayDie = TRUE
INVARIANTS
  NoOrphan
  WatchedOnce
PROPERTIES
  BootEnds
  DeathIsShown
  DeadIsRemoved
CHECK_DEADLOCK FALSE
