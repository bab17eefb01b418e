SPECIFICATION MissionFairSpec
CONSTANTS
  MaxKeys = 3
  MaxVersion = 3
  Empty = {2}
  Live = TRUE
  LastPhase = 9
  Ship <- MCShip
INVARIANTS
  LogTellsPhase
  StoryInOrder
  NoSpontaneousRestart
  BoardTellsStory
  EventLogged
PROPERTIES
  StartsIfWatched
\* the user may stop, and then nothing is left in flight
CHECK_DEADLOCK FALSE
