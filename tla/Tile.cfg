SPECIFICATION Spec
CONSTANTS
  Scale = 2
  warm = warm
  hot = hot
  shared = shared
  Ids <- AllIds
  Globals <- Library
  Variants <- AllVariants
  Values <- Readings
  Unavailable = Unavailable
  Presets <- SomePresets
  None = None
  MaxTime = 3
INVARIANTS
  TypeOK
  LastMatchWins
  ColorsFollowAlert
  SnoozeEnds
PROPERTIES
  StickyStaysUntilCleared
