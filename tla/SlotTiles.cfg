CONSTANTS
  Scale = 12
  Readings = {"cpu", "gpu"}
  Levels <- MCLevels
  None = None
  Library = "library"
  Config <- MCConfig
  CompositeSlots <- MCCompositeSlots
  DerivedSlots <- MCDerivedSlots
  TileSets <- MCTileSets
  MaxPolls = 2
  MaxEdits = 2
SPECIFICATION Spec
INVARIANTS
  TypeOK
  SlotsAreCurrent
  SlotColorsFollowAlert
  DerivedIsCurrent
