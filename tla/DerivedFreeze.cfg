CONSTANTS
  Scale = 12
  Readings = {"cpu", "gpu"}
  Levels <- MCLevels
  None = None
  Library = "library"
  Config <- MCConfig
  CompositeSlots <- MCCompositeSlots
  DerivedSlots <- MCDerivedSlots
  TileSets <- MCDerived
  MaxPolls = 2
  MaxEdits = 0
SPECIFICATION Spec
INVARIANT DerivedDoesNotFreeze
