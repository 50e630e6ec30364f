CONSTANTS
  temperature = temperature
  fan = fan
  None = None
  Pages = {temperature, fan}
  FirstPages <- TwoPages
  Sticky = {fan}
  Snoozable = {temperature}
  BringToFront = {temperature, fan}
  OverviewCap = 3
  DefaultViews = {FALSE}
  MaxUser = 3
  MaxWorld = 2
SPECIFICATION Spec
INVARIANTS TypeOK StripSettles NavigationHolds SavedAgrees
