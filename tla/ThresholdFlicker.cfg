SPECIFICATION Spec
CONSTANTS
  Scale = 4
  Configs <- Equal
  Values <- Readings
  Unavailable = Unavailable
  MaxTime = 5
PROPERTIES
  HysteresisPreventsFlicker
