SPECIFICATION Spec
CONSTANTS
  Rates = {r1, r2}
  DefaultRate = r1
  Ids = {i1, i2}
  Values = {v1, v2}
  Favorites = {f1}
  Presets = {p1}
  Titles = {t0, t1}
  NoTitle = t0
  Looks = {l1, l2}
  None = None
  MaxEdits = 2
  MaxCrashes = 1
  MaxFailures = 1
INVARIANTS
  TypeOK
  RateInForce
  AgreeAtRest
  TitlePersists
