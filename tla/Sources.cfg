SPECIFICATION Spec
CONSTANTS
  Period = 1
  Intervals = {1, 2}
  Grain = 1
  Stale = 5
  Backoff = 3
  MaxChanges = 2
  MaxFaults = 1
  None = None
INVARIANTS
  TypeOK
  NoticesLoss
  NoFreeze
  KeepsUp
