SPECIFICATION Spec
CONSTANTS
  Scale = 2
  Configs <- AllConfigs
  Values <- Readings
  Unavailable = Unavailable
  MaxTime = 5
INVARIANTS
  TypeOK
  OnePhase
  TimersMatchHistory
  SnapshotIsWorst
PROPERTIES
  EndsOnlyWhenConditionEnds
  OrdinaryAlertEnds
  ImplementsAlarm
