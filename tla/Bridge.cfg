SPECIFICATION FairSpec
CONSTANTS
  p1 = p1
  p2 = p2
  p3 = p3
  p4 = p4
  r1 = r1
  Procs <- FourProcs
  Restarters <- OneRestarter
  NoProc = NoProc
  MaxRequests = 1
  MaxFaults = 2
INVARIANTS
  TypeOK
  NoStrayBridge
PROPERTIES
  BridgeComesBack
  HungBridgeReplaced
  ShutdownCompletes
CHECK_DEADLOCK FALSE
