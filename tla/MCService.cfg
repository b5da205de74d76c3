SPECIFICATION ServiceFairSpec
CONSTANTS
  k1 = k1  k2 = k2  p1 = p1
  Nobody = Nobody
  Conns <- MCConns
  Pids <- MCPids
  Modes <- MCAllModes
  Clients <- MCClients
INVARIANTS
  ServiceTypeOK
  DrainedBeforeHalt
  EndDrains
  VmrestGone
PROPERTIES
  StopEnds
  EveryHandlerReturns
CHECK_DEADLOCK FALSE
