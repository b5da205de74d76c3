SPECIFICATION FairSpec
CONSTANTS
  c1 = c1  c2 = c2
  Nobody = Nobody
  Clients <- MCClients
  RestClients <- MCClients
  Timeouts <- MCTimeouts
INVARIANTS
  TypeOK
  RunningIsNews
PROPERTIES
  WaitsUndisturbed
  OnlyUnlimitedWaitsBlock
