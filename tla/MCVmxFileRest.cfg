SPECIFICATION FairSpec
CONSTANTS
  c1 = c1  c2 = c2
  NoClient = NoClient
  Clients <- MCTwo
  RestClients <- MCTwo
  MaxNics = 2
  Slots = 2
INVARIANTS
  TypeOK
  LoadedIsCurrent
  StatusReportsAllCards
PROPERTIES WholeVersions EveryEditEnds
