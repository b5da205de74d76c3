SPECIFICATION FairSpec
CONSTANTS
  c1 = c1  c2 = c2
  u1 = u1  u2 = u2  u3 = u3
  n1 = n1  n2 = n2
  NoName = NoName  NoObj = NoObj  NoClient = NoClient
  Clients <- MCTwo
  RestClients <- MCOne
  Uuids <- MCTwoUuids
  Names <- MCOneName
  Template = u1
  Autostart <- MCAuto
  Ops <- MCFullOps
  Gens <- MCGens
  Faults = TRUE
  Additions = TRUE
INVARIANTS
  OneMutationAtATime
  DeletesOnlyStopped
PROPERTY EveryRequestAnswered
